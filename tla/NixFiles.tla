------------------------------ MODULE NixFiles ------------------------------
(***************************************************************************)
(* The texts mix makes for Nix: the user's home.nix                        *)
(* (crates/nixgen/src/home.rs), the flake.nix that is written when mix is  *)
(* built and filled in when it runs (flake_write.rs, build.rs, flake.rs),  *)
(* the names an evaluation is asked about (facts.rs) and the installables  *)
(* on nix's command line (installable.rs).                                 *)
(*                                                                         *)
(* A word of a generated file is one letter.                               *)
(***************************************************************************)
EXTENDS NixText, TLC

CONSTANT Reserved       \* the characters a URL gives a meaning, or cannot hold

Word(w) == <<w>>
PKGS == Word("pkgs")

GENERATED_HEADER == <<"#", " ", "generated", "nl", "#", " ", "a", "nl", "nl">>

-----------------------------------------------------------------------------
(* home.nix.                                                               *)

(* UserName, HomeDir, packages, CopyIntoGeneration.                        *)
accepts(home) ==
    /\ \E i \in DOMAIN home.username : home.username[i] \notin {" ", "tab", "nl"}
    /\ home.directory # <<>> /\ home.directory[1] = "/"
    /\ \A i \in DOMAIN home.packages : is_identifier(home.packages[i])
    /\ \A i \in DOMAIN home.files : is_file_name(home.files[i].source) /\ is_file_name(home.files[i].target)

CP == <<"cp", " ">>
NEXT_CP == <<"nl", "cp", " ">>
INTO_OUT == <<" ", "$", "out", "/">>

copied(files) ==
    Str(Concat([i \in DOMAIN files |->
          <<Verbatim(IF i = 1 THEN CP ELSE NEXT_CP), Interp(Path(files[i].source)),
            Lit(INTO_OUT), Verbatim(files[i].target)>>]))

home_module(home) ==
    LET always == (Word("homeDirectory") :> Text(home.directory))
                  @@ (Word("packages") :> List([i \in DOMAIN home.packages |->
                                                  Select(Var(PKGS), <<home.packages[i]>>)]))
                  @@ (Word("stateVersion") :> Str(<<Verbatim(Word("version"))>>))
                  @@ (Word("username") :> Text(home.username))
        commands == Word("extraBuilderCommands") :> copied(home.files)
    IN Lambda({PKGS}, TRUE,
         Attrs(Word("home") :> Attrs(IF home.files = <<>> THEN always ELSE always @@ commands)))

render_home(home) == GENERATED_HEADER \o print(home_module(home)) \o <<"nl">>

-----------------------------------------------------------------------------
(* flake.nix.                                                              *)

INPUTS == {"home-manager", "nixpkgs"}
follows(input) == IF input = "home-manager" THEN {"nixpkgs"} ELSE {}

input_attrs(input, rev) ==
    LET url == Word("url") :> Str(<<Verbatim(<<"github:">>), Verbatim(<<"owner">>), Verbatim(<<"/">>),
                                     Verbatim(<<"repo">>), Verbatim(<<"/">>), Verbatim(rev)>>)
        followed == [f \in {Word(i) : i \in follows(input)} |->
                       Attrs(Word("follows") :> Str(<<Verbatim(f)>>))]
    IN Attrs(IF follows(input) = {} THEN url ELSE url @@ (Word("inputs") :> Attrs(followed)))

write_flake(username, system, revs) ==
    LET configuration ==
          Apply(Select(Var(Word("home-manager")), <<Word("lib"), Word("homeManagerConfiguration")>>),
                Attrs((Word("modules") :> List(<<Path(<<"home", ".", "nix">>)>>))
                      @@ (PKGS :> Select(Var(Word("nixpkgs")), <<Word("legacyPackages"), system>>))))
    IN Attrs((Word("description") :> Str(<<Verbatim(<<"Generated", " ", "by", " ", "mix">>)>>))
             @@ (Word("inputs") :> Attrs([i \in {Word(n) : n \in INPUTS} |-> input_attrs(i[1], revs[i[1]])]))
             @@ (Word("outputs") :> Lambda({Word(n) : n \in INPUTS}, TRUE,
                   Attrs(Word("homeConfigurations") :> Attrs(username :> configuration)))))

(* build.rs: the flake with a marker in every hole, each of them a name.   *)
USERNAME_HOLE == "username hole"
SYSTEM_HOLE == "system hole"
rev_hole(input) == <<"rev hole", input>>
FLAKE_TEMPLATE ==
    GENERATED_HEADER
    \o print(write_flake(<<USERNAME_HOLE>>, <<SYSTEM_HOLE>>, [i \in INPUTS |-> <<rev_hole(i)>>]))
    \o <<"nl">>

(* FlakeConfig::render.                                                    *)
filled(symbol, flake) ==
    CASE symbol = USERNAME_HOLE -> write_key(flake.username)
      [] symbol = SYSTEM_HOLE -> write_key(flake.system)
      [] symbol \in {rev_hole(i) : i \in INPUTS} -> flake.revs[symbol[2]]
      [] OTHER -> <<symbol>>

fill(template, flake) == Concat([i \in DOMAIN template |-> filled(template[i], flake)])
render_flake(flake) == fill(FLAKE_TEMPLATE, flake)

-----------------------------------------------------------------------------
(* What an evaluation is asked about: package_facts, derivations and       *)
(* package_checks end in the list of the names.                            *)
names_list(names) == List([i \in DOMAIN names |-> Text(names[i])])

-----------------------------------------------------------------------------
(* Installables.                                                           *)

is_unreserved(c) == c \in Letter \cup Digit \cup {"-", ".", "_", "~"}
is_path_byte(c) == is_unreserved(c) \/ c = "/"

hex(c) == "%" \o c      \* the escape of a byte, one symbol

percent_encode(text, keep(_)) == [i \in DOMAIN text |-> IF keep(text[i]) THEN text[i] ELSE hex(text[i])]

write_path(dir) == percent_encode(dir, is_path_byte)

valid_installable(x) ==
    /\ x.dir # <<>> /\ x.dir[1] = "/"
    /\ x.attr_path # <<>>
    /\ \A i \in DOMAIN x.attr_path : /\ x.attr_path[i] # <<>>
                                     /\ \A j \in DOMAIN x.attr_path[i] : x.attr_path[i][j] # "\""

write_flake_ref(x) ==
    LET at == IF x.at = <<>> THEN <<>>
              ELSE <<"?", x.at[1], "=">> \o percent_encode(x.at[2], is_unreserved)
        signer == IF x.signer = <<>> THEN <<>>
                  ELSE <<IF x.at = <<>> THEN "?" ELSE "&", "publicKey", "=">>
                       \o percent_encode(x.signer, is_unreserved)
    IN IF x.kind = "path" THEN <<"path:">> \o write_path(x.dir)
       ELSE <<"git+file://">> \o write_path(x.dir) \o at \o signer

write_attr_path(path) ==
    LET quoted(s) == IF is_identifier(s) THEN s ELSE <<"\"">> \o s \o <<"\"">>
        fragment == Concat([i \in DOMAIN path |-> IF i = 1 THEN quoted(path[i]) ELSE <<".">> \o quoted(path[i])])
    IN percent_encode(fragment, is_unreserved)

render_installable(x) == write_flake_ref(x) \o <<"#">> \o write_attr_path(x.attr_path)

-----------------------------------------------------------------------------
(* How nix reads an installable.                                           *)

Position(text, c) == LET at == {i \in DOMAIN text : text[i] = c}
                     IN IF at = {} THEN Len(text) + 1 ELSE CHOOSE i \in at : \A j \in at : i <= j
UpTo(text, c) == SubSeq(text, 1, Position(text, c) - 1)
After(text, c) == SubSeq(text, Position(text, c) + 1, Len(text))

decoded(text) ==
    LET of(s) == {c \in Reserved : s = hex(c)}
    IN [i \in DOMAIN text |-> IF of(text[i]) = {} THEN text[i] ELSE CHOOSE c \in of(text[i]) : TRUE]

RECURSIVE split_fields(_)
split_fields(text) ==
    IF text = <<>> THEN {}
    ELSE LET field == UpTo(text, "&")
         IN {<<UpTo(field, "="), decoded(After(field, "="))>>} \cup split_fields(After(text, "&"))

(* An attribute path: dots separate, except between quotes.                *)
RECURSIVE segments(_, _, _, _)
segments(text, current, quoted, done) ==
    IF text = <<>> THEN Append(done, current)
    ELSE LET c == Head(text)
         IN CASE c = "\"" -> segments(Tail(text), current, ~quoted, done)
              [] c = "." /\ ~quoted -> segments(Tail(text), <<>>, quoted, Append(done, current))
              [] OTHER -> segments(Tail(text), Append(current, c), quoted, done)

nix_reads(text) ==
    LET ref == UpTo(text, "#")
        body == Tail(ref)
    IN [kind |-> ref[1], dir |-> decoded(UpTo(body, "?")), fields |-> split_fields(After(body, "?")),
        attr_path |-> segments(decoded(After(text, "#")), <<>>, FALSE, <<>>)]

(* ... and what it should have read.                                       *)
meant(x) ==
    [kind |-> IF x.kind = "path" THEN "path:" ELSE "git+file://", dir |-> x.dir,
     fields |-> IF x.kind = "path" THEN {}
                ELSE {f \in {IF x.at = <<>> THEN <<>> ELSE <<<<x.at[1]>>, x.at[2]>>,
                             IF x.signer = <<>> THEN <<>> ELSE <<<<"publicKey">>, x.signer>>} : f # <<>>},
     attr_path |-> x.attr_path]
=============================================================================
