------------------------------ MODULE NixLaws ------------------------------
(***************************************************************************)
(* Whatever mix writes for Nix is read as what it meant: expressions grown *)
(* step by step, and the generated files and arguments for names, paths    *)
(* and keys of every kind of character.                                    *)
(***************************************************************************)
EXTENDS NixFiles

CONSTANTS
    Char,           \* the characters literals are made of
    Keys,           \* keys and file names
    Names,          \* names of users, packages and directories
    MaxSize         \* bound: characters typed into an expression, and twice
                    \* the constructors put around it

VARIABLES
    text,       \* what is written: an expression, a file or an installable
    size        \* how far an expression has been grown

nixVars == <<text, size>>

Idents == {k \in Keys : is_identifier(k)}

Atoms == {Text(<<>>), Bool(TRUE), List(<<>>), Attrs(<<>>), Lambda({}, FALSE, Var(PKGS))}
         \cup {Var(k) : k \in Idents \ {TRUE_}} \cup {Path(f) : f \in {k \in Keys : is_rel_path(k)}}

(* One thing at a time is out of the ordinary.                             *)
Usual == [username |-> <<"a">>, directory |-> <<"/", "a">>, packages |-> <<>>, files |-> <<>>]
Copy(f, g) == [source |-> f, target |-> g]
Homes == {h \in {[Usual EXCEPT !.username = n] : n \in Names}
                \cup {[Usual EXCEPT !.directory = <<"/">> \o n] : n \in Names}
                \cup {[Usual EXCEPT !.packages = <<k, <<"a">>>>] : k \in Keys}
                \cup {[Usual EXCEPT !.files = <<Copy(f, g), Copy(g, f)>>] : f \in Keys, g \in Keys} : accepts(h)}

Flakes == [username : Names, system : {Word("x86_64-linux")}, revs : [INPUTS -> {<<"a">>}]]

Installables == {x \in [kind : {"path", "git"}, dir : {<<"/">> \o n : n \in Names},
                        signer : {<<>>, <<"+", "a", "=">>}, at : {<<>>, <<"ref", <<"a", "/">>>>},
                        attr_path : {<<PKGS, n>> : n \in Names}] : valid_installable(x)}

NixInit ==
    /\ size = 0
    /\ \/ \E e \in Atoms : text = <<"expr", e>>
       \/ \E h \in Homes : text = <<"home", h>>
       \/ \E n, m \in Names : text = <<"names", names_list(<<n, m>>)>>
       \/ \E f \in Flakes : text = <<"flake", f>>
       \/ \E x \in Installables : text = <<"installable", x>>

Growing == text[1] = "expr"
Becomes(e) == text' = <<"expr", e>>

(* Another character in the last literal of a string, or another literal.  *)
Type ==
    /\ Growing /\ Kind(text[2]) = "Str" /\ size < MaxSize
    /\ size' = size + 1
    /\ LET parts == text[2][2]
       IN \/ \E c \in Char :
               /\ parts[Len(parts)][1] = "Lit"
               /\ Becomes(Str([parts EXCEPT ![Len(parts)] = Lit(Append(@[2], c))]))
          \/ \E c \in Char : Becomes(Str(Append(parts, Lit(<<c>>))))

Wrap ==
    /\ Growing /\ size + 2 <= MaxSize
    /\ size' = size + 2
    /\ LET e == text[2]
       IN \/ \E k \in Keys : Becomes(Select(e, <<k>>))
          \/ \E k \in Keys : Becomes(Attrs((k :> e) @@ (<<"$", "{">> :> Bool(FALSE))))
          \/ \E a \in {Text(<<"$">>), Var(PKGS), Path(<<"a">>), Lambda({PKGS}, TRUE, Var(PKGS))} :
               \/ Becomes(Apply(e, a))
               \/ Becomes(Apply(a, e))
               \/ Becomes(List(<<e, a>>))
               \/ Becomes(List(<<a, e>>))
          \/ \E f \in SUBSET {PKGS, <<"a">>}, ellipsis \in BOOLEAN : Becomes(Lambda(f, ellipsis, e))
          \/ Becomes(Str(<<Lit(<<"$">>), Interp(e), Lit(<<"{">>)>>))
          \/ Becomes(Str(<<Interp(e)>>))

NixNext == Type \/ Wrap
NixSpec == NixInit /\ [][NixNext]_nixVars

-----------------------------------------------------------------------------
(* Every expression is read back as it was written, up to normalize: the   *)
(* escapes, the held back dollar, the quoted keys and the parentheses are  *)
(* enough and not too many; home.nix and the flake with its holes filled   *)
(* in are the modules they stand for, whoever the user is; and nix is      *)
(* handed the directory, the commit, the key and the attribute path meant. *)
WhatIsWrittenIsRead ==
    CASE text[1] = "nothing" -> TRUE
      [] text[1] \in {"expr", "names"} -> parse(print(text[2])) = {normalize(text[2])}
      [] text[1] = "home" -> parse(render_home(text[2])) = {normalize(home_module(text[2]))}
      [] text[1] = "flake" ->
           parse(render_flake(text[2]))
             = {normalize(write_flake(text[2].username, text[2].system, text[2].revs))}
      [] text[1] = "installable" -> nix_reads(render_installable(text[2])) = meant(text[2])
=============================================================================
