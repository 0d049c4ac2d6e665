------------------------------ MODULE NixText ------------------------------
(***************************************************************************)
(* The Nix language as mix writes and reads it: the expressions of         *)
(* crates/nixgen/src/ast.rs, the writer of print.rs and the parser of      *)
(* parse.rs.  A text is a sequence of characters; of a character only what *)
(* the writer and the parser tell apart is kept, and the writer's layout   *)
(* is one space wherever it writes white space.                            *)
(*                                                                         *)
(* An expression is a tuple headed by its kind.  The keys of a set and the *)
(* formals of a function, which the code keeps sorted, are the domain of a *)
(* function and a set.                                                     *)
(***************************************************************************)
EXTENDS Integers, Sequences, FiniteSets

CONSTANTS Letter, Digit     \* the characters identifiers are made of

Str(parts) == <<"Str", parts>>
Bool(b) == <<"Bool", b>>
List(items) == <<"List", items>>
Attrs(entries) == <<"Attrs", entries>>
Var(name) == <<"Var", name>>
Select(base, keys) == <<"Select", base, keys>>
Apply(f, a) == <<"Apply", f, a>>
Lambda(formals, ellipsis, body) == <<"Lambda", formals, ellipsis, body>>
Path(name) == <<"Path", name>>

Lit(text) == <<"Lit", text>>
Verbatim(text) == <<"Verbatim", text>>      \* text known to need no escape
Interp(e) == <<"Interp", e>>
Text(text) == Str(<<Lit(text)>>)

Kind(e) == e[1]

-----------------------------------------------------------------------------
(* Names.                                                                  *)

IF_ == <<"i", "f">>
OR_ == <<"o", "r">>
TRUE_ == <<"t", "r", "u", "e">>
FALSE_ == <<"f", "a", "l", "s", "e">>

RESERVED_WORDS == {IF_, OR_}    \* two of the ten

is_identifier(s) ==
    /\ s # <<>>
    /\ s[1] \in Letter \cup {"_"}
    /\ \A i \in DOMAIN s : s[i] \in Letter \cup Digit \cup {"_", "'", "-"}
    /\ s \notin RESERVED_WORDS

is_rel_path(s) ==
    /\ s # <<>> /\ s[1] # "."
    /\ \A i \in DOMAIN s : s[i] \in Letter \cup Digit \cup {"-", "."}

is_file_name(s) ==
    /\ s # <<>>
    /\ \A i \in DOMAIN s :
         \/ s[i] \in Letter \cup Digit
         \/ s[i] = "-" /\ i > 1
         \/ s[i] = "." /\ i > 1 /\ i < Len(s) /\ s[i - 1] # "."

is_verbatim(s) == \A i \in DOMAIN s : s[i] \notin {"\"", "\\", "cr", "$"}

-----------------------------------------------------------------------------
(* The writer.                                                             *)

CharAt(t, p) == IF p \in DOMAIN t THEN t[p] ELSE "end"

Concat(parts) ==
    LET cat[i \in 0..Len(parts)] == IF i = 0 THEN <<>> ELSE cat[i - 1] \o parts[i]
    IN cat[Len(parts)]

(* Some order of a set: the code's is the byte order.                      *)
RECURSIVE InOrder(_)
InOrder(S) == IF S = {} THEN <<>>
              ELSE LET x == CHOOSE y \in S : TRUE IN <<x>> \o InOrder(S \ {x})

(* Mutant: every dollar is taken for one that needs no escape.             *)
escaped_dollar_last(text, i) ==
    CASE text[i] = "\"" -> <<"\\", "\"">>
      [] text[i] = "\\" -> <<"\\", "\\">>
      [] text[i] = "cr" -> <<"\\", "r">>
      [] OTHER -> <<text[i]>>

escaped(text, i) ==
    CASE text[i] = "\"" -> <<"\\", "\"">>
      [] text[i] = "\\" -> <<"\\", "\\">>
      [] text[i] = "cr" -> <<"\\", "r">>
      [] text[i] = "$" /\ CharAt(text, i + 1) = "{" -> <<"\\", "$">>
      [] OTHER -> <<text[i]>>

write_escaped(text) == Concat([i \in DOMAIN text |-> escaped(text, i)])

write_key(key) == IF is_identifier(key) THEN key
                  ELSE <<"\"">> \o write_escaped(key) \o <<"\"">>

(* StrWriter: a dollar at the end of a literal is held back until it is    *)
(* known what follows it.                                                  *)
held_back(s, next) ==
    IF ~s.pending_dollar THEN s.out
    ELSE s.out \o IF next = "{" THEN <<"\\", "$">> ELSE <<"$">>

lit(s, text) ==
    LET dollar == text[Len(text)] = "$"
        body == IF dollar THEN SubSeq(text, 1, Len(text) - 1) ELSE text
    IN IF text = <<>> THEN s
       ELSE [out |-> held_back(s, text[1]) \o write_escaped(body), pending_dollar |-> dollar]

verbatim(s, text) ==
    IF text = <<>> THEN s
    ELSE [out |-> held_back(s, text[1]) \o text, pending_dollar |-> FALSE]

interp(s, inner) ==
    [out |-> held_back(s, "{") \o <<"$", "{">> \o inner \o <<"}">>, pending_dollar |-> FALSE]

is_operand(e) == Kind(e) \notin {"Apply", "Lambda"}
parenthesized(t) == <<"(">> \o t \o <<")">>

formal_list(formals, ellipsis) ==
    LET names == InOrder(formals) \o IF ellipsis THEN <<<<".", ".", ".">>>> ELSE <<>>
    IN Concat([i \in DOMAIN names |-> IF i = 1 THEN <<" ">> \o names[i]
                                      ELSE <<",", " ">> \o names[i]])

RECURSIVE write_expr(_)
write_operand(e) == IF is_operand(e) THEN write_expr(e) ELSE parenthesized(write_expr(e))

write_part(s, part) ==
    CASE part[1] = "Lit" -> lit(s, part[2])
      [] part[1] = "Verbatim" -> verbatim(s, part[2])
      [] part[1] = "Interp" -> interp(s, write_expr(part[2]))

write_string(parts) ==
    LET s[i \in 0..Len(parts)] ==
          IF i = 0 THEN [out |-> <<"\"">>, pending_dollar |-> FALSE]
          ELSE write_part(s[i - 1], parts[i])
    IN held_back(s[Len(parts)], "\"") \o <<"\"">>

write_base(e) == IF Kind(e) = "Path" THEN parenthesized(write_expr(e)) ELSE write_operand(e)
write_function(e) == IF Kind(e) = "Lambda" THEN parenthesized(write_expr(e)) ELSE write_expr(e)

write_attrs(entries) ==
    LET keys == InOrder(DOMAIN entries)
    IN <<"{", " ">> \o Concat([i \in DOMAIN keys |->
          write_key(keys[i]) \o <<" ", "=", " ">> \o write_expr(entries[keys[i]]) \o <<";", " ">>])
       \o <<"}">>

write_expr(e) ==
    CASE Kind(e) = "Str" -> write_string(e[2])
      [] Kind(e) = "Bool" -> (IF e[2] THEN TRUE_ ELSE FALSE_)
      [] Kind(e) = "List" -> <<"[", " ">> \o Concat([i \in DOMAIN e[2] |-> write_operand(e[2][i]) \o <<" ">>])
                             \o <<"]">>
      [] Kind(e) = "Attrs" -> write_attrs(e[2])
      [] Kind(e) = "Var" -> e[2]
      [] Kind(e) = "Select" -> write_base(e[2]) \o Concat([i \in DOMAIN e[3] |-> <<".">> \o write_key(e[3][i])])
      [] Kind(e) = "Apply" -> write_function(e[2]) \o <<" ">> \o write_operand(e[3])
      [] Kind(e) = "Lambda" -> <<"{">> \o formal_list(e[2], e[3])
                               \o (IF e[2] = {} /\ ~e[3] THEN <<>> ELSE <<" ">>)
                               \o <<"}", ":", " ">> \o write_expr(e[4])
      [] Kind(e) = "Path" -> <<".", "/">> \o e[2]

print(e) == write_expr(e)

-----------------------------------------------------------------------------
(* normalize: the form in which what is read is what was written.          *)

RECURSIVE normalize(_)
normal_part(part) == IF part[1] = "Interp" THEN Interp(normalize(part[2])) ELSE Lit(part[2])

normalize_parts(parts) ==
    LET add(out, part) ==
          IF part[1] = "Lit" /\ part[2] = <<>> THEN out
          ELSE IF part[1] = "Lit" /\ out # <<>> /\ out[Len(out)][1] = "Lit"
          THEN [out EXCEPT ![Len(out)] = Lit(@[2] \o part[2])]
          ELSE Append(out, part)
        all[i \in 0..Len(parts)] == IF i = 0 THEN <<>> ELSE add(all[i - 1], normal_part(parts[i]))
    IN all[Len(parts)]

flattened(base, keys) ==
    IF Kind(base) = "Select" THEN Select(base[2], base[3] \o keys) ELSE Select(base, keys)

normalize(e) ==
    CASE Kind(e) = "Str" -> Str(normalize_parts(e[2]))
      [] Kind(e) = "List" -> List([i \in DOMAIN e[2] |-> normalize(e[2][i])])
      [] Kind(e) = "Attrs" -> Attrs([k \in DOMAIN e[2] |-> normalize(e[2][k])])
      [] Kind(e) = "Select" -> flattened(normalize(e[2]), e[3])
      [] Kind(e) = "Apply" -> Apply(normalize(e[2]), normalize(e[3]))
      [] Kind(e) = "Lambda" -> Lambda(e[2], e[3], normalize(e[4]))
      [] OTHER -> e

-----------------------------------------------------------------------------
(* The parser.  Each operator reads from a position; its value is the set  *)
(* of one pair, what it read and the position after it, or empty if it     *)
(* refuses the text.                                                       *)

Bad == {}
Good(value, p) == {<<value, p>>}
Then(read, next(_, _)) == UNION {next(r[1], r[2]) : r \in read}

White == {" ", "tab", "nl", "cr"}

RECURSIVE line_end(_, _)
line_end(t, p) == IF CharAt(t, p) \in {"nl", "cr", "end"} THEN p ELSE line_end(t, p + 1)

RECURSIVE skip_space(_, _)
skip_space(t, p) == IF CharAt(t, p) \in White THEN skip_space(t, p + 1) ELSE p

RECURSIVE skip_trivia(_, _)
skip_trivia(t, p) ==
    CASE CharAt(t, p) \in White -> skip_trivia(t, p + 1)
      [] CharAt(t, p) = "#" -> skip_trivia(t, line_end(t, p))
      [] OTHER -> p

starts_with(t, p, token) == \A i \in DOMAIN token : CharAt(t, p + i - 1) = token[i]
ELLIPSIS == <<".", ".", ".">>

expect(t, p, token) ==
    LET q == skip_trivia(t, p)
    IN IF CharAt(t, q) = token THEN Good(token, q + 1) ELSE Bad

RECURSIVE name_end(_, _)
name_end(t, p) == IF CharAt(t, p) \in Letter \cup Digit \cup {"_", "'", "-"} THEN name_end(t, p + 1) ELSE p
identifier_end(t, p) == IF CharAt(t, p) \in Letter \cup {"_"} THEN name_end(t, p + 1) ELSE p

identifier(t, p) ==
    LET q == skip_trivia(t, p)
        end == identifier_end(t, q)
    IN IF end = q THEN Bad ELSE Good(SubSeq(t, q, end - 1), end)

at_lambda(t, p) ==
    LET q == skip_space(t, p + 1)
        end == identifier_end(t, q)
    IN /\ CharAt(t, p) = "{"
       /\ \/ CharAt(t, q) = "}" /\ CharAt(t, skip_space(t, q + 1)) = ":"
          \/ CharAt(t, q) # "}" /\ starts_with(t, q, ELLIPSIS)
          \/ end # q /\ CharAt(t, skip_space(t, end)) \in {",", "}"}

at_operand(t, p) ==
    \/ CharAt(t, p) \in {"\"", "[", "{", "(", "_"} \cup Letter
    \/ CharAt(t, p) = "." /\ CharAt(t, p + 1) = "/"

unescape(c) == CASE c = "n" -> "nl" [] c = "r" -> "cr" [] c = "t" -> "tab" [] OTHER -> c
flushed(parts, text) == IF text = <<>> THEN parts ELSE Append(parts, Lit(text))

RECURSIVE expr(_, _)

(* string: what is in it from p on, after text and parts.                  *)
RECURSIVE characters(_, _, _, _)
characters(t, p, text, parts) ==
    LET c == CharAt(t, p)
        next == CharAt(t, p + 1)
    IN CASE c = "end" -> Bad
         [] c = "\"" -> Good(flushed(parts, text), p + 1)
         [] c = "\\" -> (IF next = "end" THEN Bad
                         ELSE characters(t, p + 2, Append(text, unescape(next)), parts))
         [] c = "$" /\ next = "{" ->
              Then(expr(t, p + 2), LAMBDA e, q :
                Then(expect(t, q, "}"), LAMBDA x, r :
                  characters(t, r, <<>>, Append(flushed(parts, text), Interp(e)))))
         [] c = "$" /\ next = "$" -> characters(t, p + 2, text \o <<"$", "$">>, parts)
         [] c = "$" /\ next = "\\" ->
              (IF CharAt(t, p + 2) = "end" THEN Bad
               ELSE characters(t, p + 3, text \o <<"$", unescape(t[p + 2])>>, parts))
         [] c = "cr" -> characters(t, IF next = "nl" THEN p + 2 ELSE p + 1, Append(text, "nl"), parts)
         [] OTHER -> characters(t, p + 1, Append(text, c), parts)

string(t, p) == Then(expect(t, p, "\""), LAMBDA x, q : characters(t, q, <<>>, <<>>))

key_of(parts) ==
    CASE parts = <<>> -> {<<>>}
      [] Len(parts) = 1 /\ parts[1][1] = "Lit" -> {parts[1][2]}
      [] OTHER -> {}

key(t, p) ==
    LET q == skip_trivia(t, p)
    IN IF CharAt(t, q) = "\""
       THEN Then(string(t, q), LAMBDA parts, r :
              {<<k, r>> : k \in key_of(normalize_parts(parts))})
       ELSE Then(identifier(t, q), LAMBDA name, r :
              IF is_identifier(name) THEN Good(name, r) ELSE Bad)

RECURSIVE formals(_, _, _)
formals(t, p0, seen) ==
    LET p == skip_trivia(t, p0)
    IN CASE CharAt(t, p) = "}" -> Good(<<seen, FALSE>>, p + 1)
         [] starts_with(t, p, ELLIPSIS) ->
              Then(expect(t, p + 3, "}"), LAMBDA x, q : Good(<<seen, TRUE>>, q))
         [] OTHER ->
              Then(identifier(t, p), LAMBDA name, q :
                LET r == skip_trivia(t, q)
                IN IF ~is_identifier(name) \/ name \in seen THEN Bad
                   ELSE formals(t, IF CharAt(t, r) = "," THEN r + 1 ELSE r, seen \cup {name}))

lambda(t, p) ==
    Then(expect(t, p, "{"), LAMBDA x, q :
      Then(formals(t, q, {}), LAMBDA f, r :
        Then(expect(t, r, ":"), LAMBDA y, s :
          Then(expr(t, s), LAMBDA body, u : Good(Lambda(f[1], f[2], body), u)))))

RECURSIVE selected(_, _, _)
selected(t, p, keys) ==
    LET q == skip_trivia(t, p)
    IN IF CharAt(t, q) = "." /\ CharAt(t, q + 1) \notin {".", "/"}
       THEN Then(key(t, q + 1), LAMBDA k, r : selected(t, r, Append(keys, k)))
       ELSE Good(keys, q)

RECURSIVE simple(_, _)
selection(t, p) ==
    Then(simple(t, p), LAMBDA base, q :
      Then(selected(t, q, <<>>), LAMBDA keys, r :
        Good(IF keys = <<>> THEN base ELSE Select(base, keys), r)))

RECURSIVE applied(_, _, _)
applied(t, p, f) ==
    LET q == skip_trivia(t, p)
    IN IF ~at_operand(t, q) THEN Good(f, q)
       ELSE Then(selection(t, q), LAMBDA a, r : applied(t, r, Apply(f, a)))

application(t, p) == Then(selection(t, p), LAMBDA f, q : applied(t, q, f))

expr(t, p0) ==
    LET p == skip_trivia(t, p0)
    IN IF at_lambda(t, p) THEN lambda(t, p) ELSE application(t, p)

RECURSIVE items(_, _, _)
items(t, p, got) ==
    LET q == skip_trivia(t, p)
    IN IF CharAt(t, q) = "]" THEN Good(List(got), q + 1)
       ELSE Then(selection(t, q), LAMBDA e, r : items(t, r, Append(got, e)))

RECURSIVE entries_of(_, _, _)
entries_of(t, p, got) ==
    LET q == skip_trivia(t, p)
    IN IF CharAt(t, q) = "}" THEN Good(Attrs(got), q + 1)
       ELSE Then(key(t, q), LAMBDA k, r :
              Then(expect(t, r, "="), LAMBDA x, s :
                Then(expr(t, s), LAMBDA value, u :
                  Then(expect(t, u, ";"), LAMBDA y, v :
                    IF k \in DOMAIN got THEN Bad
                    ELSE entries_of(t, v, [j \in DOMAIN got \cup {k} |->
                                             IF j = k THEN value ELSE got[j]])))))

RECURSIVE path_end(_, _)
path_end(t, p) == IF CharAt(t, p) \in Letter \cup Digit \cup {".", "_", "-", "+"} THEN path_end(t, p + 1) ELSE p

word(name) == CASE name = TRUE_ -> Bool(TRUE) [] name = FALSE_ -> Bool(FALSE) [] OTHER -> Var(name)

simple(t, p0) ==
    LET p == skip_trivia(t, p0)
        c == CharAt(t, p)
        end == path_end(t, p + 2)
    IN CASE c = "\"" -> Then(string(t, p), LAMBDA parts, q : Good(Str(parts), q))
         [] c = "[" -> items(t, p + 1, <<>>)
         [] c = "{" -> entries_of(t, p + 1, <<>>)
         [] c = "(" -> Then(expr(t, p + 1), LAMBDA e, q :
                         Then(expect(t, q, ")"), LAMBDA x, r : Good(e, r)))
         [] c = "." /\ CharAt(t, p + 1) = "/" ->
              (IF is_rel_path(SubSeq(t, p + 2, end - 1))
               THEN Good(Path(SubSeq(t, p + 2, end - 1)), end) ELSE Bad)
         [] OTHER -> Then(identifier(t, p), LAMBDA name, q :
                       IF is_identifier(name) THEN Good(word(name), q) ELSE Bad)

(* parse: the expression the whole text is, if it is one.                  *)
parse(t) == {r[1] : r \in {q \in expr(t, 1) : skip_trivia(t, q[2]) = Len(t) + 1}}
=============================================================================
