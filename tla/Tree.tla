-------------------------------- MODULE Tree --------------------------------
(***************************************************************************)
(* The order in which a declared machine is checked: a tree of accounts    *)
(* and paths becomes a sequence of checks, each with the checks it waits   *)
(* on.  A node is checked before what is below it, its "up" checks after.  *)
(*                                                                         *)
(* Source: crates/core/src/declared/tree/mod.rs.                           *)
(*                                                                         *)
(* A handle is the position of its draft.  A draft with parent 0 belongs   *)
(* below the nearest draft above its path.                                 *)
(***************************************************************************)
EXTENDS Integers, Sequences, SequencesExt, FiniteSets, FiniteSetsExt

CONSTANT Alphabet                      \* the names of path components, in byte order

MACHINE == 1
ACCOUNTS == 2
ROOT_NODE == 3

Draft(path, parent, down) ==
    [path |-> path, parent |-> parent, down |-> down, up |-> <<>>,
     refers |-> <<>>, upRefers |-> <<>>]

\* The drafts every builder starts with.
NewBuilder ==
    <<Draft(<<>>, 0, <<>>), Draft(<<>>, MACHINE, <<>>), Draft(<<>>, MACHINE, <<>>)>>

AtPath(drafts, path) == CHOOSE h \in ROOT_NODE..Len(drafts) : drafts[h].path = path
Placed(drafts, path) == \E h \in (ROOT_NODE + 1)..Len(drafts) : drafts[h].path = path

AddPath(drafts, path, down) ==
    IF ~Placed(drafts, path) THEN Append(drafts, Draft(path, 0, down))
    ELSE IF drafts[AtPath(drafts, path)].down # <<>> THEN drafts
    ELSE [drafts EXCEPT ![AtPath(drafts, path)].down = down]
AddAccount(drafts, parent, down) == Append(drafts, Draft(<<>>, parent, down))
AddUp(drafts, at, check) == [drafts EXCEPT ![at].up = Append(@, check)]
AddRefers(drafts, from, to) == [drafts EXCEPT ![from].refers = Append(@, to)]
AddUpRefers(drafts, from, to) == [drafts EXCEPT ![from].upRefers = Append(@, to)]

(***************************************************************************)
(* Linking.                                                                *)
(***************************************************************************)
Parent(drafts, h) ==
    LET above == {n \in 0..(Len(drafts[h].path) - 1) :
                     n = 0 \/ Placed(drafts, SubSeq(drafts[h].path, 1, n))}
    IN  IF drafts[h].parent # 0 \/ h = MACHINE THEN drafts[h].parent
        ELSE IF Max(above) = 0 THEN ROOT_NODE
        ELSE AtPath(drafts, SubSeq(drafts[h].path, 1, Max(above)))

RankOf(component) == CHOOSE i \in DOMAIN Alphabet : Alphabet[i] = component[1]
PathBefore(p, q) ==
    LET apart == {i \in DOMAIN p \cap DOMAIN q : p[i] # q[i]}
    IN  IF apart = {} THEN Len(p) < Len(q) ELSE RankOf(p[Min(apart)]) < RankOf(q[Min(apart)])

\* Siblings stand in the order of their paths, the top directories in the
\* order they were declared in.
Children(drafts, h) ==
    LET below == SelectSeq([c \in DOMAIN drafts |-> c], LAMBDA c : Parent(drafts, c) = h)
        ByPath(a, b) == \/ PathBefore(drafts[a].path, drafts[b].path)
                        \/ drafts[a].path = drafts[b].path /\ a < b
    IN  IF h \in {MACHINE, ROOT_NODE} THEN below ELSE SortSeq(below, ByPath)

\* A node and everything above it.
RECURSIVE Line(_, _)
Line(parents, h) ==
    <<h>> \o (IF parents[h] = 0 THEN <<>> ELSE Line(parents, parents[h]))

References(drafts) ==
    FlattenSeq([h \in DOMAIN drafts |->
        [i \in DOMAIN (drafts[h].refers \o drafts[h].upRefers) |->
            <<h, (drafts[h].refers \o drafts[h].upRefers)[i]>>]])

\* Where the branch a reference points into stands after the branch that
\* refers to it, it moves directly before it.
PutReferredFirst(parents, children, reference) ==
    LET from == Line(parents, reference[1])
        to == Line(parents, reference[2])
        at == Min({i \in DOMAIN from : from[i] \in Range(to)})
        below == CHOOSE i \in DOMAIN to : to[i] = from[at]
        siblings == children[from[at]]
        first == CHOOSE i \in DOMAIN siblings : siblings[i] = from[at - 1]
        second == CHOOSE i \in DOMAIN siblings : siblings[i] = to[below - 1]
    IN  IF at = 1 \/ below = 1 \/ second <= first THEN children
        ELSE [children EXCEPT ![from[at]] =
                InsertAt(RemoveAt(@, second), first, to[below - 1])]

\* The same sequence, tabulated by TLC.
Tabulated(s) == SubSeq(s, 1, Len(s))

Link(drafts) ==
    LET parents == Tabulated([h \in DOMAIN drafts |-> Parent(drafts, h)])
    IN  [parents |-> parents,
         children |-> FoldLeft(LAMBDA children, reference :
                                  PutReferredFirst(parents, children, reference),
                               Tabulated([h \in DOMAIN drafts |-> Children(drafts, h)]),
                               References(drafts))]

\* Every directory that holds something mix writes is looked over for what
\* interrupted writes left in it.
MarkLeftovers(drafts, links, Writes(_), LeftoversIn(_)) ==
    Tabulated([h \in DOMAIN drafts |->
        IF /\ h = ROOT_NODE \/ drafts[h].path # <<>>
           /\ \E c \in Range(links.children[h]) :
                 drafts[c].down # <<>> /\ Writes(drafts[c].down[1])
        THEN [drafts[h] EXCEPT !.up = Append(@, LeftoversIn(drafts[h].path))]
        ELSE drafts[h]])

(***************************************************************************)
(* Walking the linked drafts.                                              *)
(***************************************************************************)
\* A node's check, the checks below it, and the checks it leaves with.
RECURSIVE Walk(_, _, _)
Walk(drafts, links, h) ==
    LET below == links.children[h]
        Visit(targets, up) == [i \in DOMAIN targets |-> [at |-> h, target |-> targets[i], up |-> up]]
    IN  Visit(drafts[h].down, FALSE)
          \o FlattenSeq([i \in DOMAIN below |-> Walk(drafts, links, below[i])])
          \o Visit(drafts[h].up, TRUE)

\* A check waits on the nearest one above it and on those it refers to; a
\* check a node leaves with waits on all that was checked since the node was
\* entered.
CheckOf(drafts, parents, visits, k) ==
    LET node == drafts[visits[k].at]
        DownAt(h) == {j \in DOMAIN visits : visits[j].at = h /\ ~visits[j].up}
        Referred(refers) == {j \in UNION {DownAt(r) : r \in Range(refers)} : j < k}
        above == UNION {DownAt(a) : a \in Range(Tail(Line(parents, visits[k].at)))}
        entered == Min({j \in DOMAIN visits : visits[k].at \in Range(Line(parents, visits[j].at))})
    IN  IF visits[k].up
        THEN [target |-> visits[k].target, after |-> Referred(node.refers \o node.upRefers),
              within |-> entered..(k - 1)]
        ELSE [target |-> visits[k].target, within |-> {},
              after |-> Referred(node.refers) \cup (IF above = {} THEN {} ELSE {Max(above)})]

ChecksOf(drafts, parents, visits) ==
    Tabulated([k \in DOMAIN visits |-> CheckOf(drafts, parents, visits, k)])
WalkAll(drafts, links) == ChecksOf(drafts, links.parents, Walk(drafts, links, MACHINE))
FinishLinked(drafts, links, tidy, Writes(_), LeftoversIn(_)) ==
    WalkAll(IF tidy THEN MarkLeftovers(drafts, links, Writes, LeftoversIn) ELSE drafts, links)

\* The checks of a finished builder.
Finish(drafts, tidy, Writes(_), LeftoversIn(_)) ==
    FinishLinked(drafts, Link(drafts), tidy, Writes, LeftoversIn)

WaitsOn(check) == check.after \cup check.within
=============================================================================
