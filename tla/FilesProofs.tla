---------------------------- MODULE FilesProofs -----------------------------
(***************************************************************************)
(* What the file actions of Files.tla are proved to do, whatever the       *)
(* bounds, the actions of the request, the faults, the crashes and the     *)
(* acts of other programs: nothing of others is lost, and the path is      *)
(* theirs (Slot.tla).                                                      *)
(*                                                                         *)
(* The invariant says, of each list of calls and of each call in it, what  *)
(* the list relies on there: which of the names of the action are free and *)
(* what is under the others, what may be at the path since it was looked   *)
(* at, which identities are nobody's yet, and that the data of others is   *)
(* where neither the undos on record nor the calls ahead remove it.        *)
(*                                                                         *)
(* 1. Lists of calls.  2. The directory, and 3. what a change of it leaves *)
(* as it is.  4. What becomes of a call, and 5. what every call keeps.     *)
(* 6. The action in hand, 7. when it has failed and 8. when it goes on,    *)
(* and 9. the ways by copy.  10. The undos.  11. The request.              *)
(* 12. The others.  13. The whole.  14. The refinement.                    *)
(***************************************************************************)
EXTENDS Files, SequenceTheorems, TLAPS

(* The rest of a list of calls, from its k-th on.                          *)
From(s, k) == SubSeq(s, k, Len(s))
In(s, k) == k \in 1..Len(s) /\ calls = From(s, k)

(* The names n .. n + 3 and the identities i, i + 1 are those of the       *)
(* action in hand.                                                         *)
base == names - 3
new == ids - 1
Hand(i) == {i, i + 1}

Clean(m) == \A d \in Data(m) : ~Theirs(d)
Is(m, x) == dir[m] # None /\ dir[m].id = x
Done(m) == dir[m] # None => dir[m].done
Unused(x) == \A m \in Names : dir[m] # None => dir[m].id # x
Kinds(x, kinds) == \A m \in Names : dir[m] # None /\ dir[m].id = x => dir[m].kind \in kinds
Empty(ms) == \A m \in ms : dir[m] = None

(* Since the check the path has what was checked, or what others put there. *)
Since(old, kinds) ==
    dir[Path] # None => dir[Path].id < 0 \/ (dir[Path].id = old /\ dir[Path].kind \in kinds)
Taken == dir[Path] # None => dir[Path].id < 0
CaughtOr(m, old) == dir[m] # None /\ dir[m].done /\ (dir[m].id < 0 \/ dir[m].id = old)

-----------------------------------------------------------------------------
(* Where the data of others is safe: in a node no undo and no cleaning up  *)
(* removes, or in a directory, which is removed only when it is empty.     *)
IdOps == {"remove", "removetree", "restore"}
Expects == {undos[k].expect : k \in {l \in DOMAIN undos : undos[l].op \in IdOps}}
Keeps(m, d, R) ==
    /\ dir[m] # None
    /\ \/ dir[m].data = d /\ dir[m].id \notin Expects \cup R
       \/ dir[m].inside = d /\ (dir[m].kind = "dir" \/ dir[m].id \notin Expects \cup R)
Safe(R) ==
    /\ \A d \in living : \E m \in Names : Keeps(m, d, R)
    /\ \A m \in Names : \A d \in Data(m) : Theirs(d) => d \in living

OlderClean(n) == \A m \in 1..(n - 1) : Clean(m)
OwnClean(i) == \A m \in Names : dir[m] # None /\ dir[m].id \in 1..(i - 1) => Clean(m)

-----------------------------------------------------------------------------
(* The actions, call by call: what holds before the k-th.                  *)
AllKinds == {"file", "dir", "lower", "tree"}

Creating(n, i, kind, k) ==
    /\ In(create(kind, n, i), k)
    /\ k <= 2 => Unused(i) /\ dir[n] = None
    /\ k >= 3 => Kinds(i, {kind})
    /\ k \in 3..5 => Is(n, i) /\ (k >= 4 => dir[n].done)
    /\ k >= 6 => dir[n] = None
    /\ k <= 4 => announced = 0
    /\ Empty((n + 1)..(n + 3))
    /\ void \/ (Safe(Hand(i)) /\ OlderClean(n))

Putting(n, i, old, k) ==
    /\ In(put_file(n, i, old), k)
    /\ k <= 2 => Unused(i) /\ dir[n] = None
    /\ k >= 3 => Kinds(i, {"file"})
    /\ k \in 3..5 => Is(n, i) /\ (k >= 4 => dir[n].done)
    /\ k <= 5 => Since(old, {"file"})
    /\ k >= 6 => CaughtOr(n, old) /\ (dir[Path] # None => dir[Path].kind = "file")
    /\ k >= 7 => dir[n].id = old
    /\ k <= 4 => announced = 0
    /\ Empty((n + 1)..(n + 3))
    /\ \/ void
       \/ /\ Safe(Hand(i)) /\ OlderClean(n)
          /\ k <= 6 => OwnClean(i)
          /\ k = 6 => Is(n, old) \/ Is(Path, i)
          /\ k >= 7 => Clean(n)

Aside(n, i, old, k) ==
    /\ In(set_aside(n, i, old), k)
    /\ Unused(i)
    /\ k <= 3 => dir[n] = None /\ Since(old, AllKinds)
    /\ k >= 4 => CaughtOr(n, old)
    /\ k = 4 => Taken
    /\ k >= 5 => dir[n].id = old
    /\ k <= 2 => announced = 0
    /\ Empty((n + 1)..(n + 3))
    /\ \/ void
       \/ /\ Safe(Hand(i)) /\ OlderClean(n)
          /\ k <= 4 => OwnClean(i)
          /\ k >= 5 => Clean(n)

Reclaiming(n, i, old, k) ==
    /\ In(reclaim(n, n + 1, i, old), k)
    /\ k <= 2 => Unused(i) /\ dir[n] = None
    /\ k >= 3 => Kinds(i, {"tree"})
    /\ Unused(i + 1)
    /\ k \in 3..6 => Is(n, i) /\ dir[n].done
    /\ k >= 7 => dir[n] = None
    /\ k <= 4 => dir[n + 1] = None /\ Since(old, AllKinds)
    /\ k >= 5 => CaughtOr(n + 1, old)
    /\ k = 5 => Taken
    /\ k >= 6 => dir[n + 1].id = old
    /\ k <= 3 => announced = 0
    /\ Empty((n + 2)..(n + 3))
    /\ \/ void
       \/ /\ Safe(Hand(i)) /\ OlderClean(n)
          /\ k <= 5 => OwnClean(i)
          /\ k >= 6 => Clean(n + 1)

(* Both the ways by copy: j is the step of by_copy.                        *)
ByCopy(n, i, staged, to, x, old, j) ==
    /\ j <= 1 => Unused(x) /\ dir[staged] = None /\ dir[to] = None
    /\ j >= 2 => Kinds(x, {"tree"})
    /\ j \in 2..3 => Is(staged, x) /\ dir[staged].done /\ dir[to] = None
    /\ j >= 4 => dir[staged] = None
    /\ j \in 4..9 => Is(to, x) /\ dir[to].done
    /\ j <= 6 => Since(old, {"lower"})
    /\ j \in 2..3 => (Is(Path, old) => dir[staged].data = dir[Path].data)
    /\ j \in 4..6 => (Is(Path, old) => dir[to].data = dir[Path].data)
    /\ j = 7 => (dir[Path] # None => dir[Path].id < 0 \/ Data(Path) = {})
    /\ j >= 6 => x \notin Expects
    /\ \/ void
       \/ /\ Safe(IF j <= 5 THEN Hand(i) ELSE {}) /\ OlderClean(n)
          /\ j <= 1 => OwnClean(i)
          /\ j \in 2..3 => (Is(Path, old) => Clean(staged))
          /\ j \in 4..6 => (Is(Path, old) => Clean(to))
          /\ j >= 7 => Clean(to)

AsideByCopy(n, i, old, k) ==
    /\ In(set_aside_by_copy(n + 1, n + 2, i, old), k)
    /\ dir[n] = None /\ dir[n + 3] = None
    /\ k = 10 => Is(n + 2, i) /\ dir[n + 2].done
    /\ ByCopy(n, i, n + 1, n + 2, i, old, k)

ReclaimByCopy(n, i, old, k) ==
    /\ In(reclaim_by_copy(n, n + 2, n + 3, i + 1, old), k)
    /\ k = 1 => Is(n, i) /\ dir[n].kind = "tree"
    /\ k >= 2 => dir[n] = None
    /\ dir[n + 1] = None
    /\ k >= 11 => dir[n + 3] = None
    /\ ByCopy(n, i, n + 2, n + 3, i + 1, old, k - 1)

Looking(n, i, old, k) ==
    /\ In(<<pin(old), set_mode(1, 2)>>, k) /\ announced = 0
    /\ Empty(n..(n + 3))
    /\ void \/ (Safe(Hand(i)) /\ OlderClean(n))

Changing(n, i, x, k) ==
    /\ In(change(x, 1, 2), k) /\ (k = 1 => announced = 0)
    /\ Empty(n..(n + 3))
    /\ void \/ (Safe(Hand(i)) /\ OlderClean(n))

Spared == dir[Path] # None /\ dir[Path].owner = "mix" => Clean(Path)

Discarding(n, i, old, k) ==
    /\ In(discard(old), k)
    /\ k <= 2 => announced = 0
    /\ k = 4 => Path \in pending
    /\ Empty(n..(n + 3))
    /\ void \/ (Safe(Hand(i)) /\ OlderClean(n) /\ Spared)

(* What an action does when a call of it has failed.                       *)
Unlinking(n, i, m) ==
    /\ calls = <<Unlink(m)>>
    /\ void \/ (dir[m] # None => dir[m].id \in Hand(i))
Clearing(n, i, m) ==
    /\ calls = <<Clear(m)>>
    /\ dir[m] # None => dir[m].id \in Hand(i) /\ dir[m].kind = "tree"
ExchangingBack(n, i) ==
    /\ calls = <<Call("exchange", n, Path, <<>>), Unlink(n)>>
    /\ dir[n] # None /\ dir[n].done
    /\ void \/ (dir[n].id < 0 /\ Is(Path, i))
LinkingBack(n, i) == calls = <<Link(n, Path, <<>>)>> /\ Done(n)
LinkingAsideBack(n, i) ==
    /\ calls = <<Link(n + 1, Path, <<>>), Clear(n)>>
    /\ Done(n + 1)
    /\ dir[n] # None => dir[n].id \in Hand(i) /\ dir[n].kind = "tree"

Acting(n, i) ==
    /\ ~failing
    /\ \/ /\ Path \notin pending
          /\ \/ \E kind \in {"file", "dir", "tree"}, k \in 1..7 : Creating(n, i, kind, k)
             \/ \E old \in 1..(i - 1) :
                   \/ \E k \in 1..9 : Putting(n, i, old, k)
                   \/ \E k \in 1..7 : Aside(n, i, old, k)
                   \/ \E k \in 1..10 : AsideByCopy(n, i, old, k)
                   \/ \E k \in 1..9 : Reclaiming(n, i, old, k)
                   \/ \E k \in 1..13 : ReclaimByCopy(n, i, old, k)
             \/ \E old \in Int, k \in 1..2 : Looking(n, i, old, k)
             \/ \E x \in Int, k \in 1..3 : Changing(n, i, x, k)
       \/ \E old \in Int, k \in 1..4 : Discarding(n, i, old, k)

Failing(n, i) ==
    /\ failing /\ Path \notin pending /\ (void \/ Safe(Hand(i)))
    /\ \/ \E m \in n..(n + 3) : Unlinking(n, i, m) \/ Clearing(n, i, m)
       \/ ExchangingBack(n, i) \/ LinkingBack(n, i) \/ LinkingAsideBack(n, i)

(* The undos.                                                              *)
Removing(k) ==
    /\ undo.op = "remove" /\ In(remove_created(Path, names, undo.expect), k)
    /\ k = 1 => dir[names] = None
    /\ Done(names)
    /\ k = 3 => Is(names, undo.expect)

RemovingTree(k) ==
    /\ undo.op = "removetree" /\ In(remove_created_tree(undo.at, names, undo.expect), k)
    /\ k = 1 => dir[names] = None
    /\ Done(names)
    /\ k = 3 => Is(names, undo.expect)

Restoring(k) ==
    /\ undo.op = "restore" /\ undo.expect = None
    /\ In(restore(undo.from, None), k)

RestoringOver(k) ==
    /\ undo.op = "restore" /\ undo.expect # None
    /\ In(restore(undo.from, undo.expect), k)
    /\ k = 3 => Is(undo.from, undo.expect)

ChangingBack ==
    /\ undo.op = "mode"
    /\ \/ In(<<set_mode(undo.expect, undo.from)>>, 1)
       \/ \E x \in Int, k \in 1..3 : In(change(x, undo.expect, undo.from), k)

Keeping == undo.op = "keep" /\ \E k \in 1..2 : In(<<unpend(Path), End>>, k)

PuttingBack ==
    \/ /\ undo.op \in {"remove", "removetree"}
       /\ calls = <<Link(names, undo.at, <<>>)>> /\ Done(names)
    \/ undo.op = "restore" /\ calls = <<Call("exchange", undo.from, Path, <<>>)>>

Undoes ==
    /\ undos # <<>>
    /\ \/ /\ ~failing
          /\ \/ \E k \in 1..5 : Removing(k) \/ RemovingTree(k)
             \/ \E k \in 1..4 : Restoring(k)
             \/ \E k \in 1..6 : RestoringOver(k)
             \/ ChangingBack \/ Keeping
       \/ failing /\ PuttingBack

-----------------------------------------------------------------------------
UndoSet == [op : {"remove", "removetree", "restore", "mode", "keep"}, at : Int,
            from : Int \cup {None}, expect : Int \cup {None}, sure : BOOLEAN]

UndoOK(u) ==
    /\ u.op = "restore" => u.from \in 1..names /\ Done(u.from)
    /\ u.op # "removetree" => u.at = Path
    /\ u.op = "removetree" => u.at \in 0..names /\ Done(u.at)
    /\ u.op \in {"remove", "removetree"} => u.expect # None
    /\ u.op \in IdOps /\ u.expect # None => u.expect \in 1..ids
    /\ u.op \in {"removetree", "restore"} /\ u.expect # None => Kinds(u.expect, {"file", "tree"})
    /\ u.op = "mode" => u.from \in Nat /\ u.expect \in Nat

Recorded ==
    /\ undos \in Seq(UndoSet) /\ announced \in 0..Len(undos)
    /\ \A k \in DOMAIN undos : UndoOK(undos[k])

(* The undos of earlier actions know nothing of the action in hand.        *)
Earlier(u, n, i) ==
    /\ u.op \in IdOps /\ u.expect # None => u.expect < i
    /\ u.op = "restore" => u.from < n
    /\ u.op = "removetree" => u.at < n

InHand == phase = "acting" /\ (calls # <<>> \/ failing)
Older ==
    /\ names = 4 * acts /\ ids = 1 + 2 * acts /\ acts \in 0..MaxActs
    /\ IF InHand
       THEN /\ acts > 0 /\ announced <= 2 /\ Len(undos) - announced <= 2 * (acts - 1)
            /\ \A k \in (announced + 1)..Len(undos) : Earlier(undos[k], base, new)
       ELSE Len(undos) <= 2 * acts /\ announced = 0
(* Names are left for the undos that remain, and one for each crash.       *)
Left ==
    /\ announced = 0 /\ (undos # <<>> => names > 0)
    /\ names + Len(undos) + (MaxCrashes - crashes)
         <= 6 * MaxActs + MaxCrashes + (IF calls # <<>> \/ failing THEN 1 ELSE 0)

Numbers ==
    /\ names \in Names /\ ids \in Nat /\ moves \in Nat
    /\ acts \in Nat /\ crashes \in 0..MaxCrashes /\ void \in BOOLEAN /\ failing \in BOOLEAN
    /\ committed \in BOOLEAN
    /\ phase \in {"acting", "undoing", "committing", "down", "over"}
    /\ phase = "acting" => Older
    /\ phase \in {"undoing", "committing", "down"} => Left
    /\ phase \notin {"acting", "undoing"} => calls = <<>>
    /\ phase \in {"committing", "down"} => ~failing
    /\ phase \in {"acting", "undoing"} => ~committed
    /\ phase = "committing" => committed

NodeOK(p) ==
    /\ p.id \in (-moves)..(-1) \cup 1..ids
    /\ p.id < 0 => p.kind = "file" /\ p.data = p.id
    /\ p.inside # None => p.kind \in {"dir", "tree"}
    /\ p.data # None => p.data \in (-moves)..ids
    /\ p.inside # None => p.inside \in (-moves)..(-1)

Shape == dir \in [Names -> Nodes \cup {None}]
Directory ==
    /\ Shape
    /\ \A m \in Names : m > names => dir[m] = None
    /\ \A m \in Names : dir[m] # None => NodeOK(dir[m])
    /\ Done(Path)
    /\ living \subseteq (-moves)..0

Settled == phase = "committing" \/ (phase = "down" /\ committed) \/ (phase = "acting" /\ ~failing)

Calls ==
    /\ phase = "acting" /\ calls # <<>> => Acting(base, new) \/ Failing(base, new)
    /\ phase = "undoing" /\ calls # <<>> => Undoes
    /\ (phase = "acting" /\ calls # <<>>) \/ void \/ Safe({})
    /\ calls = <<>> /\ Settled => void \/ ~Caught
    /\ phase \in {"acting", "committing"} /\ Path \in pending => void \/ Spared

FilesInv == Numbers /\ Recorded /\ Directory /\ Calls
-----------------------------------------------------------------------------
(* 1. Lists of calls.                                                      *)

IsList(s) == \E S : s \in Seq(S)

(* The call at hand is the k-th of the list, and the rest begins with the  *)
(* next.                                                                   *)
LEMMA Stepping ==
  ASSUME NEW s, IsList(s), NEW k, In(s, k)
  PROVE  /\ calls # <<>> /\ call = s[k]
         /\ k < Len(s) => k + 1 \in 1..Len(s) /\ Tail(calls) = From(s, k + 1)
         /\ k = Len(s) => Tail(calls) = <<>>
<1>1. PICK S : s \in Seq(S)
  BY DEF IsList
<1>2. k \in 1..Len(s) /\ Len(s) \in Nat /\ calls = SubSeq(s, k, Len(s))
  BY <1>1 DEF In, From
<1>3. /\ calls \in Seq(S) /\ Len(calls) = Len(s) - k + 1
      /\ \A j \in 1..(Len(s) - k + 1) : calls[j] = s[k + j - 1]
  BY <1>1, <1>2, SubSeqProperties
<1>4. calls # <<>> /\ call = s[k]
  <2>1. call = calls[1]
    BY <1>2, <1>3, HeadTailProperties DEF call
  <2>2. calls[1] = s[k]
    BY <1>2, <1>3
  <2>3. Len(calls) > 0 /\ Len(<<>>) = 0
    BY <1>2, <1>3
  <2> QED BY <2>1, <2>2, <2>3
<1>5. /\ Tail(calls) \in Seq(S) /\ Len(Tail(calls)) = Len(s) - k
      /\ \A j \in 1..(Len(s) - k) : Tail(calls)[j] = s[k + j]
  <2>1. Tail(calls) \in Seq(S) /\ Len(Tail(calls)) = Len(calls) - 1
    BY <1>3, <1>4, HeadTailProperties
  <2>2. \A j \in 1..(Len(s) - k) : Tail(calls)[j] = calls[j + 1]
    BY <1>2, <1>3, <1>4, <2>1, HeadTailProperties
  <2>3. \A j \in 1..(Len(s) - k) : calls[j + 1] = s[k + j]
    BY <1>2, <1>3
  <2> QED BY <1>2, <1>3, <2>1, <2>2, <2>3
<1>6. k < Len(s) => Tail(calls) = From(s, k + 1)
  <2> SUFFICES ASSUME k < Len(s) PROVE Tail(calls) = SubSeq(s, k + 1, Len(s))
    BY DEF From
  <2>1. /\ SubSeq(s, k + 1, Len(s)) \in Seq(S) /\ Len(SubSeq(s, k + 1, Len(s))) = Len(s) - k
        /\ \A j \in 1..(Len(s) - k) : SubSeq(s, k + 1, Len(s))[j] = s[k + j]
    BY <1>1, <1>2, SubSeqProperties
  <2> QED BY <1>5, <2>1, SeqEqual
<1>7. k = Len(s) => Tail(calls) = <<>>
  BY <1>2, <1>5
<1> QED BY <1>2, <1>4, <1>6, <1>7

(* A whole list is the list from its first call on.                        *)
LEMMA Starting == ASSUME NEW s, IsList(s), Len(s) > 0 PROVE From(s, 1) = s /\ 1 \in 1..Len(s)
<1>1. PICK S : s \in Seq(S)
  BY DEF IsList
<1>2. /\ SubSeq(s, 1, Len(s)) \in Seq(S) /\ Len(SubSeq(s, 1, Len(s))) = Len(s)
      /\ \A j \in 1..Len(s) : SubSeq(s, 1, Len(s))[j] = s[j]
  BY <1>1, SubSeqProperties
<1> QED BY <1>1, <1>2, SeqEqual DEF From

(* What is ahead of the call at hand.                                      *)
LEMMA AheadIs ==
  ASSUME NEW s, IsList(s), NEW k, In(s, k), NEW j \in k..Len(s)
  PROVE  \E l \in DOMAIN calls : calls[l] = s[j]
<1>1. PICK S : s \in Seq(S)
  BY DEF IsList
<1>2. k \in 1..Len(s) /\ Len(s) \in Nat /\ calls = SubSeq(s, k, Len(s))
  BY <1>1 DEF In, From
<1>3. /\ calls \in Seq(S) /\ Len(calls) = Len(s) - k + 1
      /\ \A l \in 1..(Len(s) - k + 1) : calls[l] = s[k + l - 1]
  BY <1>1, <1>2, SubSeqProperties
<1>4. (j - k + 1) \in 1..(Len(s) - k + 1) /\ k + (j - k + 1) - 1 = j
  BY <1>2
<1>5. DOMAIN calls = 1..(Len(s) - k + 1)
  BY <1>2, <1>3
<1> QED BY <1>3, <1>4, <1>5

-----------------------------------------------------------------------------
(* The lists, call by call.                                                *)

(* Lists of one call, of two, and so on: how long they are and what is in  *)
(* them.                                                                   *)
LEMMA List1 ==
  ASSUME NEW a1
  PROVE  LET s == <<a1>> IN IsList(s) /\ Len(s) = 1 /\ s[1] = a1
<1>1. <<a1>> \in Seq({a1})
  OBVIOUS
<1> QED BY <1>1 DEF IsList

LEMMA List2 ==
  ASSUME NEW a1, NEW a2
  PROVE  LET s == <<a1, a2>> IN IsList(s) /\ Len(s) = 2 /\ s[1] = a1 /\ s[2] = a2
<1>1. <<a1, a2>> \in Seq({a1, a2})
  OBVIOUS
<1> QED BY <1>1 DEF IsList

LEMMA List3 ==
  ASSUME NEW a1, NEW a2, NEW a3
  PROVE  LET s == <<a1, a2, a3>> IN IsList(s) /\ Len(s) = 3 /\ s[1] = a1 /\ s[2] = a2 /\ s[3] = a3
<1>1. <<a1, a2, a3>> \in Seq({a1, a2, a3})
  OBVIOUS
<1> QED BY <1>1 DEF IsList

LEMMA List4 ==
  ASSUME NEW a1, NEW a2, NEW a3, NEW a4
  PROVE  LET s == <<a1, a2, a3, a4>> IN
         /\ IsList(s) /\ Len(s) = 4 /\ s[1] = a1 /\ s[2] = a2 /\ s[3] = a3 /\ s[4] = a4
<1>1. <<a1, a2, a3, a4>> \in Seq({a1, a2, a3, a4})
  OBVIOUS
<1> QED BY <1>1 DEF IsList

LEMMA List5 ==
  ASSUME NEW a1, NEW a2, NEW a3, NEW a4, NEW a5
  PROVE  LET s == <<a1, a2, a3, a4, a5>> IN
         /\ IsList(s) /\ Len(s) = 5 /\ s[1] = a1 /\ s[2] = a2 /\ s[3] = a3 /\ s[4] = a4 /\ s[5] = a5
<1>1. <<a1, a2, a3, a4, a5>> \in Seq({a1, a2, a3, a4, a5})
  OBVIOUS
<1> QED BY <1>1 DEF IsList

LEMMA List6 ==
  ASSUME NEW a1, NEW a2, NEW a3, NEW a4, NEW a5, NEW a6
  PROVE  LET s == <<a1, a2, a3, a4, a5, a6>> IN
         /\ IsList(s) /\ Len(s) = 6 /\ s[1] = a1 /\ s[2] = a2 /\ s[3] = a3 /\ s[4] = a4 /\ s[5] = a5
         /\ s[6] = a6
<1>1. <<a1, a2, a3, a4, a5, a6>> \in Seq({a1, a2, a3, a4, a5, a6})
  OBVIOUS
<1> QED BY <1>1 DEF IsList

LEMMA List7 ==
  ASSUME NEW a1, NEW a2, NEW a3, NEW a4, NEW a5, NEW a6, NEW a7
  PROVE  LET s == <<a1, a2, a3, a4, a5, a6, a7>> IN
         /\ IsList(s) /\ Len(s) = 7 /\ s[1] = a1 /\ s[2] = a2 /\ s[3] = a3 /\ s[4] = a4 /\ s[5] = a5
         /\ s[6] = a6 /\ s[7] = a7
<1>1. <<a1, a2, a3, a4, a5, a6, a7>> \in Seq({a1, a2, a3, a4, a5, a6, a7})
  OBVIOUS
<1> QED BY <1>1 DEF IsList

LEMMA List8 ==
  ASSUME NEW a1, NEW a2, NEW a3, NEW a4, NEW a5, NEW a6, NEW a7, NEW a8
  PROVE  LET s == <<a1, a2, a3, a4, a5, a6, a7, a8>> IN
         /\ IsList(s) /\ Len(s) = 8 /\ s[1] = a1 /\ s[2] = a2 /\ s[3] = a3 /\ s[4] = a4 /\ s[5] = a5
         /\ s[6] = a6 /\ s[7] = a7 /\ s[8] = a8
<1>1. <<a1, a2, a3, a4, a5, a6, a7, a8>> \in Seq({a1, a2, a3, a4, a5, a6, a7, a8})
  OBVIOUS
<1> QED BY <1>1 DEF IsList

LEMMA List9 ==
  ASSUME NEW a1, NEW a2, NEW a3, NEW a4, NEW a5, NEW a6, NEW a7, NEW a8, NEW a9
  PROVE  LET s == <<a1, a2, a3, a4, a5, a6, a7, a8, a9>> IN
         /\ IsList(s) /\ Len(s) = 9 /\ s[1] = a1 /\ s[2] = a2 /\ s[3] = a3 /\ s[4] = a4 /\ s[5] = a5
         /\ s[6] = a6 /\ s[7] = a7 /\ s[8] = a8 /\ s[9] = a9
<1>1. <<a1, a2, a3, a4, a5, a6, a7, a8, a9>> \in Seq({a1, a2, a3, a4, a5, a6, a7, a8, a9})
  OBVIOUS
<1> QED BY <1>1 DEF IsList

(* Lists in a row.                                                         *)
Joined(s, b, t) == s = b \o t

(* The eight calls of by_copy and the two of set_aside_by_copy after them. *)
LEMMA Joined82 ==
  ASSUME NEW s, NEW b, NEW t, Joined(s, b, t), IsList(b), Len(b) = 8, IsList(t), Len(t) = 2
  PROVE  /\ IsList(s) /\ Len(s) = 10
         /\ s[1] = b[1] /\ s[2] = b[2] /\ s[3] = b[3] /\ s[4] = b[4] /\ s[5] = b[5] /\ s[6] = b[6]
         /\ s[7] = b[7] /\ s[8] = b[8] /\ s[9] = t[1] /\ s[10] = t[2]
<1>1. PICK S : b \in Seq(S)
  BY DEF IsList
<1>2. PICK T : t \in Seq(T)
  BY DEF IsList
<1>3. PICK U : U = S \cup T
  OBVIOUS
<1>4. b \in Seq(U) /\ t \in Seq(U)
  BY <1>1, <1>2, <1>3
<1>5. s = b \o t
  BY DEF Joined
<1>6. /\ s \in Seq(U) /\ Len(s) = 10
      /\ \A j \in 1..10 : s[j] = IF j <= 8 THEN b[j] ELSE t[j - 8]
  <2>1. /\ b \o t \in Seq(U) /\ Len(b \o t) = Len(b) + Len(t)
        /\ \A j \in 1..(Len(b) + Len(t)) : (b \o t)[j] = IF j <= Len(b) THEN b[j] ELSE t[j - Len(b)]
    BY <1>4, ConcatProperties
  <2>2. /\ s \in Seq(U) /\ Len(s) = Len(b) + Len(t)
        /\ \A j \in 1..(Len(b) + Len(t)) : s[j] = IF j <= Len(b) THEN b[j] ELSE t[j - Len(b)]
    BY <1>5, <2>1
  <2> QED BY <2>2
<1>7. s[9] = t[9 - 8] /\ s[10] = t[10 - 8] /\ \A j \in 1..8 : s[j] = b[j]
  BY <1>6
<1>8. IsList(s)
  BY <1>6 DEF IsList
<1> QED BY <1>6, <1>7, <1>8

(* One call, the eight of by_copy and the four of reclaim_by_copy after    *)
(* them.                                                                   *)
LEMMA Joined184 ==
  ASSUME NEW s, NEW d, NEW c, NEW b, NEW t, Joined(d, c, b), Joined(s, d, t),
         IsList(c), Len(c) = 1, IsList(b), Len(b) = 8, IsList(t), Len(t) = 4
  PROVE  /\ IsList(s) /\ Len(s) = 13
         /\ s[1] = c[1] /\ s[2] = b[1] /\ s[3] = b[2] /\ s[4] = b[3] /\ s[5] = b[4]
         /\ s[6] = b[5] /\ s[7] = b[6] /\ s[8] = b[7] /\ s[9] = b[8]
         /\ s[10] = t[1] /\ s[11] = t[2] /\ s[12] = t[3] /\ s[13] = t[4]
<1>1. PICK R : c \in Seq(R)
  BY DEF IsList
<1>2. PICK S : b \in Seq(S)
  BY DEF IsList
<1>3. PICK T : t \in Seq(T)
  BY DEF IsList
<1>4. PICK U : U = R \cup S \cup T
  OBVIOUS
<1>5. c \in Seq(U) /\ b \in Seq(U) /\ t \in Seq(U)
  BY <1>1, <1>2, <1>3, <1>4
<1>6. d = c \o b
  BY DEF Joined
<1>7. /\ d \in Seq(U) /\ Len(d) = 9
      /\ \A j \in 1..9 : d[j] = IF j <= 1 THEN c[j] ELSE b[j - 1]
  <2>1. /\ c \o b \in Seq(U) /\ Len(c \o b) = Len(c) + Len(b)
        /\ \A j \in 1..(Len(c) + Len(b)) : (c \o b)[j] = IF j <= Len(c) THEN c[j] ELSE b[j - Len(c)]
    BY <1>5, ConcatProperties
  <2>2. /\ d \in Seq(U) /\ Len(d) = Len(c) + Len(b)
        /\ \A j \in 1..(Len(c) + Len(b)) : d[j] = IF j <= Len(c) THEN c[j] ELSE b[j - Len(c)]
    BY <1>6, <2>1
  <2> QED BY <2>2
<1>8. /\ d[1] = c[1] /\ d[2] = b[2 - 1] /\ d[3] = b[3 - 1] /\ d[4] = b[4 - 1] /\ d[5] = b[5 - 1]
      /\ d[6] = b[6 - 1] /\ d[7] = b[7 - 1] /\ d[8] = b[8 - 1] /\ d[9] = b[9 - 1]
  BY <1>7
<1>9. s = d \o t
  BY DEF Joined
<1>10. /\ s \in Seq(U) /\ Len(s) = 13
       /\ \A j \in 1..13 : s[j] = IF j <= 9 THEN d[j] ELSE t[j - 9]
  <2>1. /\ d \o t \in Seq(U) /\ Len(d \o t) = Len(d) + Len(t)
        /\ \A j \in 1..(Len(d) + Len(t)) : (d \o t)[j] = IF j <= Len(d) THEN d[j] ELSE t[j - Len(d)]
    BY <1>5, <1>7, ConcatProperties
  <2>2. /\ s \in Seq(U) /\ Len(s) = Len(d) + Len(t)
        /\ \A j \in 1..(Len(d) + Len(t)) : s[j] = IF j <= Len(d) THEN d[j] ELSE t[j - Len(d)]
    BY <1>9, <2>1
  <2> QED BY <1>7, <2>2
<1>11. /\ s[1] = d[1] /\ s[2] = d[2] /\ s[3] = d[3] /\ s[4] = d[4] /\ s[5] = d[5] /\ s[6] = d[6]
       /\ s[7] = d[7] /\ s[8] = d[8] /\ s[9] = d[9]
       /\ s[10] = t[10 - 9] /\ s[11] = t[11 - 9] /\ s[12] = t[12 - 9] /\ s[13] = t[13 - 9]
  BY <1>10
<1>12. IsList(s)
  BY <1>10 DEF IsList
<1>13. /\ IsList(s) /\ Len(s) = 13
       /\ s[1] = c[1] /\ s[2] = b[1] /\ s[3] = b[2] /\ s[4] = b[3] /\ s[5] = b[4]
       /\ s[6] = b[5] /\ s[7] = b[6] /\ s[8] = b[7] /\ s[9] = b[8]
       /\ s[10] = t[1] /\ s[11] = t[2] /\ s[12] = t[3] /\ s[13] = t[4]
  BY <1>8, <1>10, <1>11, <1>12
<1> QED BY <1>13

-----------------------------------------------------------------------------
(* 2. The directory.                                                       *)

Like(p, q) == p.id = q.id /\ p.kind = q.kind /\ p.data = q.data /\ p.inside = q.inside

(* Every node there is now but those of F was there before; every node     *)
(* there was but those of L is there still.                                *)
Back(F) == \A m \in Names \ F : dir'[m] # None =>
              \E l \in Names : dir[l] # None /\ Like(dir'[m], dir[l])
Forth(L) == \A m \in Names \ L : dir[m] # None =>
              \E l \in Names : dir'[l] # None /\ Like(dir'[l], dir[m])
DoneKept == \A m \in Names : Done(m) => Done(m)'

(* A node is never None, so a name that has one is taken.                  *)
LEMMA NodesAreNot == None \notin Nodes
  BY FilesAssumption

(* What becomes of a node that is finished, changed, copied, emptied,      *)
(* filled or made anew.                                                    *)
LEMMA Finished ==
  ASSUME NEW p \in Nodes
  PROVE  LET q == [p EXCEPT !.done = TRUE] IN q \in Nodes /\ Like(q, p) /\ q.done /\ q.owner = p.owner
  BY DEF Nodes, Like

LEMMA Changed ==
  ASSUME NEW p \in Nodes, NEW mode \in Nat
  PROVE  LET q == [p EXCEPT !.mode = mode] IN
         q \in Nodes /\ Like(q, p) /\ q.done = p.done /\ q.owner = p.owner
  BY DEF Nodes, Like

LEMMA Copied ==
  ASSUME NEW p \in Nodes, NEW x \in Int
  PROVE  LET q == [p EXCEPT !.id = x, !.kind = "tree"] IN
         /\ q \in Nodes /\ q.id = x /\ q.kind = "tree" /\ q.data = p.data /\ q.inside = p.inside
         /\ q.done = p.done
  BY DEF Nodes

LEMMA EmptiedNode ==
  ASSUME NEW p \in Nodes
  PROVE  LET q == [p EXCEPT !.data = None] IN
         /\ q \in Nodes /\ q.id = p.id /\ q.kind = p.kind /\ q.data = None /\ q.inside = p.inside
         /\ q.done = p.done
  BY DEF Nodes

LEMMA Filled ==
  ASSUME NEW p \in Nodes, NEW d \in Int
  PROVE  LET q == [p EXCEPT !.inside = d] IN
         /\ q \in Nodes /\ q.id = p.id /\ q.kind = p.kind /\ q.data = p.data /\ q.inside = d
         /\ q.done = p.done /\ q.owner = p.owner
  BY DEF Nodes

LEMMA NewNode ==
  ASSUME NEW i \in Int, NEW d \in Int, NEW kind \in {"file", "dir", "tree", "lower"},
         NEW owner \in {"mix", "other"}
  PROVE  LET p == Node(i, d, kind, owner) IN
         /\ p \in Nodes /\ p.id = i /\ p.data = d /\ p.kind = kind /\ p.owner = owner
         /\ p.inside = None /\ p.done
  BY DEF Nodes, Node

LEMMA UnfinishedNode ==
  ASSUME NEW i \in Int, NEW kind \in {"file", "dir", "tree"}
  PROVE  LET p == [Node(i, i, kind, "mix") EXCEPT !.done = FALSE] IN
         p \in Nodes /\ p.id = i /\ p.data = i /\ p.kind = kind /\ p.inside = None
  BY DEF Nodes, Node

(* The directory is left as it is.                                         *)
LEMMA SameDir ==
  ASSUME Shape, dir' = dir
  PROVE  Shape' /\ Back({}) /\ Forth({}) /\ DoneKept
  BY DEF Shape, Back, Forth, DoneKept, Like, Done

(* One name gets another node, or none.                                    *)
LEMMA PutDir ==
  ASSUME Shape, NEW a \in Names, NEW p \in Nodes \cup {None}, dir' = [dir EXCEPT ![a] = p]
  PROVE  /\ Shape' /\ Back({a}) /\ Forth({a})
         /\ dir'[a] = p /\ \A m \in Names : m # a => dir'[m] = dir[m]
         /\ p = None => Back({})
         /\ dir[a] = None => Forth({})
         /\ (p # None => p.done) => DoneKept
<1>1. dir'[a] = p /\ \A m \in Names : m # a => dir'[m] = dir[m]
  BY DEF Shape
<1>2. Shape'
  BY DEF Shape
<1>3. Back({a}) /\ (p = None => Back({}))
  BY <1>1 DEF Back, Like
<1>4. Forth({a}) /\ (dir[a] = None => Forth({}))
  BY <1>1 DEF Forth, Like
<1>5. (p # None => p.done) => DoneKept
  BY <1>1 DEF DoneKept, Done
<1> QED BY <1>1, <1>2, <1>3, <1>4, <1>5

(* A node is replaced by one that differs in its mode or in being done.    *)
LEMMA UpdateDir ==
  ASSUME Shape, NEW a \in Names, dir[a] # None, NEW p \in Nodes, Like(p, dir[a]),
         dir' = [dir EXCEPT ![a] = p]
  PROVE  /\ Shape' /\ Back({}) /\ Forth({})
         /\ dir'[a] = p /\ \A m \in Names : m # a => dir'[m] = dir[m]
         /\ p.done => DoneKept
<1>1. /\ Shape' /\ dir'[a] = p /\ \A m \in Names : m # a => dir'[m] = dir[m]
      /\ p.done => DoneKept
  BY PutDir
<1>2. p # None
  BY NodesAreNot
<1>3. Back({})
  BY <1>1 DEF Back, Like
<1>4. Forth({})
  BY <1>1, <1>2 DEF Forth, Like
<1> QED BY <1>1, <1>3, <1>4

(* A rename to a name that is free: no node is lost and none is new.       *)
LEMMA MoveDir ==
  ASSUME Shape, NEW a \in Names, NEW b \in Names, a # b, dir[b] = None,
         dir' = [dir EXCEPT ![b] = dir[a], ![a] = None]
  PROVE  /\ Shape' /\ Back({}) /\ Forth({})
         /\ dir'[b] = dir[a] /\ dir'[a] = None
         /\ \A m \in Names : m # a /\ m # b => dir'[m] = dir[m]
         /\ Done(a) => DoneKept
<1>1. /\ Shape' /\ dir'[b] = dir[a] /\ dir'[a] = None
      /\ \A m \in Names : m # a /\ m # b => dir'[m] = dir[m]
  BY DEF Shape
<1>2. Back({})
  BY <1>1 DEF Back, Like
<1>3. Forth({})
  BY <1>1 DEF Forth, Like
<1>4. Done(a) => DoneKept
  BY <1>1 DEF DoneKept, Done
<1> QED BY <1>1, <1>2, <1>3, <1>4

(* An exchange: no node is lost and none is new.                           *)
LEMMA SwapDir ==
  ASSUME Shape, NEW a \in Names, NEW b \in Names, a # b,
         dir' = [dir EXCEPT ![b] = dir[a], ![a] = dir[b]]
  PROVE  /\ Shape' /\ Back({}) /\ Forth({})
         /\ dir'[b] = dir[a] /\ dir'[a] = dir[b]
         /\ \A m \in Names : m # a /\ m # b => dir'[m] = dir[m]
         /\ Done(a) /\ Done(b) => DoneKept
<1>1. /\ Shape' /\ dir'[b] = dir[a] /\ dir'[a] = dir[b]
      /\ \A m \in Names : m # a /\ m # b => dir'[m] = dir[m]
  BY DEF Shape
<1>2. Back({})
  BY <1>1 DEF Back, Like
<1>3. Forth({})
  BY <1>1 DEF Forth, Like
<1>4. Done(a) /\ Done(b) => DoneKept
  BY <1>1 DEF DoneKept, Done
<1> QED BY <1>1, <1>2, <1>3, <1>4

(* A change of mode, of whatever name the node has now.                    *)
LEMMA ChmodDir ==
  ASSUME Shape, NEW x \in Int, NEW mode \in Nat,
         dir' = [m \in Names |-> IF Id(m) = x THEN [dir[m] EXCEPT !.mode = mode] ELSE dir[m]]
  PROVE  /\ Shape' /\ Back({}) /\ Forth({}) /\ DoneKept
         /\ \A m \in Names : dir'[m] = None <=> dir[m] = None
         /\ \A m \in Names : dir[m] # None =>
               Like(dir'[m], dir[m]) /\ dir'[m].owner = dir[m].owner /\ dir'[m].done = dir[m].done
<1>1. ASSUME NEW m \in Names
      PROVE  /\ dir'[m] \in Nodes \cup {None}
             /\ dir'[m] = None <=> dir[m] = None
             /\ dir[m] # None =>
                  Like(dir'[m], dir[m]) /\ dir'[m].owner = dir[m].owner /\ dir'[m].done = dir[m].done
  <2>1. CASE dir[m] # None /\ dir[m].id = x
    <3>1. dir[m] \in Nodes /\ dir'[m] = [dir[m] EXCEPT !.mode = mode]
      BY <2>1 DEF Shape, Id
    <3> QED BY <3>1, <2>1, Changed, NodesAreNot
  <2>2. CASE ~(dir[m] # None /\ dir[m].id = x)
    <3>1. dir'[m] = dir[m] /\ dir[m] \in Nodes \cup {None}
      BY <2>2, FilesAssumption DEF Shape, Id
    <3> QED BY <3>1 DEF Like
  <2> QED BY <2>1, <2>2
<1>2. Shape'
  BY <1>1 DEF Shape
<1>3. Back({})
  BY <1>1 DEF Back
<1>4. Forth({})
  BY <1>1 DEF Forth
<1>5. DoneKept
  BY <1>1 DEF DoneKept, Done
<1> QED BY <1>1, <1>2, <1>3, <1>4, <1>5

-----------------------------------------------------------------------------
(* 3. What a change of the directory leaves as it is.                      *)

(* An identity stays unused unless a new node gets it.                     *)
LEMMA UnusedKept ==
  ASSUME NEW x, Unused(x), NEW F, Back(F), \A m \in F : dir'[m] # None => dir'[m].id # x
  PROVE  Unused(x)'
  BY DEF Unused, Back, Like

(* The nodes with an identity keep their kinds unless a new node has       *)
(* another.                                                                *)
LEMMA KindsKept ==
  ASSUME NEW x, NEW kinds, Kinds(x, kinds), NEW F, Back(F),
         \A m \in F : dir'[m] # None /\ dir'[m].id = x => dir'[m].kind \in kinds
  PROVE  Kinds(x, kinds)'
  BY DEF Kinds, Back, Like

(* An identity that was unused, and is given to one node.                  *)
LEMMA KindsNew ==
  ASSUME NEW x, NEW kinds, Unused(x), NEW F, Back(F),
         \A m \in F : dir'[m] # None => dir'[m].kind \in kinds
  PROVE  Kinds(x, kinds)'
  BY DEF Kinds, Unused, Back, Like

(* What mix made before holds no data of others unless some is put there.  *)
LEMMA OwnCleanKept ==
  ASSUME NEW i, OwnClean(i), NEW F, Back(F),
         \A m \in F : dir'[m] # None /\ dir'[m].id \in 1..(i - 1) => Clean(m)'
  PROVE  OwnClean(i)'
<1> SUFFICES ASSUME NEW m \in Names, dir'[m] # None, dir'[m].id \in 1..(i - 1)
             PROVE  Clean(m)'
  BY DEF OwnClean
<1>1. CASE m \in F
  BY <1>1
<1>2. CASE m \notin F
  <2>1. PICK l \in Names : dir[l] # None /\ Like(dir'[m], dir[l])
    BY <1>2 DEF Back
  <2>2. Clean(l)
    BY <2>1 DEF OwnClean, Like
  <2> QED BY <2>1, <2>2 DEF Clean, Data, Like
<1> QED BY <1>1, <1>2

(* Data is still safe.  Nothing living is in the nodes that are lost, and  *)
(* what is theirs in a new node is living.                                 *)
LEMMA SafeKept ==
  ASSUME NEW R, NEW T, Safe(R), NEW F, Back(F), NEW L, Forth(L), living' = living,
         Expects' \cup T \subseteq Expects \cup R,
         \A m \in L : m \in Names => \A d \in living : ~Keeps(m, d, R),
         \A m \in F : \A d \in Data(m)' : Theirs(d) => d \in living
  PROVE  Safe(T)'
<1>1. ASSUME NEW d \in living PROVE \E l \in Names : Keeps(l, d, T)'
  <2>1. PICK m \in Names : Keeps(m, d, R)
    BY DEF Safe
  <2>2. m \notin L /\ dir[m] # None
    BY <2>1 DEF Keeps
  <2>3. PICK l \in Names : dir'[l] # None /\ Like(dir'[l], dir[m])
    BY <2>2 DEF Forth
  <2> QED BY <2>1, <2>3 DEF Keeps, Like
<1>2. ASSUME NEW m \in Names, NEW d \in Data(m)', Theirs(d) PROVE d \in living
  <2>1. CASE m \in F
    BY <2>1, <1>2
  <2>2. CASE m \notin F
    <3>1. dir'[m] # None
      BY DEF Data
    <3>2. PICK l \in Names : dir[l] # None /\ Like(dir'[m], dir[l])
      BY <2>2, <3>1 DEF Back
    <3>3. d \in Data(l)
      BY <3>1, <3>2 DEF Data, Like
    <3> QED BY <1>2, <3>2, <3>3 DEF Safe
  <2> QED BY <2>1, <2>2
<1> QED BY <1>1, <1>2 DEF Safe, Theirs

(* What is safe although more is removed is safe when less is.             *)
LEMMA SafeLess ==
  ASSUME NEW R, NEW T, Safe(R), T \subseteq R
  PROVE  Safe(T)
<1>1. \A m \in Names, d \in living : Keeps(m, d, R) => Keeps(m, d, T)
  BY DEF Keeps
<1> QED BY <1>1 DEF Safe

(* The nodes are of the kind they must be.                                 *)
NodesOK == \A m \in Names : dir[m] # None => NodeOK(dir[m])

(* The nodes stay well formed if the new ones are.                         *)
LEMMA NodesKept ==
  ASSUME NodesOK, NEW F, Back(F), moves \in Nat, moves' \in Nat, moves <= moves',
         ids \in Nat, ids' \in Nat, ids <= ids',
         \A m \in F : dir'[m] # None => NodeOK(dir[m])'
  PROVE  NodesOK'
<1> SUFFICES ASSUME NEW m \in Names, dir'[m] # None
             PROVE  NodeOK(dir[m])'
  BY DEF NodesOK
<1>1. CASE m \in F
  BY <1>1
<1>2. CASE m \notin F
  <2>1. PICK l \in Names : dir[l] # None /\ Like(dir'[m], dir[l])
    BY <1>2 DEF Back
  <2>2. NodeOK(dir[l])
    BY <2>1 DEF NodesOK
  <2> QED BY <2>1, <2>2 DEF NodeOK, Like
<1> QED BY <1>1, <1>2

(* The undos on record still fit.                                          *)
Fits(u, F) == u.op \in {"removetree", "restore"} /\ u.expect # None =>
                 \A m \in F : dir'[m] # None /\ dir'[m].id = u.expect => dir'[m].kind \in {"file", "tree"}
Whole(u) == /\ u.op = "restore" => (Done(u.from) => Done(u.from)')
            /\ u.op = "removetree" => (Done(u.at) => Done(u.at)')

(* An undo on record still fits the directory if the new nodes fit it.     *)
LEMMA UndoKept ==
  ASSUME NEW u, UndoOK(u), NEW F, Back(F), Fits(u, F), Whole(u),
         names \in Nat, names' \in Nat, names <= names', ids \in Nat, ids' \in Nat, ids <= ids'
  PROVE  UndoOK(u)'
<1>1. u.op \in {"removetree", "restore"} /\ u.expect # None => Kinds(u.expect, {"file", "tree"})'
  BY KindsKept DEF UndoOK, Fits
<1>2. /\ u.op = "restore" => u.from \in 1..names' /\ Done(u.from)'
      /\ u.op = "removetree" => u.at \in 0..names' /\ Done(u.at)'
      /\ u.op \in IdOps /\ u.expect # None => u.expect \in 1..ids'
  BY DEF UndoOK, Whole
<1> QED BY <1>1, <1>2 DEF UndoOK

(* What an undo refers to stays finished.                                  *)
LEMMA WholeKept ==
  ASSUME NEW u, UndoOK(u), DoneKept, names \in Names
  PROVE  Whole(u)
  BY FilesAssumption DEF Whole, UndoOK, DoneKept, Names

(* So does the whole record.                                               *)
LEMMA RecordedKept ==
  ASSUME Recorded, undos' = undos, announced' \in 0..Len(undos), NEW F, Back(F),
         \A k \in DOMAIN undos : Fits(undos[k], F) /\ Whole(undos[k]),
         names \in Nat, names' \in Nat, names <= names', ids \in Nat, ids' \in Nat, ids <= ids'
  PROVE  Recorded'
<1>1. ASSUME NEW k \in DOMAIN undos PROVE UndoOK(undos[k])'
  <2>1. PICK u : u = undos[k]
    OBVIOUS
  <2>2. UndoOK(u) /\ Fits(u, F) /\ Whole(u)
    BY <2>1 DEF Recorded
  <2>3. UndoOK(u)'
    BY <2>2, UndoKept
  <2> QED BY <2>1, <2>3 DEF UndoOK
<1> QED BY <1>1 DEF Recorded

-----------------------------------------------------------------------------
(* 4. What becomes of a call.                                              *)

Frame == /\ names' = names /\ ids' = ids /\ phase' = phase /\ acts' = acts /\ crashes' = crashes
         /\ committed' = committed /\ moves' = moves /\ living' = living
         /\ failing' \in BOOLEAN /\ void' \in BOOLEAN
Quiet == undos' = undos /\ announced' = announced /\ pending' = pending
Goes == calls' = Tail(calls) /\ failing' = failing /\ (void' <=> void)
Fails == /\ calls' = IF failing THEN Tail(calls) ELSE call.else
         /\ failing' = TRUE /\ dir' = dir /\ Quiet
(* A call that fails without a reason.                                     *)
Breaks == Fails /\ (void' <=> void \/ Caught)
(* A call does what it is for if ok holds; it fails if not, or just so.    *)
Does(ok, d) ==
    \/ ok /\ Goes /\ dir' = d /\ Quiet
    \/ Breaks
    \/ ~ok /\ Fails /\ (void' <=> void)

(* A call that fails without a reason leaves the directory and the record  *)
(* alone.                                                                  *)
LEMMA OnFault ==
  ASSUME Fault, failing \in BOOLEAN, void \in BOOLEAN
  PROVE  Frame /\ Breaks
  BY DEF Fault, Next_, Frame, Breaks, Fails, Quiet

(* A call that is not such a fault succeeds or fails for its own reason.   *)
LEMMA OnChanges ==
  ASSUME NEW ok \in BOOLEAN, NEW d, Changes(ok, d), failing \in BOOLEAN, void \in BOOLEAN
  PROVE  Frame /\ Does(ok, d)
  BY DEF Changes, Next_, Frame, Does, Goes, Fails, Quiet, kept, history

(* One lemma for each system call: the step it takes is the action of that *)
(* call, or a fault.                                                       *)
LEMMA OnCheck ==
  ASSUME System, At("check"), failing \in BOOLEAN, void \in BOOLEAN
  PROVE  Frame /\ Does(Id(Path) = call.a,
                    dir)
<1>1. Check \/ Fault
  BY DEF System, At, Check, Make, Finish, Copy, Rename, Exchange, Away, Doom, Holds, UnlinkNode,
     RemoveTree, InPlace, RemoveDir, Open, Chmod, SyncDir, Record, Pending
<1>2. CASE Check
  BY <1>2, OnChanges DEF Check
<1>3. CASE Fault
  BY <1>3, OnFault DEF Does
<1> QED BY <1>1, <1>2, <1>3

LEMMA OnMake ==
  ASSUME System, At("make"), failing \in BOOLEAN, void \in BOOLEAN
  PROVE  Frame /\ Does(TRUE,
                    [dir EXCEPT ![call.a] = [call.b EXCEPT !.done = FALSE]])
<1>1. Make \/ Fault
  BY DEF System, At, Check, Make, Finish, Copy, Rename, Exchange, Away, Doom, Holds, UnlinkNode,
     RemoveTree, InPlace, RemoveDir, Open, Chmod, SyncDir, Record, Pending
<1>2. CASE Make
  BY <1>2, OnChanges DEF Make
<1>3. CASE Fault
  BY <1>3, OnFault DEF Does
<1> QED BY <1>1, <1>2, <1>3

LEMMA OnFinish ==
  ASSUME System, At("finish"), failing \in BOOLEAN, void \in BOOLEAN
  PROVE  Frame /\ Does(dir[call.a] # None,
                    [dir EXCEPT ![call.a] = IF @ = None THEN None ELSE [@ EXCEPT !.done = TRUE]])
<1>1. Finish \/ Fault
  BY DEF System, At, Check, Make, Finish, Copy, Rename, Exchange, Away, Doom, Holds, UnlinkNode,
     RemoveTree, InPlace, RemoveDir, Open, Chmod, SyncDir, Record, Pending
<1>2. CASE Finish
  BY <1>2, OnChanges DEF Finish
<1>3. CASE Fault
  BY <1>3, OnFault DEF Does
<1> QED BY <1>1, <1>2, <1>3

LEMMA OnCopy ==
  ASSUME System, At("copy"), failing \in BOOLEAN, void \in BOOLEAN
  PROVE  Frame /\ Does(dir[Path] # None,
                    [dir EXCEPT ![call.a] = IF dir[Path] = None THEN None
                                              ELSE [dir[Path] EXCEPT !.id = call.b, !.kind = "tree"]])
<1>1. Copy \/ Fault
  BY DEF System, At, Check, Make, Finish, Copy, Rename, Exchange, Away, Doom, Holds, UnlinkNode,
     RemoveTree, InPlace, RemoveDir, Open, Chmod, SyncDir, Record, Pending
<1>2. CASE Copy
  BY <1>2, OnChanges DEF Copy
<1>3. CASE Fault
  BY <1>3, OnFault DEF Does
<1> QED BY <1>1, <1>2, <1>3

LEMMA OnRename ==
  ASSUME System, At("link"), failing \in BOOLEAN, void \in BOOLEAN
  PROVE  Frame /\ Does(dir[call.a] # None /\ dir[call.b] = None,
                    [dir EXCEPT ![call.b] = dir[call.a], ![call.a] = None])
<1>1. Rename \/ Fault
  BY DEF System, At, Check, Make, Finish, Copy, Rename, Exchange, Away, Doom, Holds, UnlinkNode,
     RemoveTree, InPlace, RemoveDir, Open, Chmod, SyncDir, Record, Pending
<1>2. CASE Rename
  BY <1>2, OnChanges DEF Rename
<1>3. CASE Fault
  BY <1>3, OnFault DEF Does
<1> QED BY <1>1, <1>2, <1>3

LEMMA OnExchange ==
  ASSUME System, At("exchange"), failing \in BOOLEAN, void \in BOOLEAN
  PROVE  Frame /\ Does(dir[call.a] # None /\ dir[call.b] # None,
                    [dir EXCEPT ![call.b] = dir[call.a], ![call.a] = dir[call.b]])
<1>1. Exchange \/ Fault
  BY DEF System, At, Check, Make, Finish, Copy, Rename, Exchange, Away, Doom, Holds, UnlinkNode,
     RemoveTree, InPlace, RemoveDir, Open, Chmod, SyncDir, Record, Pending
<1>2. CASE Exchange
  BY <1>2, OnChanges DEF Exchange
<1>3. CASE Fault
  BY <1>3, OnFault DEF Does
<1> QED BY <1>1, <1>2, <1>3

LEMMA OnHolds ==
  ASSUME System, At("holds"), failing \in BOOLEAN, void \in BOOLEAN
  PROVE  Frame /\ Does(Id(call.a) = call.b,
                    dir)
<1>1. Holds \/ Fault
  BY DEF System, At, Check, Make, Finish, Copy, Rename, Exchange, Away, Doom, Holds, UnlinkNode,
     RemoveTree, InPlace, RemoveDir, Open, Chmod, SyncDir, Record, Pending
<1>2. CASE Holds
  BY <1>2, OnChanges DEF Holds
<1>3. CASE Fault
  BY <1>3, OnFault DEF Does
<1> QED BY <1>1, <1>2, <1>3

LEMMA OnUnlinkNode ==
  ASSUME System, At("unlink"), failing \in BOOLEAN, void \in BOOLEAN
  PROVE  Frame /\ Does(dir[call.a] # None /\ dir[call.a].inside = None,
                    [dir EXCEPT ![call.a] = None])
<1>1. UnlinkNode \/ Fault
  BY DEF System, At, Check, Make, Finish, Copy, Rename, Exchange, Away, Doom, Holds, UnlinkNode,
     RemoveTree, InPlace, RemoveDir, Open, Chmod, SyncDir, Record, Pending
<1>2. CASE UnlinkNode
  BY <1>2, OnChanges DEF UnlinkNode
<1>3. CASE Fault
  BY <1>3, OnFault DEF Does
<1> QED BY <1>1, <1>2, <1>3

LEMMA OnRemoveTree ==
  ASSUME System, At("rmtree"), failing \in BOOLEAN, void \in BOOLEAN
  PROVE  Frame /\ Does(TRUE,
                    [dir EXCEPT ![call.a] = None])
<1>1. RemoveTree \/ Fault
  BY DEF System, At, Check, Make, Finish, Copy, Rename, Exchange, Away, Doom, Holds, UnlinkNode,
     RemoveTree, InPlace, RemoveDir, Open, Chmod, SyncDir, Record, Pending
<1>2. CASE RemoveTree
  BY <1>2, OnChanges DEF RemoveTree
<1>3. CASE Fault
  BY <1>3, OnFault DEF Does
<1> QED BY <1>1, <1>2, <1>3

LEMMA OnInPlace ==
  ASSUME System, At("inplace"), failing \in BOOLEAN, void \in BOOLEAN
  PROVE  Frame /\ Does(Id(Path) = call.a,
                    [dir EXCEPT ![Path] = IF @ = None THEN None ELSE [@ EXCEPT !.data = None]])
<1>1. InPlace \/ Fault
  BY DEF System, At, Check, Make, Finish, Copy, Rename, Exchange, Away, Doom, Holds, UnlinkNode,
     RemoveTree, InPlace, RemoveDir, Open, Chmod, SyncDir, Record, Pending
<1>2. CASE InPlace
  BY <1>2, OnChanges DEF InPlace
<1>3. CASE Fault
  BY <1>3, OnFault DEF Does
<1> QED BY <1>1, <1>2, <1>3

LEMMA OnRemoveDir ==
  ASSUME System, At("rmdir"), failing \in BOOLEAN, void \in BOOLEAN
  PROVE  Frame /\ Does(dir[Path] # None /\ dir[Path].kind # "file",
                    [dir EXCEPT ![Path] = None])
<1>1. RemoveDir \/ Fault
  BY DEF System, At, Check, Make, Finish, Copy, Rename, Exchange, Away, Doom, Holds, UnlinkNode,
     RemoveTree, InPlace, RemoveDir, Open, Chmod, SyncDir, Record, Pending
<1>2. CASE RemoveDir
  BY <1>2, OnChanges DEF RemoveDir
<1>3. CASE Fault
  BY <1>3, OnFault DEF Does
<1> QED BY <1>1, <1>2, <1>3

LEMMA OnChmod ==
  ASSUME System, At("chmod"), failing \in BOOLEAN, void \in BOOLEAN
  PROVE  Frame /\ Does(TRUE,
                    [n \in Names |-> IF Id(n) = call.a THEN [dir[n] EXCEPT !.mode = call.b] ELSE dir[n]])
<1>1. Chmod \/ Fault
  BY DEF System, At, Check, Make, Finish, Copy, Rename, Exchange, Away, Doom, Holds, UnlinkNode,
     RemoveTree, InPlace, RemoveDir, Open, Chmod, SyncDir, Record, Pending
<1>2. CASE Chmod
  BY <1>2, OnChanges DEF Chmod
<1>3. CASE Fault
  BY <1>3, OnFault DEF Does
<1> QED BY <1>1, <1>2, <1>3

LEMMA OnSyncDir ==
  ASSUME System, At("sync"), failing \in BOOLEAN, void \in BOOLEAN
  PROVE  Frame /\ Does(TRUE,
                    dir)
<1>1. SyncDir \/ Fault
  BY DEF System, At, Check, Make, Finish, Copy, Rename, Exchange, Away, Doom, Holds, UnlinkNode,
     RemoveTree, InPlace, RemoveDir, Open, Chmod, SyncDir, Record, Pending
<1>2. CASE SyncDir
  BY <1>2, OnChanges DEF SyncDir
<1>3. CASE Fault
  BY <1>3, OnFault DEF Does
<1> QED BY <1>1, <1>2, <1>3
Stays == failing' = failing /\ dir' = dir /\ Quiet /\ (void' <=> void)

(* The calls that may go over to another list of calls.                    *)
LEMMA OnAway ==
  ASSUME System, At("away"), failing \in BOOLEAN, void \in BOOLEAN
  PROVE  /\ Frame
         /\ \/ dir[Path] # None /\ dir[Path].kind = "lower" /\ calls' = call.b /\ Stays
            \/ Does(dir[Path] # None, [dir EXCEPT ![call.a] = dir[Path], ![Path] = None])
<1>1. Away \/ Fault
  BY DEF System, At, Check, Make, Finish, Copy, Rename, Exchange, Away, Doom, Holds, UnlinkNode,
     RemoveTree, InPlace, RemoveDir, Open, Chmod, SyncDir, Record, Pending
<1>2. CASE Away
  BY <1>2, OnChanges DEF Away, Stays, Quiet, Frame, kept, history
<1>3. CASE Fault
  BY <1>3, OnFault DEF Does
<1> QED BY <1>1, <1>2, <1>3

LEMMA OnDoom ==
  ASSUME System, At("doom"), failing \in BOOLEAN, void \in BOOLEAN
  PROVE  /\ Frame
         /\ \/ dir[call.a] = None /\ calls' = <<End>> /\ Stays
            \/ dir[call.a] # None
               /\ Does(TRUE, [dir EXCEPT ![call.b] = dir[call.a], ![call.a] = None])
            \/ Breaks
<1>1. Doom \/ Fault
  BY DEF System, At, Check, Make, Finish, Copy, Rename, Exchange, Away, Doom, Holds, UnlinkNode,
     RemoveTree, InPlace, RemoveDir, Open, Chmod, SyncDir, Record, Pending
<1>2. CASE Doom
  BY <1>2, OnChanges DEF Doom, Stays, Quiet, Frame, kept, history
<1>3. CASE Fault
  BY <1>3, OnFault
<1> QED BY <1>1, <1>2, <1>3

LEMMA OnOpen ==
  ASSUME System, At("open"), failing \in BOOLEAN, void \in BOOLEAN, ~failing
  PROVE  /\ Frame
         /\ \/ /\ dir[Path] # None /\ calls' = change(Id(Path), call.a, call.b) /\ Stays
            \/ calls' = <<>> /\ failing' = TRUE /\ dir' = dir /\ Quiet /\ (void' <=> void)
            \/ Breaks
<1>1. Open \/ Fault
  BY DEF System, At, Check, Make, Finish, Copy, Rename, Exchange, Away, Doom, Holds, UnlinkNode,
     RemoveTree, InPlace, RemoveDir, Open, Chmod, SyncDir, Record, Pending
<1>2. CASE Open
  BY <1>2 DEF Open, Stays, Quiet, Frame, kept, history
<1>3. CASE Fault
  BY <1>3, OnFault
<1> QED BY <1>1, <1>2, <1>3

(* The announcement and the list of what is to be deleted.                 *)
LEMMA OnRecord ==
  ASSUME System, At("announce"), failing \in BOOLEAN, void \in BOOLEAN
  PROVE  /\ Frame
         /\ \/ /\ Goes /\ dir' = dir /\ pending' = pending
               /\ phase = "acting" => /\ undos' = call.a \o SubSeq(undos, announced + 1, Len(undos))
                                      /\ announced' = Len(call.a)
               /\ phase # "acting" => undos' = undos /\ announced' = announced
            \/ Breaks
<1>1. Record \/ Fault
  BY DEF System, At, Check, Make, Finish, Copy, Rename, Exchange, Away, Doom, Holds, UnlinkNode,
     RemoveTree, InPlace, RemoveDir, Open, Chmod, SyncDir, Record, Pending
<1>2. CASE Record
  <2>1. Frame /\ Goes /\ dir' = dir /\ pending' = pending
    BY <1>2 DEF Record, Next_, Goes, Frame, kept, history
  <2>2. /\ phase = "acting" => /\ undos' = call.a \o SubSeq(undos, announced + 1, Len(undos))
                               /\ announced' = Len(call.a)
        /\ phase # "acting" => undos' = undos /\ announced' = announced
    BY <1>2 DEF Record
  <2> QED BY <2>1, <2>2
<1>3. CASE Fault
  BY <1>3, OnFault
<1> QED BY <1>1, <1>2, <1>3

LEMMA OnPending ==
  ASSUME System, At("pend") \/ At("unpend"), failing \in BOOLEAN, void \in BOOLEAN
  PROVE  /\ Frame /\ Goes /\ dir' = dir /\ undos' = undos /\ announced' = announced
         /\ pending' = IF call.sys = "pend" THEN pending \cup {call.a} ELSE pending \ {call.a}
<1>1. Pending
  BY DEF System, At, Check, Make, Finish, Copy, Rename, Exchange, Away, Doom, Holds, UnlinkNode,
     RemoveTree, InPlace, RemoveDir, Open, Chmod, SyncDir, Record, Pending, Fault
<1> QED BY <1>1 DEF Pending, Next_, Goes, Frame, kept, history

(* The end of a list is no system call.                                    *)
LEMMA OnEnd == ASSUME At("end") PROVE ~System
  BY DEF System, At, Check, Make, Finish, Copy, Rename, Exchange, Away, Doom, Holds, UnlinkNode,
     RemoveTree, InPlace, RemoveDir, Open, Chmod, SyncDir, Record, Pending, Fault

-----------------------------------------------------------------------------
(* 5. What every call keeps: the numbers, the record and the directory.    *)

(* The counters are numbers, and the names in use are names.               *)
LEMMA Ints ==
  ASSUME Numbers
  PROVE  /\ names \in Nat /\ ids \in Nat /\ moves \in Nat /\ Path \in Names /\ Path = 0
         /\ \A m \in Names : m \in Nat
         /\ \A m \in 0..names : m \in Names
  BY FilesAssumption DEF Numbers, Names, Path

(* The counters are in order after every system call.                      *)
LEMMA NumbersKept ==
  ASSUME Numbers, Recorded, Frame, Quiet, phase \in {"acting", "undoing"}, calls # <<>>,
         calls' # <<>> \/ failing'
  PROVE  Numbers'
<1>1. phase = "acting" => Older'
  BY DEF Numbers, Frame, Quiet, Older, InHand, base, new, Earlier
<1>2. phase = "undoing" => Left'
  BY DEF Numbers, Frame, Quiet, Left
<1> QED BY <1>1, <1>2 DEF Numbers, Frame

(* A call that changes the directory leaves the record and the directory   *)
(* in order.                                                               *)
LEMMA TidyKept ==
  ASSUME Numbers, Recorded, Directory, Frame, undos' = undos, announced' = announced,
         Shape', NEW F, Back(F), \A m \in F : dir'[m] # None => NodeOK(dir[m])',
         \A k \in DOMAIN undos : Fits(undos[k], F) /\ Whole(undos[k]),
         \A m \in Names : m > names => dir'[m] = None, Done(Path)'
  PROVE  Recorded' /\ Directory'
<1>0. /\ names \in Nat /\ ids \in Nat /\ moves \in Nat /\ names' = names /\ ids' = ids
      /\ moves' = moves /\ living' = living
  BY FilesAssumption DEF Numbers, Names, Frame
<1>1. Recorded'
  <2>1. announced' \in 0..Len(undos)
    BY DEF Recorded
  <2> QED BY <1>0, <2>1, RecordedKept
<1>2. NodesOK'
  <2>1. NodesOK
    BY DEF NodesOK, Directory
  <2> QED BY <1>0, <2>1, NodesKept
<1>3. Directory'
  BY <1>0, <1>2 DEF Directory, NodesOK
<1> QED BY <1>1, <1>3

(* So does one after which every node is one that was there before.        *)
LEMMA TidyLikewise ==
  ASSUME Numbers, Recorded, Directory, Frame, undos' = undos, announced' = announced,
         Shape', Back({}), DoneKept, \A m \in Names : m > names => dir'[m] = None
  PROVE  Recorded' /\ Directory'
<1>1. Path \in Names
  BY FilesAssumption DEF Path, Names
<1>2. Done(Path)'
  BY <1>1 DEF Directory, DoneKept
<1>3. ASSUME NEW k \in DOMAIN undos PROVE Fits(undos[k], {}) /\ Whole(undos[k])
  <2>1. UndoOK(undos[k]) /\ names \in Names
    BY DEF Recorded, Numbers
  <2>2. Whole(undos[k])
    BY <2>1, WholeKept
  <2> QED BY <2>2 DEF Fits
<1> QED BY <1>2, <1>3, TidyKept

(* So does one that changes nothing in the directory.                      *)
LEMMA TidySame ==
  ASSUME Numbers, Recorded, Directory, Frame, undos' = undos, announced' = announced, dir' = dir
  PROVE  Recorded' /\ Directory'
<1>1. Shape' /\ Back({}) /\ DoneKept
  BY SameDir DEF Directory
<1>2. \A m \in Names : m > names => dir'[m] = None
  BY DEF Directory
<1> QED BY <1>1, <1>2, TidyLikewise

(* A rename.                                                               *)
LEMMA TidyMoved ==
  ASSUME Numbers, Recorded, Directory, Frame, undos' = undos, announced' = announced,
         NEW a \in Names, NEW b \in Names, a # b, b <= names, dir[b] = None, Done(a),
         dir' = [dir EXCEPT ![b] = dir[a], ![a] = None]
  PROVE  Recorded' /\ Directory'
<1>1. /\ Shape' /\ Back({}) /\ DoneKept /\ dir'[a] = None
      /\ \A m \in Names : m # a /\ m # b => dir'[m] = dir[m]
  BY MoveDir DEF Directory
<1>2. \A m \in Names : m > names => dir'[m] = None
  <2> SUFFICES ASSUME NEW m \in Names, m > names PROVE dir'[m] = None
    OBVIOUS
  <2>1. dir[m] = None
    BY DEF Directory
  <2>2. m \in Nat /\ names \in Nat /\ a \in Nat /\ b \in Nat
    BY Ints
  <2>3. m # b
    BY <2>2
  <2> QED BY <1>1, <2>1, <2>2, <2>3
<1> QED BY <1>1, <1>2, TidyLikewise

(* An exchange.                                                            *)
LEMMA TidySwapped ==
  ASSUME Numbers, Recorded, Directory, Frame, undos' = undos, announced' = announced,
         NEW a \in Names, NEW b \in Names, a # b, a <= names, b <= names, Done(a), Done(b),
         dir' = [dir EXCEPT ![b] = dir[a], ![a] = dir[b]]
  PROVE  Recorded' /\ Directory'
<1>1. /\ Shape' /\ Back({}) /\ DoneKept
      /\ \A m \in Names : m # a /\ m # b => dir'[m] = dir[m]
  BY SwapDir DEF Directory
<1>2. \A m \in Names : m > names => dir'[m] = None
  <2> SUFFICES ASSUME NEW m \in Names, m > names PROVE dir'[m] = None
    OBVIOUS
  <2>1. dir[m] = None
    BY DEF Directory
  <2>2. m \in Nat /\ names \in Nat /\ a \in Nat /\ b \in Nat
    BY Ints
  <2>3. m # a /\ m # b
    BY <2>2
  <2> QED BY <1>1, <2>1, <2>2, <2>3
<1> QED BY <1>1, <1>2, TidyLikewise

(* A removal.                                                              *)
LEMMA TidyDropped ==
  ASSUME Numbers, Recorded, Directory, Frame, undos' = undos, announced' = announced,
         NEW a \in Names, dir' = [dir EXCEPT ![a] = None]
  PROVE  Recorded' /\ Directory'
<1>1. /\ Shape' /\ Back({}) /\ DoneKept
      /\ dir'[a] = None /\ \A m \in Names : m # a => dir'[m] = dir[m]
  BY PutDir DEF Directory
<1>2. \A m \in Names : m > names => dir'[m] = None
  BY <1>1, Ints DEF Directory
<1> QED BY <1>1, <1>2, TidyLikewise

(* A node that is finished.                                                *)
LEMMA TidyFinished ==
  ASSUME Numbers, Recorded, Directory, Frame, undos' = undos, announced' = announced,
         NEW a \in Names, dir[a] # None,
         dir' = [dir EXCEPT ![a] = IF @ = None THEN None ELSE [@ EXCEPT !.done = TRUE]]
  PROVE  /\ Recorded' /\ Directory' /\ Back({}) /\ Forth({})
         /\ dir'[a] # None /\ Like(dir'[a], dir[a]) /\ dir'[a].done
         /\ \A m \in Names : m # a => dir'[m] = dir[m]
<1>1. PICK p : p = [dir[a] EXCEPT !.done = TRUE]
  OBVIOUS
<1>2. dir[a] \in Nodes
  BY DEF Directory, Shape
<1>3. p \in Nodes /\ Like(p, dir[a]) /\ p.done
  BY <1>1, <1>2, Finished
<1>4. dir' = [dir EXCEPT ![a] = p]
  BY <1>1 DEF Directory, Shape
<1>5. /\ Shape' /\ Back({}) /\ Forth({}) /\ DoneKept
      /\ dir'[a] = p /\ \A m \in Names : m # a => dir'[m] = dir[m]
  BY <1>3, <1>4, UpdateDir DEF Directory
<1>6. \A m \in Names : m > names => dir'[m] = None
  BY <1>5, Ints DEF Directory
<1>7. Recorded' /\ Directory'
  BY <1>5, <1>6, TidyLikewise
<1> QED BY <1>3, <1>5, <1>7, NodesAreNot

(* A change of mode.                                                       *)
LEMMA TidyChmod ==
  ASSUME Numbers, Recorded, Directory, Frame, undos' = undos, announced' = announced,
         NEW x \in Int, NEW mode \in Nat,
         dir' = [m \in Names |-> IF Id(m) = x THEN [dir[m] EXCEPT !.mode = mode] ELSE dir[m]]
  PROVE  Recorded' /\ Directory'
<1>1. /\ Shape' /\ Back({}) /\ DoneKept
      /\ \A m \in Names : dir'[m] = None <=> dir[m] = None
  BY ChmodDir DEF Directory
<1>2. \A m \in Names : m > names => dir'[m] = None
  BY <1>1, Ints DEF Directory
<1> QED BY <1>1, <1>2, TidyLikewise

(* A node of its own, under a name and with an identity no undo knows.     *)
LEMMA TidyMade ==
  ASSUME Numbers, Recorded, Directory, Frame, undos' = undos, announced' = announced,
         phase = "acting", calls # <<>>, announced = 0,
         NEW n \in Names, n = base, NEW i, i = new, NEW kind \in {"file", "dir", "tree"},
         dir' = [dir EXCEPT ![n] = [Node(i, i, kind, "mix") EXCEPT !.done = FALSE]]
  PROVE  /\ Recorded' /\ Directory' /\ Back({n}) /\ Forth({n})
         /\ dir[n] = None => Forth({})
         /\ dir'[n] # None /\ dir'[n].id = i /\ dir'[n].data = i /\ dir'[n].kind = kind
         /\ dir'[n].inside = None
         /\ \A m \in Names : m # n => dir'[m] = dir[m]
<1>0. i \in 1..ids /\ i \in Int /\ ids \in Nat /\ n > 0 /\ n <= names /\ names \in Nat /\ moves \in Nat
  <2>1. Older /\ InHand /\ acts \in Nat
    BY DEF Numbers, InHand
  <2>2. names = 4 * acts /\ ids = 1 + 2 * acts /\ acts > 0
    BY <2>1 DEF Older
  <2>3. n = 4 * acts - 3 /\ i = 2 * acts
    BY <2>1, <2>2 DEF base, new
  <2> QED BY <2>1, <2>2, <2>3, Ints
<1>10. \A k \in DOMAIN undos : Earlier(undos[k], n, i)
  <2>1. DOMAIN undos = 1..Len(undos) /\ Len(undos) \in Nat
    BY DEF Recorded
  <2>2. \A k \in (announced + 1)..Len(undos) : Earlier(undos[k], base, new)
    BY DEF Numbers, Older, InHand
  <2> QED BY <2>1, <2>2
<1>1. PICK p : p = [Node(i, i, kind, "mix") EXCEPT !.done = FALSE]
  OBVIOUS
<1>2. p \in Nodes /\ p.id = i /\ p.data = i /\ p.kind = kind /\ p.inside = None
  BY <1>0, <1>1 DEF Nodes, Node
<1>3. /\ Shape' /\ Back({n}) /\ Forth({n}) /\ dir'[n] = p
      /\ \A m \in Names : m # n => dir'[m] = dir[m]
      /\ dir[n] = None => Forth({})
  BY <1>1, <1>2, PutDir DEF Directory
<1>4. p # None
  BY <1>2, NodesAreNot
<1>5. NodeOK(dir[n])'
  <2>1. moves' = moves /\ ids' = ids /\ dir'[n] = p
    BY <1>3 DEF Frame
  <2>2. p.id \in 1..ids /\ ~(p.id < 0) /\ p.inside = None /\ p.data \in (-moves)..ids
    BY <1>0, <1>2
  <2> QED BY <2>1, <2>2 DEF NodeOK
<1>6. \A m \in Names : m > names => dir'[m] = None
  BY <1>0, <1>3, Ints DEF Directory
<1>7. Done(Path)'
  <2>1. Path \in Names /\ Path # n
    BY <1>0, Ints
  <2> QED BY <1>3, <2>1 DEF Done, Directory
<1>8. ASSUME NEW k \in DOMAIN undos PROVE Fits(undos[k], {n}) /\ Whole(undos[k])
  <2>1. PICK u : u = undos[k]
    OBVIOUS
  <2>2. Earlier(u, n, i) /\ UndoOK(u)
    BY <1>10, <2>1 DEF Recorded
  <2>3. Fits(u, {n})
    <3>1. u.op \in {"removetree", "restore"} /\ u.expect # None => u.expect < i
      BY <2>2 DEF Earlier, IdOps
    <3>2. dir'[n].id = i
      BY <1>2, <1>3
    <3>3. ~(i < i)
      BY <1>0
    <3> QED BY <3>1, <3>2, <3>3 DEF Fits
  <2>4. \A m \in 0..names : m \in Names
    BY Ints
  <2>5. Whole(u)
    BY <1>0, <1>3, <2>2, <2>4 DEF Whole, Earlier, UndoOK, Done
  <2> QED BY <2>1, <2>3, <2>5
<1>9. Recorded' /\ Directory'
  BY <1>3, <1>5, <1>6, <1>7, <1>8, TidyKept
<1> QED BY <1>2, <1>3, <1>4, <1>9

(* A copy of what is at the path.                                          *)
LEMMA TidyCopied ==
  ASSUME Numbers, Recorded, Directory, Frame, undos' = undos, announced' = announced,
         NEW a \in Names, a # Path, a <= names, NEW x \in 1..ids, dir[Path] # None,
         dir' = [dir EXCEPT ![a] = IF dir[Path] = None THEN None
                                   ELSE [dir[Path] EXCEPT !.id = x, !.kind = "tree"]]
  PROVE  /\ Recorded' /\ Directory' /\ Back({a}) /\ Forth({a})
         /\ dir[a] = None => Forth({})
         /\ dir'[a] # None /\ dir'[a].id = x /\ dir'[a].data = dir[Path].data /\ dir'[a].kind = "tree"
         /\ dir'[a].inside = dir[Path].inside /\ dir'[a].done
         /\ \A m \in Names : m # a => dir'[m] = dir[m]
<1>0. Path \in Names /\ dir[Path] \in Nodes /\ x \in Int /\ ids \in Nat /\ moves \in Nat /\ dir[Path].done
  <2>1. Path \in Names /\ ids \in Nat /\ moves \in Nat
    BY Ints
  <2> QED BY <2>1 DEF Directory, Shape, Done
<1>1. PICK p : p = [dir[Path] EXCEPT !.id = x, !.kind = "tree"]
  OBVIOUS
<1>2. /\ p \in Nodes /\ p.id = x /\ p.kind = "tree" /\ p.data = dir[Path].data
      /\ p.inside = dir[Path].inside /\ p.done
  BY <1>0, <1>1, Copied
<1>3. dir' = [dir EXCEPT ![a] = p]
  BY <1>1
<1>4. /\ Shape' /\ Back({a}) /\ Forth({a}) /\ dir'[a] = p /\ DoneKept
      /\ \A m \in Names : m # a => dir'[m] = dir[m]
      /\ dir[a] = None => Forth({})
  <2>1. p \in Nodes \cup {None} /\ (p # None => p.done)
    BY <1>2
  <2> QED BY <1>3, <2>1, PutDir DEF Directory
<1>5. NodeOK(dir[a])'
  <2>1. NodeOK(dir[Path])
    BY <1>0 DEF Directory
  <2> QED BY <1>0, <1>2, <1>4, <2>1 DEF NodeOK, Frame
<1>6. \A m \in Names : m > names => dir'[m] = None
  BY <1>4, Ints DEF Directory
<1>7. Done(Path)'
  BY <1>0, <1>4 DEF DoneKept, Directory
<1>8. ASSUME NEW k \in DOMAIN undos PROVE Fits(undos[k], {a}) /\ Whole(undos[k])
  <2>1. UndoOK(undos[k]) /\ names \in Names
    BY DEF Recorded, Numbers
  <2>2. Whole(undos[k])
    BY <1>4, <2>1, WholeKept
  <2>3. Fits(undos[k], {a})
    BY <1>2, <1>4 DEF Fits
  <2> QED BY <2>2, <2>3
<1>9. Recorded' /\ Directory'
  BY <1>4, <1>5, <1>6, <1>7, <1>8, TidyKept
<1> QED BY <1>2, <1>4, <1>9, NodesAreNot

(* A directory that is emptied where it is.                                *)
LEMMA TidyEmptied ==
  ASSUME Numbers, Recorded, Directory, Frame, undos' = undos, announced' = announced,
         dir[Path] # None, dir[Path].id > 0,
         dir' = [dir EXCEPT ![Path] = IF @ = None THEN None ELSE [@ EXCEPT !.data = None]]
  PROVE  /\ Recorded' /\ Directory' /\ Back({Path}) /\ Forth({Path})
         /\ dir'[Path] # None /\ dir'[Path].id = dir[Path].id /\ dir'[Path].data = None
         /\ dir'[Path].kind = dir[Path].kind /\ dir'[Path].inside = dir[Path].inside
         /\ \A m \in Names : m # Path => dir'[m] = dir[m]
<1>0. Path \in Names /\ dir[Path] \in Nodes /\ ids \in Nat /\ moves \in Nat /\ dir[Path].done
  BY FilesAssumption DEF Path, Names, Directory, Shape, Numbers, Done
<1>1. PICK p : p = [dir[Path] EXCEPT !.data = None]
  OBVIOUS
<1>2. /\ p \in Nodes /\ p.id = dir[Path].id /\ p.kind = dir[Path].kind /\ p.data = None
      /\ p.inside = dir[Path].inside /\ p.done
  BY <1>0, <1>1, EmptiedNode
<1>3. dir' = [dir EXCEPT ![Path] = p]
  BY <1>0, <1>1 DEF Directory, Shape
<1>4. /\ Shape' /\ Back({Path}) /\ Forth({Path}) /\ dir'[Path] = p /\ DoneKept
      /\ \A m \in Names : m # Path => dir'[m] = dir[m]
  BY <1>0, <1>2, <1>3, PutDir DEF Directory
<1>5. NodeOK(dir[Path])'
  <2>1. NodeOK(dir[Path])
    BY <1>0 DEF Directory
  <2> QED BY <1>0, <1>2, <1>4, <2>1 DEF NodeOK, Frame
<1>6. \A m \in Names : m > names => dir'[m] = None
  BY <1>4, FilesAssumption DEF Directory, Numbers, Names, Path
<1>7. Done(Path)'
  BY <1>2, <1>4 DEF Done
<1>8. ASSUME NEW k \in DOMAIN undos PROVE Fits(undos[k], {Path}) /\ Whole(undos[k])
  <2>1. UndoOK(undos[k]) /\ names \in Names
    BY DEF Recorded, Numbers
  <2>2. Whole(undos[k])
    BY <1>4, <2>1, WholeKept
  <2>3. Fits(undos[k], {Path})
    BY <1>0, <1>2, <1>4, <2>1 DEF Fits, UndoOK, Kinds
  <2> QED BY <2>2, <2>3
<1>9. Recorded' /\ Directory'
  BY <1>4, <1>5, <1>6, <1>7, <1>8, TidyKept
<1> QED BY <1>2, <1>4, <1>9, NodesAreNot

(* What is announced takes the place of what was announced before.         *)
Announces(s) == /\ undos' = s \o SubSeq(undos, announced + 1, Len(undos))
                /\ announced' = Len(s)

(* What an announcement leaves in the record: the new undos, then the      *)
(* earlier ones.                                                           *)
LEMMA AnnouncedList ==
  ASSUME Recorded, NEW s \in Seq(UndoSet), Announces(s)
  PROVE  /\ undos' \in Seq(UndoSet) /\ Len(undos') = Len(s) + (Len(undos) - announced)
         /\ \A k \in 1..Len(s) : undos'[k] = s[k]
         /\ \A k \in (Len(s) + 1)..Len(undos') :
               /\ k - Len(s) + announced \in (announced + 1)..Len(undos)
               /\ undos'[k] = undos[k - Len(s) + announced]
<1>0. /\ undos \in Seq(UndoSet) /\ announced \in Nat /\ announced <= Len(undos) /\ Len(undos) \in Nat
      /\ Len(s) \in Nat
  BY DEF Recorded
<1>1. PICK t : t = SubSeq(undos, announced + 1, Len(undos))
  OBVIOUS
<1>2. /\ t \in Seq(UndoSet) /\ Len(t) = Len(undos) - announced
      /\ \A k \in 1..Len(t) : t[k] = undos[announced + k]
  <2>1. CASE announced < Len(undos)
    <3>1. /\ SubSeq(undos, announced + 1, Len(undos)) \in Seq(UndoSet)
          /\ Len(SubSeq(undos, announced + 1, Len(undos))) = Len(undos) - (announced + 1) + 1
          /\ \A k \in 1..(Len(undos) - (announced + 1) + 1) :
               SubSeq(undos, announced + 1, Len(undos))[k] = undos[(announced + 1) + k - 1]
      BY <1>0, <2>1, SubSeqProperties
    <3>2. /\ t \in Seq(UndoSet) /\ Len(t) = Len(undos) - announced
      BY <1>0, <1>1, <3>1
    <3>3. ASSUME NEW k \in 1..Len(t) PROVE t[k] = undos[announced + k]
      <4>1. t[k] = undos[(announced + 1) + k - 1]
        BY <1>0, <1>1, <3>1, <3>2
      <4>2. (announced + 1) + k - 1 = announced + k
        BY <1>0, <3>2
      <4> QED BY <4>1, <4>2
    <3> QED BY <3>2, <3>3
  <2>2. CASE announced = Len(undos)
    BY <1>0, <1>1, <2>2, SubSeqProperties
  <2> QED BY <1>0, <2>1, <2>2
<1>3. /\ s \o t \in Seq(UndoSet) /\ Len(s \o t) = Len(s) + Len(t)
      /\ \A k \in 1..(Len(s) + Len(t)) : (s \o t)[k] = IF k <= Len(s) THEN s[k] ELSE t[k - Len(s)]
  BY <1>2, ConcatProperties
<1>4. PICK w : w = undos'
  OBVIOUS
<1>5. /\ w \in Seq(UndoSet) /\ Len(w) = Len(s) + Len(t)
      /\ \A k \in 1..(Len(s) + Len(t)) : w[k] = IF k <= Len(s) THEN s[k] ELSE t[k - Len(s)]
  BY <1>1, <1>3, <1>4 DEF Announces
<1>6. ASSUME NEW k \in 1..Len(s) PROVE w[k] = s[k]
  <2>1. k \in 1..(Len(s) + Len(t)) /\ k <= Len(s)
    BY <1>0, <1>2
  <2> QED BY <1>5, <2>1
<1>7. ASSUME NEW k \in (Len(s) + 1)..Len(w)
      PROVE  /\ k - Len(s) + announced \in (announced + 1)..Len(undos)
             /\ w[k] = undos[k - Len(s) + announced]
  <2>1. k - Len(s) \in 1..Len(t) /\ ~(k <= Len(s)) /\ k \in 1..(Len(s) + Len(t))
    BY <1>0, <1>2, <1>5
  <2>2. w[k] = t[k - Len(s)]
    BY <1>5, <2>1
  <2>3. t[k - Len(s)] = undos[announced + (k - Len(s))]
    BY <1>2, <2>1
  <2>4. announced + (k - Len(s)) = k - Len(s) + announced
        /\ k - Len(s) + announced \in (announced + 1)..Len(undos)
    BY <1>0, <1>2, <2>1
  <2> QED BY <2>2, <2>3, <2>4
<1> QED BY <1>2, <1>4, <1>5, <1>6, <1>7

(* The action in hand announces: the identities and names of the new undos *)
(* may be those of the action, the others stay with the earlier ones.      *)
ExpectsOf(s) == {s[k].expect : k \in {l \in 1..Len(s) : s[l].op \in IdOps}}

(* The record is in order after an announcement.                           *)
LEMMA TidyAnnounced ==
  ASSUME Numbers, Recorded, Directory, Frame, phase = "acting", calls # <<>>, calls' # <<>>,
         dir' = dir,
         NEW s \in Seq(UndoSet), Len(s) <= 2, Announces(s), \A k \in 1..Len(s) : UndoOK(s[k])
  PROVE  /\ Numbers' /\ Recorded' /\ Directory'
         /\ Expects' \subseteq Expects \cup ExpectsOf(s)
         /\ \A x \in Expects' : x = None \/ x < new \/ x \in ExpectsOf(s)
<1>0. /\ undos' \in Seq(UndoSet) /\ Len(undos') = Len(s) + (Len(undos) - announced)
      /\ \A k \in 1..Len(s) : undos'[k] = s[k]
      /\ \A k \in (Len(s) + 1)..Len(undos') :
               /\ k - Len(s) + announced \in (announced + 1)..Len(undos)
               /\ undos'[k] = undos[k - Len(s) + announced]
  BY AnnouncedList
<1>1. /\ Len(s) \in Nat /\ Len(undos) \in Nat /\ announced \in Nat /\ announced <= Len(undos)
      /\ Len(undos') \in Nat /\ DOMAIN undos = 1..Len(undos) /\ DOMAIN undos' = 1..Len(undos')
      /\ announced' = Len(s)
  BY <1>0 DEF Recorded, Announces
<1>2. InHand /\ Older /\ acts \in Nat
  BY DEF InHand, Numbers
<1>3. \A k \in (announced + 1)..Len(undos) : Earlier(undos[k], base, new)
  BY <1>2 DEF Older
<1>4. \A k \in (Len(s) + 1)..Len(undos') : Earlier(undos'[k], base, new)
  BY <1>0, <1>3
<1>5. Older'
  <2>1. InHand'
    BY DEF InHand, Frame
  <2>2. base' = base /\ new' = new
    BY DEF base, new, Frame
  <2>3. /\ names' = 4 * acts' /\ ids' = 1 + 2 * acts' /\ acts' \in 0..MaxActs /\ acts' > 0
    BY <1>2 DEF Older, Frame
  <2>4. announced' <= 2 /\ Len(undos') - announced' <= 2 * (acts' - 1)
    <3>1. Len(undos) - announced <= 2 * (acts - 1) /\ acts' = acts
      BY <1>2 DEF Older, Frame
    <3> QED BY <1>0, <1>1, <1>2, <3>1
  <2>5. \A k \in (announced' + 1)..Len(undos') : Earlier(undos'[k], base', new')
    BY <1>1, <1>4, <2>2
  <2>6. \A k \in (announced' + 1)..Len(undos') : Earlier(undos[k], base, new)'
    BY <2>5 DEF Earlier
  <2> QED BY <2>1, <2>3, <2>4, <2>6 DEF Older
<1>6. Numbers'
  BY <1>5 DEF Numbers, Frame
<1>7. Directory'
  BY DEF Directory, Frame, Shape, Done, NodeOK
<1>8. ASSUME NEW k \in DOMAIN undos'
      PROVE  \/ k \in 1..Len(s) /\ undos'[k] = s[k]
             \/ \E l \in (announced + 1)..Len(undos) : undos'[k] = undos[l] /\ Earlier(undos[l], base, new)
  <2>1. k \in 1..Len(s) \/ k \in (Len(s) + 1)..Len(undos')
    BY <1>1
  <2> QED BY <1>0, <1>3, <2>1
<1>9. Recorded'
  <2>1. ASSUME NEW k \in DOMAIN undos' PROVE UndoOK(undos'[k])
    <3>1. \A l \in (announced + 1)..Len(undos) : l \in DOMAIN undos
      BY <1>1
    <3> QED BY <1>8, <3>1 DEF Recorded
  <2>2. ASSUME NEW k \in DOMAIN undos' PROVE UndoOK(undos[k])'
    <3>1. UndoOK(undos'[k])
      BY <2>1
    <3> QED BY <3>1 DEF UndoOK, Frame, Done, Kinds
  <2>3. announced' \in 0..Len(undos')
    BY <1>0, <1>1
  <2> QED BY <1>0, <2>2, <2>3 DEF Recorded
<1>10. ASSUME NEW x \in Expects'
       PROVE  x \in ExpectsOf(s) \/ (x \in Expects /\ (x = None \/ x < new))
  <2>1. PICK k \in DOMAIN undos' : undos'[k].op \in IdOps /\ undos'[k].expect = x
    BY DEF Expects
  <2>2. CASE k \in 1..Len(s) /\ undos'[k] = s[k]
    BY <2>1, <2>2 DEF ExpectsOf
  <2>3. CASE \E l \in (announced + 1)..Len(undos) : undos'[k] = undos[l] /\ Earlier(undos[l], base, new)
    <3>1. PICK l \in (announced + 1)..Len(undos) : undos'[k] = undos[l] /\ Earlier(undos[l], base, new)
      BY <2>3
    <3>2. l \in DOMAIN undos
      BY <1>1
    <3> QED BY <2>1, <3>1, <3>2 DEF Expects, Earlier
  <2> QED BY <1>8, <2>2, <2>3
<1> QED BY <1>6, <1>7, <1>9, <1>10

-----------------------------------------------------------------------------
(* 6. The action in hand.                                                  *)

(* Nodes that are alike hold the same data and are as safe.                *)
LEMMA LikeFacts ==
  ASSUME Back({}), Forth({}), living' = living, undos' = undos
  PROVE  /\ \A x : Unused(x) => Unused(x)'
         /\ \A x, kinds : Kinds(x, kinds) => Kinds(x, kinds)'
         /\ \A i : OwnClean(i) => OwnClean(i)'
         /\ \A R : Safe(R) => Safe(R)'
<1>1. \A x : Unused(x) => Unused(x)'
  BY UnusedKept
<1>2. \A x, kinds : Kinds(x, kinds) => Kinds(x, kinds)'
  BY KindsKept
<1>3. \A i : OwnClean(i) => OwnClean(i)'
  BY OwnCleanKept
<1>4. ASSUME NEW R, Safe(R) PROVE Safe(R)'
  <2>1. Expects' = Expects
    BY DEF Expects
  <2> QED BY <1>4, <2>1, SafeKept
<1> QED BY <1>1, <1>2, <1>3, <1>4

(* A name whose node stays holds no data of others if it held none.        *)
LEMMA CleanKept ==
  ASSUME NEW m, dir'[m] = dir[m] PROVE Clean(m) => Clean(m)'
  BY DEF Clean, Data

(* So do all the names of earlier actions.                                 *)
LEMMA OlderKept ==
  ASSUME NEW n, \A m \in 1..(n - 1) : dir'[m] = dir[m] PROVE OlderClean(n) => OlderClean(n)'
  BY CleanKept DEF OlderClean

(* The names and identities of the action in hand.                         *)
InHandOf(n, i) == FilesInv /\ phase = "acting" /\ calls # <<>> /\ n = base /\ i = new

(* The types of what the action in hand works with.                        *)
LEMMA Handy ==
  ASSUME NEW n, NEW i, InHandOf(n, i)
  PROVE  /\ Numbers /\ Recorded /\ Directory /\ Shape /\ failing \in BOOLEAN /\ void \in BOOLEAN
         /\ n \in Nat /\ n > 0 /\ n + 3 = names /\ i \in Nat /\ i > 0 /\ i + 1 = ids
         /\ n \in Names /\ (n + 1) \in Names /\ (n + 2) \in Names /\ (n + 3) \in Names /\ Path \in Names
         /\ Path = 0 /\ \A m \in 1..(n - 1) : m \in Names
<1>1. Numbers /\ Recorded /\ Directory /\ Shape /\ failing \in BOOLEAN /\ void \in BOOLEAN
  BY DEF InHandOf, FilesInv, Numbers, Directory
<1>2. Older /\ InHand /\ acts \in Nat
  BY <1>1 DEF Numbers, InHand, InHandOf
<1>3. names = 4 * acts /\ ids = 1 + 2 * acts /\ acts > 0
  BY <1>2 DEF Older
<1>4. n = 4 * acts - 3 /\ i = 2 * acts
  BY <1>2, <1>3 DEF base, new, InHandOf
<1>5. /\ n \in Nat /\ n > 0 /\ n + 3 = names /\ i \in Nat /\ i > 0 /\ i + 1 = ids
  BY <1>2, <1>3, <1>4
<1>6. /\ names \in Nat /\ Path \in Names /\ Path = 0
      /\ \A m \in 0..names : m \in Names
  BY <1>1, Ints
<1>7. \A m \in 0..(n + 3) : m \in Names
  BY <1>5, <1>6
<1>8. n \in 0..(n + 3) /\ n + 1 \in 0..(n + 3) /\ n + 2 \in 0..(n + 3) /\ n + 3 \in 0..(n + 3)
      /\ \A m \in 1..(n - 1) : m \in 0..(n + 3)
  BY <1>5
<1> QED BY <1>1, <1>5, <1>6, <1>7, <1>8

(* The action goes on, or has failed and cleans up, or has just failed.    *)
LEMMA GoesOn ==
  ASSUME NEW n, NEW i, InHandOf(n, i), Frame, Numbers', Recorded', Directory', calls' # <<>>,
         Acting(n, i)' \/ Failing(n, i)', Path \in pending' => void' \/ Spared'
  PROVE  FilesInv'
<1>1. phase' = "acting" /\ base' = n /\ new' = i
  BY DEF Frame, InHandOf, base, new
<1>2. Acting(base, new)' \/ Failing(base, new)'
  <2>1. CASE Acting(n, i)'
    BY <1>1, <2>1 DEF Acting, base, new
  <2>2. CASE Failing(n, i)'
    BY <1>1, <2>2 DEF Failing, base, new
  <2> QED BY <2>1, <2>2
<1>3. Calls'
  BY <1>1, <1>2 DEF Calls
<1> QED BY <1>3 DEF FilesInv

(* What is safe stays safe while the directory, the record and the living  *)
(* data stay.                                                              *)
LEMMA SafeSame ==
  ASSUME dir' = dir, living' = living, undos' = undos
  PROVE  \A R : Safe(R)' <=> Safe(R)
  BY DEF Safe, Keeps, Expects, Data

(* A call has failed and nothing is left to clean up: the invariant holds. *)
LEMMA GivesUp ==
  ASSUME NEW n, NEW i, InHandOf(n, i), ~failing, Frame, Fails, void => void', call.else = <<>>,
         void \/ Safe(Hand(i)), Path \in pending => void \/ Spared
  PROVE  FilesInv'
<1>1. Numbers /\ Recorded /\ Directory
  BY Handy
<1>2. /\ calls' = <<>> /\ failing' = TRUE /\ dir' = dir /\ Quiet /\ phase' = "acting" /\ phase = "acting"
      /\ living' = living /\ undos' = undos /\ pending' = pending /\ calls # <<>> /\ announced' = announced
  BY DEF Fails, Frame, InHandOf, Quiet
<1>3. Numbers'
  BY <1>1, <1>2, NumbersKept
<1>4. Recorded' /\ Directory'
  BY <1>1, <1>2, TidySame
<1>5. void' \/ Safe({})'
  <2>1. void \/ Safe({})
    BY SafeLess
  <2> QED BY <1>2, <2>1, SafeSame
<1>6. Path \in pending' => void' \/ Spared'
  BY <1>2 DEF Spared, Clean, Data
<1>7. Calls'
  BY <1>2, <1>5, <1>6 DEF Calls, Settled
<1> QED BY <1>3, <1>4, <1>7 DEF FilesInv

(* A call has failed, and what the code does then keeps the invariant.     *)
LEMMA CleansUp ==
  ASSUME NEW n, NEW i, InHandOf(n, i), ~failing, Frame, Fails, void => void', call.else # <<>>,
         void \/ Safe(Hand(i)), Path \notin pending,
         \/ \E m \in n..(n + 3) : Unlinking(n, i, m)' \/ Clearing(n, i, m)'
         \/ ExchangingBack(n, i)' \/ LinkingBack(n, i)' \/ LinkingAsideBack(n, i)'
  PROVE  FilesInv'
<1>1. Numbers /\ Recorded /\ Directory
  BY Handy
<1>2. /\ calls' # <<>> /\ failing' = TRUE /\ dir' = dir /\ Quiet /\ phase' = "acting" /\ phase = "acting"
      /\ living' = living /\ undos' = undos /\ pending' = pending /\ calls # <<>> /\ announced' = announced
  BY DEF Fails, Frame, InHandOf, Quiet
<1>3. Numbers'
  BY <1>1, <1>2, NumbersKept
<1>4. Recorded' /\ Directory'
  BY <1>1, <1>2, TidySame
<1>5. void' \/ Safe(Hand(i))'
  BY <1>2, SafeSame
<1>6. Failing(n, i)'
  BY <1>2, <1>5 DEF Failing, Hand
<1> QED BY <1>2, <1>3, <1>4, <1>6, GoesOn

(* What it does then: unlink a node the action made.                       *)
LEMMA Unlinks ==
  ASSUME NEW n, NEW i, InHandOf(n, i), ~failing, Frame, Fails, void => void',
         NEW m \in n..(n + 3), call.else = <<Unlink(m)>>,
         void \/ Safe(Hand(i)), Path \notin pending,
         void \/ (dir[m] # None => dir[m].id \in Hand(i))
  PROVE  FilesInv'
<1>1. Unlinking(n, i, m)'
  BY DEF Unlinking, Fails
<1>2. call.else # <<>>
  OBVIOUS
<1> QED BY <1>1, <1>2, CleansUp

(* Or clear a tree it made.                                                *)
LEMMA Clears ==
  ASSUME NEW n, NEW i, InHandOf(n, i), ~failing, Frame, Fails, void => void',
         NEW m \in n..(n + 3), call.else = <<Clear(m)>>,
         void \/ Safe(Hand(i)), Path \notin pending,
         dir[m] # None => dir[m].id \in Hand(i) /\ dir[m].kind = "tree"
  PROVE  FilesInv'
<1>1. Clearing(n, i, m)'
  BY DEF Clearing, Fails
<1>2. call.else # <<>>
  OBVIOUS
<1> QED BY <1>1, <1>2, CleansUp

(* Or exchange back what it caught, and unlink its own.                    *)
LEMMA ExchangesBack ==
  ASSUME NEW n, NEW i, InHandOf(n, i), ~failing, Frame, Fails, void => void',
         call.else = <<Call("exchange", n, Path, <<>>), Unlink(n)>>,
         void \/ Safe(Hand(i)), Path \notin pending,
         dir[n] # None /\ dir[n].done, void \/ (dir[n].id < 0 /\ Is(Path, i))
  PROVE  FilesInv'
<1>1. ExchangingBack(n, i)'
  BY DEF ExchangingBack, Fails, Is
<1>2. call.else # <<>>
  OBVIOUS
<1> QED BY <1>1, <1>2, CleansUp

(* Or rename back what it set aside.                                       *)
LEMMA LinksBack ==
  ASSUME NEW n, NEW i, InHandOf(n, i), ~failing, Frame, Fails, void => void',
         call.else = <<Link(n, Path, <<>>)>>,
         void \/ Safe(Hand(i)), Path \notin pending, Done(n)
  PROVE  FilesInv'
<1>1. LinkingBack(n, i)'
  BY DEF LinkingBack, Fails, Done
<1>2. call.else # <<>>
  OBVIOUS
<1> QED BY <1>1, <1>2, CleansUp

(* Or rename back what it set aside, and clear its copy.                   *)
LEMMA LinksAsideBack ==
  ASSUME NEW n, NEW i, InHandOf(n, i), ~failing, Frame, Fails, void => void',
         call.else = <<Link(n + 1, Path, <<>>), Clear(n)>>,
         void \/ Safe(Hand(i)), Path \notin pending, Done(n + 1),
         dir[n] # None => dir[n].id \in Hand(i) /\ dir[n].kind = "tree"
  PROVE  FilesInv'
<1>1. LinkingAsideBack(n, i)'
  BY DEF LinkingAsideBack, Fails, Done
<1>2. call.else # <<>>
  OBVIOUS
<1> QED BY <1>1, <1>2, CleansUp

-----------------------------------------------------------------------------
(* 7. The action in hand has failed, and cleans up.                        *)

(* The last call of the cleaning up.                                       *)
LEMMA Finale ==
  ASSUME NEW n, NEW i, InHandOf(n, i), Frame, Quiet, calls' = <<>>, failing' = TRUE,
         Recorded', Directory', void' \/ Safe({})', Path \notin pending
  PROVE  FilesInv'
<1>1. Numbers /\ Recorded /\ phase = "acting" /\ calls # <<>> /\ phase' = "acting" /\ pending' = pending
  BY Handy DEF InHandOf, Frame, Quiet
<1>2. Numbers'
  BY <1>1, NumbersKept
<1>3. Calls'
  BY <1>1 DEF Calls, Settled
<1> QED BY <1>2, <1>3 DEF FilesInv

(* A call of the cleaning up with another after it.                        *)
LEMMA Cleaning ==
  ASSUME NEW n, NEW i, InHandOf(n, i), Frame, Quiet, calls' # <<>>, failing' = TRUE,
         Recorded', Directory', void' \/ Safe(Hand(i))', Path \notin pending,
         \E m \in n..(n + 3) : Unlinking(n, i, m)' \/ Clearing(n, i, m)'
  PROVE  FilesInv'
<1>1. Numbers /\ Recorded /\ phase = "acting" /\ calls # <<>> /\ phase' = "acting" /\ pending' = pending
  BY Handy DEF InHandOf, Frame, Quiet
<1>2. Numbers'
  BY <1>1, NumbersKept
<1>3. Failing(n, i)'
  BY <1>1 DEF Failing, Hand
<1> QED BY <1>1, <1>2, <1>3, GoesOn

(* A call of the cleaning up that fails: its failure is ignored.           *)
LEMMA FailingSame ==
  ASSUME NEW n, NEW i, InHandOf(n, i), failing, Frame, Fails, void => void', void \/ Safe(Hand(i))
  PROVE  /\ Quiet /\ failing' = TRUE /\ calls' = Tail(calls) /\ Recorded' /\ Directory' /\ dir' = dir
         /\ void' \/ Safe({})'
         /\ void' \/ Safe(Hand(i))'
<1>1. /\ Quiet /\ failing' = TRUE /\ calls' = Tail(calls) /\ dir' = dir /\ undos' = undos
      /\ announced' = announced /\ living' = living
  BY DEF Fails, Quiet, Frame
<1>2. Recorded' /\ Directory'
  BY <1>1, Handy, TidySame
<1>3. void \/ Safe({})
  BY SafeLess
<1> QED BY <1>1, <1>2, <1>3, SafeSame

(* The step of each way of cleaning up keeps the invariant.                *)
LEMMA UnlinkingStep ==
  ASSUME NEW n, NEW i, InHandOf(n, i), failing, System, Path \notin pending, void \/ Safe(Hand(i)),
         NEW m \in n..(n + 3), Unlinking(n, i, m)
  PROVE  FilesInv'
<1>1. /\ Numbers /\ Recorded /\ Directory /\ Shape /\ failing \in BOOLEAN /\ void \in BOOLEAN
      /\ m \in Names
  <2>1. m \in 0..names
    BY Handy
  <2> QED BY <2>1, Handy, Ints
<1>2. At("unlink") /\ call.a = m /\ Tail(calls) = <<>>
  BY DEF Unlinking, At, call, Unlink, Call
<1>3. Frame /\ Does(dir[m] # None /\ dir[m].inside = None, [dir EXCEPT ![m] = None])
  BY <1>1, <1>2, OnUnlinkNode
<1>4. CASE dir[m] # None /\ dir[m].inside = None /\ Goes /\ dir' = [dir EXCEPT ![m] = None] /\ Quiet
  <2>1. /\ calls' = <<>> /\ failing' = TRUE /\ undos' = undos /\ announced' = announced
        /\ living' = living /\ (void' <=> void)
    BY <1>2, <1>3, <1>4, <1>1 DEF Goes, Quiet, Frame
  <2>2. Recorded' /\ Directory'
    BY <1>1, <1>3, <1>4, <2>1, TidyDropped
  <2>3. Back({}) /\ Forth({m})
    BY <1>1, <1>4, PutDir
  <2>4. ASSUME ~void PROVE Safe({})'
    <3>1. Safe(Hand(i)) /\ dir[m].id \in Hand(i)
      BY <1>4, <2>4 DEF Unlinking
    <3>2. \A d \in living : d # None
      BY <1>1, FilesAssumption DEF Directory
    <3>3. \A d \in living : ~Keeps(m, d, Hand(i))
      BY <1>4, <3>1, <3>2 DEF Keeps
    <3>4. Expects' = Expects
      BY <2>1 DEF Expects
    <3> QED BY <2>1, <2>3, <3>1, <3>3, <3>4, SafeKept
  <2> QED BY <1>3, <1>4, <2>1, <2>2, <2>4, Finale
<1>5. CASE Fails /\ (void => void')
  BY <1>2, <1>3, <1>5, FailingSame, Finale
<1> QED BY <1>3, <1>4, <1>5 DEF Does, Breaks

LEMMA ClearingStep ==
  ASSUME NEW n, NEW i, InHandOf(n, i), failing, System, Path \notin pending, void \/ Safe(Hand(i)),
         NEW m \in n..(n + 3), Clearing(n, i, m)
  PROVE  FilesInv'
<1>1. /\ Numbers /\ Recorded /\ Directory /\ Shape /\ failing \in BOOLEAN /\ void \in BOOLEAN
      /\ m \in Names
  <2>1. m \in 0..names
    BY Handy
  <2> QED BY <2>1, Handy, Ints
<1>2. At("rmtree") /\ call.a = m /\ Tail(calls) = <<>>
  BY DEF Clearing, At, call, Clear, Call
<1>3. Frame /\ Does(TRUE, [dir EXCEPT ![m] = None])
  BY <1>1, <1>2, OnRemoveTree
<1>4. CASE Goes /\ dir' = [dir EXCEPT ![m] = None] /\ Quiet
  <2>1. /\ calls' = <<>> /\ failing' = TRUE /\ undos' = undos /\ announced' = announced
        /\ living' = living /\ (void' <=> void)
    BY <1>2, <1>3, <1>4, <1>1 DEF Goes, Quiet, Frame
  <2>2. Recorded' /\ Directory'
    BY <1>1, <1>3, <1>4, <2>1, TidyDropped
  <2>3. Back({}) /\ Forth({m})
    BY <1>1, <1>4, PutDir
  <2>4. ASSUME ~void PROVE Safe({})'
    <3>1. Safe(Hand(i))
      BY <2>4
    <3>3. \A d \in living : ~Keeps(m, d, Hand(i))
      BY DEF Keeps, Clearing
    <3>4. Expects' = Expects
      BY <2>1 DEF Expects
    <3> QED BY <2>1, <2>3, <3>1, <3>3, <3>4, SafeKept
  <2> QED BY <1>3, <1>4, <2>1, <2>2, <2>4, Finale
<1>5. CASE Fails /\ (void => void')
  BY <1>2, <1>3, <1>5, FailingSame, Finale
<1> QED BY <1>3, <1>4, <1>5 DEF Does, Breaks

LEMMA ExchangingBackStep ==
  ASSUME NEW n, NEW i, InHandOf(n, i), failing, System, Path \notin pending, void \/ Safe(Hand(i)),
         ExchangingBack(n, i)
  PROVE  FilesInv'
<1>1. /\ Numbers /\ Recorded /\ Directory /\ Shape /\ failing \in BOOLEAN /\ void \in BOOLEAN
      /\ n \in Names /\ Path \in Names /\ n # Path /\ n <= names /\ Path <= names /\ n \in n..(n + 3)
  BY Handy
<1>2. At("exchange") /\ call.a = n /\ call.b = Path /\ Tail(calls) = <<Unlink(n)>>
  BY DEF ExchangingBack, At, call, Call
<1>3. /\ Frame
      /\ Does(dir[n] # None /\ dir[Path] # None, [dir EXCEPT ![Path] = dir[n], ![n] = dir[Path]])
  BY <1>1, <1>2, OnExchange
<1>4. CASE /\ dir[n] # None /\ dir[Path] # None /\ Goes /\ Quiet
           /\ dir' = [dir EXCEPT ![Path] = dir[n], ![n] = dir[Path]]
  <2>1. /\ calls' = <<Unlink(n)>> /\ failing' = TRUE /\ undos' = undos /\ announced' = announced
        /\ living' = living /\ (void' <=> void)
    BY <1>2, <1>3, <1>4, <1>1 DEF Goes, Quiet, Frame
  <2>2. Done(n) /\ Done(Path)
    BY <1>1 DEF ExchangingBack, Done, Directory
  <2>3. Recorded' /\ Directory'
    BY <1>1, <1>3, <1>4, <2>1, <2>2, TidySwapped
  <2>4. Back({}) /\ Forth({}) /\ dir'[n] = dir[Path]
    BY <1>1, <1>4, SwapDir
  <2>5. void' \/ Safe(Hand(i))'
    BY <2>1, <2>4, LikeFacts
  <2>6. Unlinking(n, i, n)'
    BY <2>1, <2>4 DEF Unlinking, ExchangingBack, Is, Hand
  <2>7. calls' # <<>>
    BY <2>1
  <2> QED BY <1>1, <1>3, <1>4, <2>1, <2>3, <2>5, <2>6, <2>7, Cleaning
<1>5. CASE Fails /\ (void => void') /\ void'
  <2>1. Unlinking(n, i, n)'
    BY <1>2, <1>5 DEF Fails, Unlinking
  <2>2. calls' # <<>>
    BY <1>2, <1>5 DEF Fails
  <2> QED BY <1>1, <1>2, <1>3, <1>5, <2>1, <2>2, FailingSame, Cleaning
<1>6. ~void => Caught
  <2> SUFFICES ASSUME ~void PROVE Caught
    OBVIOUS
  <2>1. dir[n] # None /\ dir[n].id < 0
    BY DEF ExchangingBack
  <2>2. dir[n].data = dir[n].id /\ dir[n].id \in Int
    BY <1>1, <2>1 DEF Directory, NodeOK, Shape, Nodes
  <2>3. dir[n].data \in Data(n) /\ Theirs(dir[n].data)
    BY <2>1, <2>2, FilesAssumption DEF Data, Theirs
  <2> QED BY <1>1, <2>3 DEF Caught
<1>7. ~void => dir[n] # None /\ dir[Path] # None
  BY DEF ExchangingBack, Is
<1> QED BY <1>3, <1>4, <1>5, <1>6, <1>7 DEF Does, Breaks

LEMMA LinkingBackStep ==
  ASSUME NEW n, NEW i, InHandOf(n, i), failing, System, Path \notin pending, void \/ Safe(Hand(i)),
         LinkingBack(n, i)
  PROVE  FilesInv'
<1>1. /\ Numbers /\ Recorded /\ Directory /\ Shape /\ failing \in BOOLEAN /\ void \in BOOLEAN
      /\ n \in Names /\ Path \in Names /\ n # Path /\ n <= names /\ Path <= names
  BY Handy
<1>2. At("link") /\ call.a = n /\ call.b = Path /\ Tail(calls) = <<>>
  BY DEF LinkingBack, At, call, Call, Link
<1>3. /\ Frame
      /\ Does(dir[n] # None /\ dir[Path] = None, [dir EXCEPT ![Path] = dir[n], ![n] = None])
  BY <1>1, <1>2, OnRename
<1>4. CASE /\ dir[n] # None /\ dir[Path] = None /\ Goes /\ Quiet
           /\ dir' = [dir EXCEPT ![Path] = dir[n], ![n] = None]
  <2>1. /\ calls' = <<>> /\ failing' = TRUE /\ undos' = undos /\ announced' = announced
        /\ living' = living /\ (void' <=> void)
    BY <1>2, <1>3, <1>4, <1>1 DEF Goes, Quiet, Frame
  <2>2. Done(n)
    BY DEF LinkingBack
  <2>3. Recorded' /\ Directory'
    BY <1>1, <1>3, <1>4, <2>1, <2>2, TidyMoved
  <2>4. Back({}) /\ Forth({})
    BY <1>1, <1>4, MoveDir
  <2>5. void \/ Safe({})
    BY SafeLess
  <2>6. void' \/ Safe({})'
    BY <2>1, <2>4, <2>5, LikeFacts
  <2> QED BY <1>1, <1>3, <1>4, <2>1, <2>3, <2>6, Finale
<1>5. CASE Fails /\ (void => void')
  BY <1>2, <1>3, <1>5, FailingSame, Finale
<1> QED BY <1>3, <1>4, <1>5 DEF Does, Breaks

LEMMA LinkingAsideBackStep ==
  ASSUME NEW n, NEW i, InHandOf(n, i), failing, System, Path \notin pending, void \/ Safe(Hand(i)),
         LinkingAsideBack(n, i)
  PROVE  FilesInv'
<1>1. /\ Numbers /\ Recorded /\ Directory /\ Shape /\ failing \in BOOLEAN /\ void \in BOOLEAN
      /\ n \in Names /\ (n + 1) \in Names /\ Path \in Names /\ n + 1 # Path /\ n + 1 <= names
      /\ Path <= names /\ n \in n..(n + 3) /\ n # n + 1 /\ n # Path
  BY Handy
<1>2. At("link") /\ call.a = n + 1 /\ call.b = Path /\ Tail(calls) = <<Clear(n)>>
  BY DEF LinkingAsideBack, At, call, Call, Link
<1>3. /\ Frame
      /\ Does(dir[n + 1] # None /\ dir[Path] = None, [dir EXCEPT ![Path] = dir[n + 1], ![n + 1] = None])
  BY <1>1, <1>2, OnRename
<1>4. CASE /\ dir[n + 1] # None /\ dir[Path] = None /\ Goes /\ Quiet
           /\ dir' = [dir EXCEPT ![Path] = dir[n + 1], ![n + 1] = None]
  <2>1. /\ calls' = <<Clear(n)>> /\ failing' = TRUE /\ undos' = undos /\ announced' = announced
        /\ living' = living /\ (void' <=> void)
    BY <1>2, <1>3, <1>4, <1>1 DEF Goes, Quiet, Frame
  <2>2. Done(n + 1)
    BY DEF LinkingAsideBack
  <2>3. Recorded' /\ Directory'
    BY <1>1, <1>3, <1>4, <2>1, <2>2, TidyMoved
  <2>4. Back({}) /\ Forth({}) /\ dir'[n] = dir[n]
    BY <1>1, <1>4, MoveDir
  <2>6. void' \/ Safe(Hand(i))'
    BY <2>1, <2>4, LikeFacts
  <2>7. Clearing(n, i, n)' /\ calls' # <<>>
    BY <2>1, <2>4 DEF LinkingAsideBack, Clearing
  <2> QED BY <1>1, <1>3, <1>4, <2>1, <2>3, <2>6, <2>7, Cleaning
<1>5. CASE Fails /\ (void => void')
  <2>1. Clearing(n, i, n)' /\ calls' # <<>>
    BY <1>2, <1>5 DEF Fails, Clearing, LinkingAsideBack
  <2> QED BY <1>1, <1>2, <1>3, <1>5, <2>1, FailingSame, Cleaning
<1> QED BY <1>3, <1>4, <1>5 DEF Does, Breaks

(* A failed action cleans up: nothing that is not its own goes.            *)
LEMMA FailingStep ==
  ASSUME NEW n, NEW i, InHandOf(n, i), Failing(n, i), System
  PROVE  FilesInv'
<1>1. failing /\ Path \notin pending /\ (void \/ Safe(Hand(i)))
  BY DEF Failing
<1>2. \/ \E m \in n..(n + 3) : Unlinking(n, i, m) \/ Clearing(n, i, m)
      \/ ExchangingBack(n, i) \/ LinkingBack(n, i) \/ LinkingAsideBack(n, i)
  BY DEF Failing
<1> QED BY <1>1, <1>2, UnlinkingStep, ClearingStep, ExchangingBackStep, LinkingBackStep,
           LinkingAsideBackStep

-----------------------------------------------------------------------------
(* 8. The action in hand goes on.                                          *)

(* The action goes on with a call that has another after it.               *)
LEMMA Onwards ==
  ASSUME NEW s, IsList(s), NEW k, In(s, k), k < Len(s), calls' = Tail(calls)
  PROVE  In(s, k + 1)' /\ calls' # <<>>
<1>1. k + 1 \in 1..Len(s) /\ calls' = From(s, k + 1)
  BY Stepping
<1>2. PICK S : s \in Seq(S)
  BY DEF IsList
<1>3. k + 1 \in Nat /\ Len(s) \in Nat /\ k + 1 <= Len(s) /\ k + 1 >= 1
  BY <1>1, <1>2
<1>4. Len(SubSeq(s, k + 1, Len(s))) = Len(s) - (k + 1) + 1
  BY <1>1, <1>2, SubSeqProperties
<1>5. PICK t : t = SubSeq(s, k + 1, Len(s))
  OBVIOUS
<1>6. calls' # <<>>
  <2>1. Len(t) > 0 /\ Len(<<>>) = 0
    BY <1>3, <1>4, <1>5
  <2>2. t # <<>>
    BY <2>1
  <2> QED BY <1>1, <1>5, <2>2 DEF From
<1> QED BY <1>1, <1>6 DEF In

(* A call of the list, and what is there after it when it goes well.       *)
Onward(s, k) == /\ In(s, k + 1)' /\ calls' # <<>> /\ failing' = FALSE /\ (void' <=> void)
                /\ Numbers' /\ pending' = pending /\ undos' = undos /\ announced' = announced
                /\ living' = living

(* What the stage after a call has to say.                                 *)
LEMMA OnwardIs ==
  ASSUME NEW n, NEW i, InHandOf(n, i), ~failing, NEW s, IsList(s), NEW k, In(s, k), k < Len(s),
         Frame, Goes, Quiet
  PROVE  Onward(s, k)
<1>1. /\ Numbers /\ Recorded /\ phase = "acting" /\ calls # <<>> /\ failing \in BOOLEAN
  BY Handy DEF InHandOf
<1>2. In(s, k + 1)' /\ calls' # <<>>
  BY Onwards DEF Goes
<1>3. Numbers'
  BY <1>1, <1>2, NumbersKept
<1> QED BY <1>1, <1>2, <1>3 DEF Onward, Goes, Quiet, Frame

(* The stage after a call that leaves the directory as it is.              *)
LEMMA OnwardSame ==
  ASSUME NEW n, NEW i, InHandOf(n, i), ~failing, NEW s, IsList(s), NEW k, In(s, k), k < Len(s),
         Frame, Goes, Quiet, dir' = dir
  PROVE  /\ Onward(s, k) /\ Recorded' /\ Directory' /\ Back({}) /\ Forth({})
         /\ OlderClean(n) => OlderClean(n)'
<1>1. Onward(s, k)
  BY OnwardIs
<1>2. undos' = undos /\ announced' = announced
  BY DEF Quiet
<1>3. Recorded' /\ Directory'
  BY <1>2, Handy, TidySame
<1>4. Back({}) /\ Forth({})
  BY Handy, SameDir
<1> QED BY <1>1, <1>3, <1>4, OlderKept

(* The action goes on with the next call.                                  *)
LEMMA NextCall ==
  ASSUME NEW n, NEW i, InHandOf(n, i), Frame, NEW s, NEW k, Onward(s, k), Recorded', Directory',
         Acting(n, i)', Path \in pending => void \/ Spared'
  PROVE  FilesInv'
<1>1. Numbers' /\ calls' # <<>> /\ pending' = pending /\ (void' <=> void)
  BY DEF Onward
<1> QED BY <1>1, GoesOn

(* What is safe when other undos are announced.                            *)
LEMMA SafeAnnounced ==
  ASSUME NEW R, NEW T, Safe(R), Shape, dir' = dir, living' = living,
         \A x \in Expects' \cup T : x = None \/ x \in Expects \cup R
  PROVE  Safe(T)'
<1>1. ASSUME NEW m \in Names, NEW d, Keeps(m, d, R) PROVE Keeps(m, d, T)'
  <2>1. dir[m] # None /\ dir[m].id \in Int
    BY <1>1 DEF Keeps, Shape, Nodes
  <2>2. dir[m].id # None
    BY <2>1, FilesAssumption
  <2>3. dir[m].id \notin Expects \cup R => dir[m].id \notin Expects' \cup T
    BY <2>2
  <2> QED BY <1>1, <2>3 DEF Keeps
<1>2. \A m \in Names : Data(m)' = Data(m)
  BY DEF Data
<1> QED BY <1>1, <1>2 DEF Safe

(* The stage after an announcement.                                        *)
LEMMA Announcing ==
  ASSUME NEW n, NEW i, InHandOf(n, i), ~failing, NEW s, IsList(s), NEW k, In(s, k), k < Len(s),
         Frame, Goes, dir' = dir, pending' = pending,
         NEW us \in Seq(UndoSet), Len(us) <= 2, Announces(us), \A l \in 1..Len(us) : UndoOK(us[l])
  PROVE  /\ In(s, k + 1)' /\ calls' # <<>> /\ failing' = FALSE /\ (void' <=> void)
         /\ Numbers' /\ Recorded' /\ Directory' /\ Shape
         /\ OlderClean(n) => OlderClean(n)'
         /\ \A x : Unused(x) => Unused(x)'
         /\ \A x, kinds : Kinds(x, kinds) => Kinds(x, kinds)'
         /\ OwnClean(i) => OwnClean(i)'
         /\ living' = living
         /\ Expects' \subseteq Expects \cup ExpectsOf(us)
         /\ \A x \in Expects' : x = None \/ x < i \/ x \in ExpectsOf(us)
<1>1. /\ Numbers /\ Recorded /\ Directory /\ Shape /\ phase = "acting" /\ calls # <<>>
      /\ failing \in BOOLEAN /\ i = new
  BY Handy DEF InHandOf
<1>2. In(s, k + 1)' /\ calls' # <<>>
  BY Onwards DEF Goes
<1>3. /\ Numbers' /\ Recorded' /\ Directory'
      /\ Expects' \subseteq Expects \cup ExpectsOf(us)
      /\ \A x \in Expects' : x = None \/ x < new \/ x \in ExpectsOf(us)
  BY <1>1, <1>2, TidyAnnounced
<1>4. /\ failing' = FALSE /\ (void' <=> void) /\ living' = living
  BY <1>1 DEF Goes, Frame
<1>5. Back({})
  BY <1>1, SameDir
<1>6. OlderClean(n) => OlderClean(n)'
  BY OlderKept
<1>7. /\ \A x : Unused(x) => Unused(x)'
      /\ \A x, kinds : Kinds(x, kinds) => Kinds(x, kinds)'
      /\ OwnClean(i) => OwnClean(i)'
  BY <1>5, UnusedKept, KindsKept, OwnCleanKept
<1> QED BY <1>1, <1>2, <1>3, <1>4, <1>6, <1>7

(* create_dir, create_dirs and put_file where nothing is: each of the      *)
(* seven calls.                                                            *)
LEMMA CreatingStep ==
  ASSUME NEW n, NEW i, InHandOf(n, i), ~failing, Path \notin pending, System,
         NEW kind \in {"file", "dir", "tree"}, NEW k \in 1..7, Creating(n, i, kind, k)
  PROVE  FilesInv'
<1>1. /\ Numbers /\ Recorded /\ Directory /\ Shape /\ failing \in BOOLEAN /\ void \in BOOLEAN
      /\ n \in Names /\ Path \in Names /\ n # Path /\ n <= names /\ n \in n..(n + 3) /\ n \in Nat
      /\ n > 0 /\ Path = 0 /\ i \in Nat /\ i > 0 /\ i <= ids /\ i + 1 = ids
      /\ \A m \in 1..(n - 1) : m \in Names /\ m # n /\ m # Path
      /\ \A m \in (n + 1)..(n + 3) : m \in Names /\ m # n /\ m # Path
      /\ phase = "acting" /\ calls # <<>> /\ n = base /\ i = new
  <2>1. \A m \in (n + 1)..(n + 3) : m = n + 1 \/ m = n + 2 \/ m = n + 3
    BY Handy
  <2> QED BY <2>1, Handy DEF InHandOf
<1>0. Shape /\ n \in Names /\ Path \in Names /\ n # Path /\ Path <= names
  BY <1>1, Ints
<1>2. PICK drop : drop = IF kind = "tree" THEN <<Clear(n)>> ELSE <<Unlink(n)>>
  OBVIOUS
<1>3. PICK u : u = Undo(IF kind = "tree" THEN "removetree" ELSE "remove", Path, None, i)
  OBVIOUS
<1>4. PICK s : s = create(kind, n, i)
  OBVIOUS
<1>5. s = <<pin(None), write_new(n, Node(i, i, kind, "mix")), finish_node(n, drop),
          Announce(<<u>>, drop), Link(n, Path, drop), Sync, End>>
  BY <1>2, <1>3, <1>4 DEF create
<1>6. /\ IsList(s) /\ Len(s) = 7 /\ s[1] = pin(None) /\ s[2] = write_new(n, Node(i, i, kind, "mix"))
      /\ s[3] = finish_node(n, drop) /\ s[4] = Announce(<<u>>, drop) /\ s[5] = Link(n, Path, drop)
      /\ s[6] = Sync /\ s[7] = End
  BY <1>5, List7
<1>7. In(s, k) /\ call = s[k]
  BY <1>4, <1>6, Stepping DEF Creating
<1>8. ASSUME Frame, Fails, void => void', call.else = <<>> PROVE FilesInv'
  <2>1. void \/ Safe(Hand(i))
    BY DEF Creating
  <2> QED BY <1>1, <1>8, <2>1, GivesUp
<1>9. ASSUME Frame, Fails, void => void', call.else = drop, k \in 3..5 PROVE FilesInv'
  <2>1. dir[n].id \in Hand(i) /\ dir[n].kind = kind
    BY <1>1, <1>9 DEF Creating, Is, Hand, Kinds
  <2>2. void \/ Safe(Hand(i))
    BY DEF Creating
  <2>3. CASE kind = "tree"
    BY <1>1, <1>2, <1>9, <2>1, <2>2, <2>3, Clears
  <2>4. CASE kind # "tree"
    BY <1>1, <1>2, <1>9, <2>1, <2>2, <2>4, Unlinks
  <2> QED BY <2>3, <2>4
<1>15. ASSUME Frame, NEW l, Onward(s, l), Recorded', Directory', NEW j \in 1..7, Creating(n, i, kind, j)'
      PROVE  FilesInv'
  <2>1. Path \notin pending' /\ failing' = FALSE
    BY <1>15 DEF Onward
  <2>2. Acting(n, i)'
    BY <1>15, <2>1 DEF Acting
  <2> QED BY <1>15, <2>2, NextCall
<1>10. CASE k = 1
  <2>0. IsList(s) /\ In(s, 1) /\ 1 < Len(s)
    BY <1>6, <1>7, <1>10
  <2>1. At("check") /\ call.a = None /\ call.else = <<>>
    BY <1>1, <1>6, <1>7, <1>10 DEF At, pin, Call
  <2>2. Frame /\ Does(Id(Path) = None, dir)
    BY <1>1, <2>1, OnCheck
  <2>3. CASE Goes /\ dir' = dir /\ Quiet
    <3>1. /\ Onward(s, 1) /\ Recorded' /\ Directory' /\ Back({}) /\ Forth({})
          /\ OlderClean(n) => OlderClean(n)'
      BY <2>0, <2>2, <2>3, OnwardSame
    <3>2. Creating(n, i, kind, 2)'
      BY <1>4, <1>10, <2>3, <3>1, LikeFacts DEF Creating, Onward, Empty
    <3> QED BY <1>15, <2>2, <3>1, <3>2
  <2> QED BY <1>8, <2>1, <2>2, <2>3 DEF Does, Breaks
<1>20. CASE k = 2
  <2>0. IsList(s) /\ In(s, 2) /\ 2 < Len(s)
    BY <1>6, <1>7, <1>20
  <2>1. At("make") /\ call.a = n /\ call.b = Node(i, i, kind, "mix") /\ call.else = <<>>
    BY <1>1, <1>6, <1>7, <1>20 DEF At, write_new, Call
  <2>2. Frame /\ Does(TRUE, [dir EXCEPT ![n] = [Node(i, i, kind, "mix") EXCEPT !.done = FALSE]])
    BY <1>1, <2>1, OnMake
  <2>3. CASE Goes /\ dir' = [dir EXCEPT ![n] = [Node(i, i, kind, "mix") EXCEPT !.done = FALSE]] /\ Quiet
    <3>0. dir[n] = None /\ announced = 0 /\ Unused(i)
      BY <1>20 DEF Creating
    <3>1. Onward(s, 2)
      BY <2>0, <2>2, <2>3, OnwardIs
    <3>2. /\ Recorded' /\ Directory' /\ Back({n}) /\ Forth({})
          /\ dir'[n] # None /\ dir'[n].id = i /\ dir'[n].data = i /\ dir'[n].kind = kind
          /\ dir'[n].inside = None
          /\ \A m \in Names : m # n => dir'[m] = dir[m]
      BY <1>1, <2>2, <2>3, <3>0, TidyMade DEF Quiet
    <3>3. Kinds(i, {kind})'
      BY <3>0, <3>2, KindsNew
    <3>4. Safe(Hand(i)) => Safe(Hand(i))'
      <4>1. living' = living /\ Expects' = Expects
        BY <3>1 DEF Onward, Expects
      <4>2. \A d \in Data(n)' : ~Theirs(d)
        BY <1>1, <3>2 DEF Data, Theirs
      <4> QED BY <3>2, <4>1, <4>2, SafeKept
    <3>5. OlderClean(n) => OlderClean(n)'
      BY <1>1, <3>2, OlderKept
    <3>6. Creating(n, i, kind, 3)'
      BY <1>1, <1>4, <1>20, <3>0, <3>1, <3>2, <3>3, <3>4, <3>5 DEF Creating, Onward, Empty, Is
    <3> QED BY <1>15, <2>2, <3>1, <3>2, <3>6
  <2> QED BY <1>8, <2>1, <2>2, <2>3 DEF Does, Breaks
<1>30. CASE k = 3
  <2>0. IsList(s) /\ In(s, 3) /\ 3 < Len(s)
    BY <1>6, <1>7, <1>30
  <2>1. At("finish") /\ call.a = n /\ call.else = drop
    BY <1>1, <1>6, <1>7, <1>30 DEF At, finish_node, Call
  <2>2. /\ Frame
        /\ Does(dir[n] # None, [dir EXCEPT ![n] = IF @ = None THEN None ELSE [@ EXCEPT !.done = TRUE]])
    BY <1>1, <2>1, OnFinish
  <2>3. CASE /\ Goes /\ Quiet
             /\ dir' = [dir EXCEPT ![n] = IF @ = None THEN None ELSE [@ EXCEPT !.done = TRUE]]
    <3>0. dir[n] # None /\ dir[n].id = i /\ announced = 0 /\ Kinds(i, {kind})
      BY <1>30 DEF Creating, Is
    <3>1. Onward(s, 3)
      BY <2>0, <2>2, <2>3, OnwardIs
    <3>2. /\ Recorded' /\ Directory' /\ Back({}) /\ Forth({})
          /\ dir'[n] # None /\ Like(dir'[n], dir[n]) /\ dir'[n].done
          /\ \A m \in Names : m # n => dir'[m] = dir[m]
      BY <1>1, <2>2, <2>3, <3>0, TidyFinished DEF Quiet
    <3>3. Kinds(i, {kind})' /\ (Safe(Hand(i)) => Safe(Hand(i))')
      BY <3>0, <3>1, <3>2, LikeFacts DEF Onward
    <3>5. OlderClean(n) => OlderClean(n)'
      BY <1>1, <3>2, OlderKept
    <3>6. Creating(n, i, kind, 4)'
      BY <1>1, <1>4, <1>30, <3>0, <3>1, <3>2, <3>3, <3>5 DEF Creating, Onward, Empty, Is, Like
    <3> QED BY <1>15, <2>2, <3>1, <3>2, <3>6
  <2> QED BY <1>9, <1>30, <2>1, <2>2, <2>3 DEF Does, Breaks
<1>40. CASE k = 4
  <2>0. IsList(s) /\ In(s, 4) /\ 4 < Len(s)
    BY <1>6, <1>7, <1>40
  <2>1. At("announce") /\ call.a = <<u>> /\ call.else = drop
    BY <1>1, <1>6, <1>7, <1>40 DEF At, Announce, Call
  <2>2. /\ Frame
        /\ (Goes /\ dir' = dir /\ pending' = pending /\ Announces(<<u>>)) \/ Breaks
    BY <1>1, <2>1, OnRecord DEF Announces
  <2>3. CASE Goes /\ dir' = dir /\ pending' = pending /\ Announces(<<u>>)
    <3>0. Is(n, i) /\ dir[n].done /\ Kinds(i, {kind})
      BY <1>40 DEF Creating
    <3>1. PICK us : us = <<u>>
      OBVIOUS
    <3>2. u \in UndoSet
      BY <1>1, <1>3 DEF UndoSet, Undo
    <3>3. us \in Seq(UndoSet) /\ Len(us) = 1 /\ us[1] = u /\ Len(us) <= 2 /\ Announces(us)
      BY <2>3, <3>1, <3>2
    <3>4. UndoOK(u)
      <4>1. u.at = 0 /\ u.expect = i /\ u.expect # None /\ u.expect \in 1..ids
        BY <1>1, <1>3, FilesAssumption DEF Undo
      <4>2. u.op = IF kind = "tree" THEN "removetree" ELSE "remove"
        BY <1>3 DEF Undo
      <4>3. kind = "tree" => Kinds(i, {"file", "tree"})
        BY <3>0 DEF Kinds
      <4>4. Done(Path) /\ 0 \in 0..names
        BY <1>1, Ints DEF Directory
      <4> QED BY <1>1, <4>1, <4>2, <4>3, <4>4 DEF UndoOK, IdOps
    <3>5. \A l \in 1..Len(us) : UndoOK(us[l])
      BY <3>3, <3>4
    <3>6. ExpectsOf(us) \subseteq Hand(i)
      BY <1>3, <3>3 DEF ExpectsOf, Hand, Undo
    <3>7. /\ In(s, 4 + 1)' /\ calls' # <<>> /\ failing' = FALSE /\ (void' <=> void)
          /\ Numbers' /\ Recorded' /\ Directory' /\ Shape
          /\ OlderClean(n) => OlderClean(n)'
          /\ \A x : Unused(x) => Unused(x)'
          /\ \A x, kinds : Kinds(x, kinds) => Kinds(x, kinds)'
          /\ OwnClean(i) => OwnClean(i)'
          /\ living' = living
          /\ Expects' \subseteq Expects \cup ExpectsOf(us)
      <4>1. Frame /\ Goes /\ dir' = dir /\ pending' = pending
        BY <2>2, <2>3
      <4>2. us \in Seq(UndoSet) /\ Len(us) <= 2 /\ Announces(us)
        BY <3>3
      <4> QED BY <2>0, <4>1, <4>2, <3>5, Announcing
    <3>8. Safe(Hand(i)) => Safe(Hand(i))'
      BY <1>1, <2>3, <3>6, <3>7, SafeAnnounced
    <3>9. Creating(n, i, kind, 5)'
      BY <1>4, <1>40, <2>3, <3>0, <3>7, <3>8 DEF Creating, Empty, Is
    <3>10. Acting(n, i)'
      BY <2>3, <3>7, <3>9 DEF Acting
    <3> QED BY <2>2, <2>3, <3>7, <3>10, GoesOn
  <2> QED BY <1>9, <1>40, <2>1, <2>2, <2>3 DEF Breaks
<1>50. CASE k = 5
  <2>0. IsList(s) /\ In(s, 5) /\ 5 < Len(s)
    BY <1>6, <1>7, <1>50
  <2>1. At("link") /\ call.a = n /\ call.b = Path /\ call.else = drop
    BY <1>1, <1>6, <1>7, <1>50 DEF At, Link, Call
  <2>2. /\ Frame
        /\ Does(dir[n] # None /\ dir[Path] = None, [dir EXCEPT ![Path] = dir[n], ![n] = None])
    BY <1>1, <2>1, OnRename
  <2>3. CASE /\ dir[Path] = None /\ Goes /\ Quiet
             /\ dir' = [dir EXCEPT ![Path] = dir[n], ![n] = None]
    <3>0. Done(n) /\ Kinds(i, {kind})
      BY <1>50 DEF Creating, Is, Done
    <3>1. Onward(s, 5)
      BY <2>0, <2>2, <2>3, OnwardIs
    <3>2. Recorded' /\ Directory'
      BY <1>0, <1>1, <2>2, <2>3, <3>0, TidyMoved DEF Quiet
    <3>3. /\ Back({}) /\ Forth({}) /\ dir'[n] = None
          /\ \A m \in Names : m # n /\ m # Path => dir'[m] = dir[m]
      BY <1>0, <2>3, MoveDir
    <3>4. Kinds(i, {kind})' /\ (Safe(Hand(i)) => Safe(Hand(i))')
      BY <3>0, <3>1, <3>3, LikeFacts DEF Onward
    <3>5. OlderClean(n) => OlderClean(n)'
      BY <1>1, <3>3, OlderKept
    <3>6. Creating(n, i, kind, 6)'
      BY <1>1, <1>4, <1>50, <3>1, <3>3, <3>4, <3>5 DEF Creating, Onward, Empty
    <3> QED BY <1>15, <2>2, <3>1, <3>2, <3>6
  <2> QED BY <1>9, <1>50, <2>1, <2>2, <2>3 DEF Does, Breaks
<1>60. CASE k = 6
  <2>0. IsList(s) /\ In(s, 6) /\ 6 < Len(s)
    BY <1>6, <1>7, <1>60
  <2>1. At("sync") /\ call.else = <<>>
    BY <1>1, <1>6, <1>7, <1>60 DEF At, Sync, Call
  <2>2. Frame /\ Does(TRUE, dir)
    BY <1>1, <2>1, OnSyncDir
  <2>3. CASE Goes /\ dir' = dir /\ Quiet
    <3>1. /\ Onward(s, 6) /\ Recorded' /\ Directory' /\ Back({}) /\ Forth({})
          /\ OlderClean(n) => OlderClean(n)'
      BY <2>0, <2>2, <2>3, OnwardSame
    <3>2. Creating(n, i, kind, 7)'
      BY <1>4, <1>60, <2>3, <3>1, LikeFacts DEF Creating, Onward, Empty
    <3> QED BY <1>15, <2>2, <3>1, <3>2
  <2> QED BY <1>8, <2>1, <2>2, <2>3 DEF Does, Breaks
<1>70. CASE k = 7
  BY <1>1, <1>6, <1>7, <1>70, OnEnd DEF At, End, Call
<1> QED BY <1>10, <1>20, <1>30, <1>40, <1>50, <1>60, <1>70

(* Other calls that leave the directory as it is.                          *)
LEMMA HoldsCall ==
  ASSUME System, At("holds"), failing \in BOOLEAN, void \in BOOLEAN
  PROVE  /\ Frame
         /\ \/ Id(call.a) = call.b /\ Goes /\ dir' = dir /\ Quiet
            \/ Id(call.a) # call.b /\ Fails /\ (void' <=> void)
<1>1. Holds
  BY DEF System, At, Check, Make, Finish, Copy, Rename, Exchange, Away, Doom, Holds, UnlinkNode,
     RemoveTree, InPlace, RemoveDir, Open, Chmod, SyncDir, Record, Pending, Fault
<1>3. Changes(Id(call.a) = call.b, dir)
  BY <1>1 DEF Holds
<1> QED BY <1>3 DEF Changes, Next_, Frame, Goes, Fails, Quiet, kept, history

(* A name is put on the list of what the commit deletes.                   *)
LEMMA PendCall ==
  ASSUME NEW n, NEW i, InHandOf(n, i), ~failing, NEW s, IsList(s), NEW k, In(s, k), k < Len(s),
         System, At("pend")
  PROVE  /\ Frame /\ In(s, k + 1)' /\ calls' # <<>> /\ failing' = FALSE /\ (void' <=> void)
         /\ Numbers' /\ Recorded' /\ Directory' /\ dir' = dir /\ undos' = undos
         /\ announced' = announced /\ living' = living /\ pending' = pending \cup {call.a}
         /\ Back({}) /\ Forth({}) /\ (OlderClean(n) => OlderClean(n)')
<1>1. /\ Numbers /\ Recorded /\ Directory /\ Shape /\ phase = "acting" /\ calls # <<>>
      /\ failing \in BOOLEAN /\ void \in BOOLEAN
  BY Handy DEF InHandOf
<1>2. /\ Frame /\ Goes /\ dir' = dir /\ undos' = undos /\ announced' = announced
      /\ pending' = pending \cup {call.a}
  BY <1>1, OnPending DEF At
<1>3. In(s, k + 1)' /\ calls' # <<>>
  BY <1>2, Onwards DEF Goes
<1>4. Older'
  BY <1>1, <1>2, <1>3 DEF Numbers, Frame, Older, InHand, base, new, Earlier
<1>5. Numbers'
  BY <1>1, <1>2, <1>4 DEF Numbers, Frame
<1>6. Recorded' /\ Directory'
  BY <1>1, <1>2, TidySame
<1>7. Back({}) /\ Forth({})
  BY <1>1, <1>2, SameDir
<1> QED BY <1>1, <1>2, <1>3, <1>5, <1>6, <1>7, OlderKept DEF Goes, Frame

(* What the action announces is on record, or the announcement failed.     *)
OnRecordIs(n, i, s, k, us) ==
    /\ In(s, k + 1)' /\ calls' # <<>> /\ failing' = FALSE /\ (void' <=> void)
    /\ Numbers' /\ Recorded' /\ Directory'
    /\ dir' = dir /\ pending' = pending /\ living' = living
    /\ OlderClean(n) => OlderClean(n)'
    /\ \A x : Unused(x) => Unused(x)'
    /\ \A x, kinds : Kinds(x, kinds) => Kinds(x, kinds)'
    /\ OwnClean(i) => OwnClean(i)'
    /\ Expects' \subseteq Expects \cup ExpectsOf(us)
    /\ \A x \in Expects' : x = None \/ x < i \/ x \in ExpectsOf(us)

(* An announcement is made, or fails and leaves the record alone.          *)
LEMMA AnnounceCall ==
  ASSUME NEW n, NEW i, InHandOf(n, i), ~failing, NEW s, IsList(s), NEW k, In(s, k), k < Len(s),
         System, At("announce"), NEW us \in Seq(UndoSet), call.a = us, Len(us) <= 2,
         \A l \in 1..Len(us) : UndoOK(us[l])
  PROVE  Frame /\ (OnRecordIs(n, i, s, k, us) \/ Breaks)
<1>1. phase = "acting" /\ failing \in BOOLEAN /\ void \in BOOLEAN
  BY Handy DEF InHandOf
<1>2. Frame /\ ((Goes /\ dir' = dir /\ pending' = pending /\ Announces(us)) \/ Breaks)
  BY <1>1, OnRecord DEF Announces
<1>3. CASE Goes /\ dir' = dir /\ pending' = pending /\ Announces(us)
  <2>1. OnRecordIs(n, i, s, k, us)
    BY <1>2, <1>3, Announcing DEF OnRecordIs
  <2> QED BY <1>2, <2>1
<1> QED BY <1>2, <1>3

(* The undos that are announced.                                           *)
LEMMA RestoreIs ==
  ASSUME Numbers, NEW from \in 1..names, Done(from), NEW x \in (1..ids) \cup {None},
         x # None => Kinds(x, {"file", "tree"})
  PROVE  \E us : /\ us = <<Restore(from, x)>> /\ us \in Seq(UndoSet) /\ Len(us) = 1 /\ Len(us) <= 2
                 /\ \A l \in 1..Len(us) : UndoOK(us[l])
                 /\ ExpectsOf(us) = {x}
<1>0. names \in Nat /\ ids \in Nat /\ Path = 0 /\ 0 \in Int
  BY Ints
<1>1. PICK u : u = Restore(from, x)
  OBVIOUS
<1>2. u.op = "restore" /\ u.at = 0 /\ u.from = from /\ u.expect = x
  BY <1>0, <1>1 DEF Restore, Undo
<1>3. u \in UndoSet
  BY <1>0, <1>1 DEF Restore, Undo, UndoSet
<1>4. UndoOK(u)
  BY <1>0, <1>2 DEF UndoOK, IdOps
<1>5. PICK us : us = <<u>>
  OBVIOUS
<1>6. us \in Seq(UndoSet) /\ Len(us) = 1 /\ us[1] = u /\ Len(us) <= 2
  BY <1>3, <1>5
<1>7. \A l \in 1..Len(us) : UndoOK(us[l])
  BY <1>4, <1>6
<1>8. ExpectsOf(us) = {x}
  BY <1>2, <1>6 DEF ExpectsOf, IdOps
<1> QED BY <1>1, <1>5, <1>6, <1>7, <1>8

(* The undo that removes a tree the action made.                           *)
LEMMA RemoveTreeIs ==
  ASSUME Numbers, NEW a \in 0..names, Done(a), NEW x \in 1..ids, Kinds(x, {"file", "tree"})
  PROVE  \E us : /\ us = <<RemoveCreatedTree(a, x)>> /\ us \in Seq(UndoSet) /\ Len(us) = 1 /\ Len(us) <= 2
                 /\ \A l \in 1..Len(us) : UndoOK(us[l])
                 /\ ExpectsOf(us) = {x}
<1>0. names \in Nat /\ ids \in Nat /\ Path = 0 /\ 0 \in Int /\ x # None
  BY Ints, FilesAssumption
<1>1. PICK u : u = RemoveCreatedTree(a, x)
  OBVIOUS
<1>2. u.op = "removetree" /\ u.at = a /\ u.expect = x
  BY <1>0, <1>1 DEF RemoveCreatedTree, Undo
<1>3. u \in UndoSet
  BY <1>0, <1>1 DEF RemoveCreatedTree, Undo, UndoSet
<1>4. UndoOK(u)
  BY <1>0, <1>2 DEF UndoOK, IdOps
<1>5. PICK us : us = <<u>>
  OBVIOUS
<1>6. us \in Seq(UndoSet) /\ Len(us) = 1 /\ us[1] = u /\ Len(us) <= 2
  BY <1>3, <1>5
<1>7. \A l \in 1..Len(us) : UndoOK(us[l])
  BY <1>4, <1>6
<1>8. ExpectsOf(us) = {x}
  BY <1>2, <1>6 DEF ExpectsOf, IdOps
<1> QED BY <1>1, <1>5, <1>6, <1>7, <1>8

(* The lists of the ways by copy.                                          *)
AsideByCopyCalls(s, staged, to, x, old) == s = set_aside_by_copy(staged, to, x, old)
ReclaimByCopyCalls(s, n, staged, to, x, old) == s = reclaim_by_copy(n, staged, to, x, old)
ByCopyCalls(b, staged, to, x, old) == b = by_copy(staged, to, x, old)

(* The calls of by_copy, one by one.                                       *)
LEMMA ByCopyList ==
  ASSUME NEW b, NEW staged, NEW to, NEW x, NEW old, ByCopyCalls(b, staged, to, x, old)
  PROVE  /\ IsList(b) /\ Len(b) = 8
         /\ b[1] = Call("copy", staged, x, <<Clear(staged)>>)
         /\ b[2] = Announce(<<RemoveCreatedTree(to, x)>>, <<Clear(staged)>>)
         /\ b[3] = Link(staged, to, <<Clear(staged)>>)
         /\ b[4] = Sync
         /\ b[5] = Announce(<<Restore(to, None)>>, <<>>)
         /\ b[6] = Call("inplace", old, None, <<>>)
         /\ b[7] = Call("rmdir", Path, None, <<>>)
         /\ b[8] = Sync
  BY List8 DEF ByCopyCalls, by_copy

(* The calls of set_aside_by_copy, one by one.                             *)
LEMMA AsideByCopyList ==
  ASSUME NEW s, NEW staged, NEW to, NEW x, NEW old, AsideByCopyCalls(s, staged, to, x, old)
  PROVE  /\ IsList(s) /\ Len(s) = 10
         /\ s[1] = Call("copy", staged, x, <<Clear(staged)>>)
         /\ s[2] = Announce(<<RemoveCreatedTree(to, x)>>, <<Clear(staged)>>)
         /\ s[3] = Link(staged, to, <<Clear(staged)>>)
         /\ s[4] = Sync
         /\ s[5] = Announce(<<Restore(to, None)>>, <<>>)
         /\ s[6] = Call("inplace", old, None, <<>>)
         /\ s[7] = Call("rmdir", Path, None, <<>>)
         /\ s[8] = Sync
         /\ s[9] = Pend(to)
         /\ s[10] = End
<1>1. PICK b : ByCopyCalls(b, staged, to, x, old)
  BY DEF ByCopyCalls
<1>2. PICK t : t = <<Pend(to), End>>
  OBVIOUS
<1>3. IsList(t) /\ Len(t) = 2 /\ t[1] = Pend(to) /\ t[2] = End
  BY <1>2, List2
<1>4. Joined(s, b, t)
  BY <1>1, <1>2 DEF Joined, AsideByCopyCalls, set_aside_by_copy, ByCopyCalls
<1>5. /\ IsList(b) /\ Len(b) = 8
      /\ b[1] = Call("copy", staged, x, <<Clear(staged)>>)
      /\ b[2] = Announce(<<RemoveCreatedTree(to, x)>>, <<Clear(staged)>>)
      /\ b[3] = Link(staged, to, <<Clear(staged)>>)
      /\ b[4] = Sync
      /\ b[5] = Announce(<<Restore(to, None)>>, <<>>)
      /\ b[6] = Call("inplace", old, None, <<>>)
      /\ b[7] = Call("rmdir", Path, None, <<>>)
      /\ b[8] = Sync
  BY <1>1, ByCopyList
<1>6. /\ IsList(s) /\ Len(s) = 10
      /\ s[1] = b[1] /\ s[2] = b[2] /\ s[3] = b[3] /\ s[4] = b[4] /\ s[5] = b[5] /\ s[6] = b[6]
      /\ s[7] = b[7] /\ s[8] = b[8] /\ s[9] = t[1] /\ s[10] = t[2]
  BY <1>3, <1>4, <1>5, Joined82
<1> QED BY <1>3, <1>5, <1>6, Zenon

(* The calls of reclaim_by_copy, one by one.                               *)
LEMMA ReclaimByCopyList ==
  ASSUME NEW s, NEW n, NEW staged, NEW to, NEW x, NEW old, ReclaimByCopyCalls(s, n, staged, to, x, old)
  PROVE  /\ IsList(s) /\ Len(s) = 13
         /\ s[1] = Clear(n)
         /\ s[2] = Call("copy", staged, x, <<Clear(staged)>>)
         /\ s[3] = Announce(<<RemoveCreatedTree(to, x)>>, <<Clear(staged)>>)
         /\ s[4] = Link(staged, to, <<Clear(staged)>>)
         /\ s[5] = Sync
         /\ s[6] = Announce(<<Restore(to, None)>>, <<>>)
         /\ s[7] = Call("inplace", old, None, <<>>)
         /\ s[8] = Call("rmdir", Path, None, <<>>)
         /\ s[9] = Sync
         /\ s[10] = Link(to, Path, <<>>)
         /\ s[11] = Sync
         /\ s[12] = Announce(<<>>, <<>>)
         /\ s[13] = End
<1>1. PICK b : ByCopyCalls(b, staged, to, x, old)
  BY DEF ByCopyCalls
<1>2. PICK t : t = <<Link(to, Path, <<>>), Sync, Announce(<<>>, <<>>), End>>
  OBVIOUS
<1>3. /\ IsList(t) /\ Len(t) = 4 /\ t[1] = Link(to, Path, <<>>) /\ t[2] = Sync
      /\ t[3] = Announce(<<>>, <<>>) /\ t[4] = End
  BY <1>2, List4
<1>4. PICK c : c = <<Clear(n)>>
  OBVIOUS
<1>5. IsList(c) /\ Len(c) = 1 /\ c[1] = Clear(n)
  BY <1>4, List1
<1>6. PICK d : Joined(d, c, b)
  BY DEF Joined
<1>7. Joined(s, d, t)
  BY <1>1, <1>2, <1>4, <1>6 DEF Joined, ReclaimByCopyCalls, reclaim_by_copy, ByCopyCalls
<1>8. /\ IsList(b) /\ Len(b) = 8
      /\ b[1] = Call("copy", staged, x, <<Clear(staged)>>)
      /\ b[2] = Announce(<<RemoveCreatedTree(to, x)>>, <<Clear(staged)>>)
      /\ b[3] = Link(staged, to, <<Clear(staged)>>)
      /\ b[4] = Sync
      /\ b[5] = Announce(<<Restore(to, None)>>, <<>>)
      /\ b[6] = Call("inplace", old, None, <<>>)
      /\ b[7] = Call("rmdir", Path, None, <<>>)
      /\ b[8] = Sync
  BY <1>1, ByCopyList
<1>9. /\ IsList(s) /\ Len(s) = 13
      /\ s[1] = c[1] /\ s[2] = b[1] /\ s[3] = b[2] /\ s[4] = b[3] /\ s[5] = b[4]
      /\ s[6] = b[5] /\ s[7] = b[6] /\ s[8] = b[7] /\ s[9] = b[8]
      /\ s[10] = t[1] /\ s[11] = t[2] /\ s[12] = t[3] /\ s[13] = t[4]
  BY <1>3, <1>5, <1>6, <1>7, <1>8, Joined184
<1> QED BY <1>3, <1>5, <1>8, <1>9, Zenon

(* The action goes over to another list.                                   *)
LEMMA AnotherList ==
  ASSUME NEW n, NEW i, InHandOf(n, i), ~failing, NEW s, IsList(s), Len(s) > 0, calls' = s,
         Frame, Stays
  PROVE  /\ In(s, 1)' /\ calls' # <<>> /\ failing' = FALSE /\ (void' <=> void) /\ dir' = dir
         /\ Numbers' /\ Recorded' /\ Directory' /\ pending' = pending /\ undos' = undos
         /\ announced' = announced /\ living' = living
         /\ Back({}) /\ Forth({}) /\ (OlderClean(n) => OlderClean(n)')
<1>1. /\ Numbers /\ Recorded /\ Directory /\ Shape /\ phase = "acting" /\ calls # <<>>
      /\ failing \in BOOLEAN /\ void \in BOOLEAN
  BY Handy DEF InHandOf
<1>2. /\ failing' = FALSE /\ (void' <=> void) /\ dir' = dir /\ Quiet /\ pending' = pending
      /\ undos' = undos /\ announced' = announced /\ living' = living
  BY <1>1 DEF Stays, Quiet, Frame
<1>3. In(s, 1)'
  BY Starting DEF In
<1>4. calls' # <<>>
  <2>1. Len(<<>>) = 0
    OBVIOUS
  <2>2. s # <<>>
    BY <2>1
  <2> QED BY <2>2
<1>5. Numbers'
  BY <1>1, <1>2, <1>4, NumbersKept
<1>6. Recorded' /\ Directory'
  BY <1>1, <1>2, TidySame
<1>7. Back({}) /\ Forth({})
  BY <1>1, <1>2, SameDir
<1> QED BY <1>2, <1>3, <1>4, <1>5, <1>6, <1>7, OlderKept

(* The two undos of reclaim, in their order.                               *)
LEMMA TwoUndos ==
  ASSUME Numbers, Done(Path), NEW from \in 1..names, Done(from), NEW x \in 1..ids,
         Kinds(x, {"file", "tree"})
  PROVE  \E us : /\ us = <<RemoveCreatedTree(Path, x), Restore(from, None)>>
                 /\ us \in Seq(UndoSet) /\ Len(us) = 2 /\ Len(us) <= 2
                 /\ \A l \in 1..Len(us) : UndoOK(us[l])
                 /\ ExpectsOf(us) = {x, None}
<1>0. names \in Nat /\ ids \in Nat /\ Path = 0 /\ 0 \in Int /\ x # None /\ 0 \in 0..names
  BY Ints, FilesAssumption
<1>1. PICK u : u = RemoveCreatedTree(Path, x)
  OBVIOUS
<1>2. PICK v : v = Restore(from, None)
  OBVIOUS
<1>3. u.op = "removetree" /\ u.at = 0 /\ u.expect = x
  BY <1>0, <1>1 DEF RemoveCreatedTree, Undo
<1>4. v.op = "restore" /\ v.at = 0 /\ v.from = from /\ v.expect = None
  BY <1>0, <1>2 DEF Restore, Undo
<1>5. u \in UndoSet /\ v \in UndoSet
  BY <1>0, <1>1, <1>2 DEF RemoveCreatedTree, Restore, Undo, UndoSet
<1>6. UndoOK(u)
  BY <1>0, <1>3 DEF UndoOK, IdOps
<1>7. UndoOK(v)
  BY <1>0, <1>4 DEF UndoOK, IdOps
<1>8. PICK us : us = <<u, v>>
  OBVIOUS
<1>9. us \in Seq(UndoSet) /\ Len(us) = 2 /\ us[1] = u /\ us[2] = v /\ Len(us) <= 2
  BY <1>5, <1>8
<1>10. \A l \in 1..Len(us) : UndoOK(us[l])
  <2>1. \A l \in 1..2 : l = 1 \/ l = 2
    OBVIOUS
  <2> QED BY <1>6, <1>7, <1>9, <2>1
<1>11. ExpectsOf(us) = {x, None}
  <2>1. {l \in 1..Len(us) : us[l].op \in IdOps} = {1, 2}
    BY <1>3, <1>4, <1>9 DEF IdOps
  <2> QED BY <1>3, <1>4, <1>9, <2>1 DEF ExpectsOf
<1> QED BY <1>1, <1>2, <1>8, <1>9, <1>10, <1>11

(* An undo that knows no node.                                             *)
LEMMA PlainIs ==
  ASSUME Numbers, NEW u, u = Undo("mode", Path, 1, 2) \/ u = Undo("keep", Path, None, None)
  PROVE  \E us : /\ us = <<u>> /\ us \in Seq(UndoSet) /\ Len(us) = 1 /\ Len(us) <= 2
                 /\ \A l \in 1..Len(us) : UndoOK(us[l])
                 /\ ExpectsOf(us) = {}
<1>0. Path = 0 /\ 0 \in Int
  BY Ints
<1>1. /\ u.op \in {"mode", "keep"} /\ u.at = Path
      /\ u.op = "mode" => u.from \in Nat /\ u.expect \in Nat
  BY DEF Undo
<1>2. u \in UndoSet
  <2>1. CASE u = Undo("mode", Path, 1, 2)
    BY <1>0, <2>1 DEF Undo, UndoSet
  <2>2. CASE u = Undo("keep", Path, None, None)
    BY <1>0, <2>2 DEF Undo, UndoSet
  <2> QED BY <2>1, <2>2
<1>3. UndoOK(u)
  BY <1>1 DEF UndoOK, IdOps
<1>5. PICK us : us = <<u>>
  OBVIOUS
<1>6. us \in Seq(UndoSet) /\ Len(us) = 1 /\ us[1] = u /\ Len(us) <= 2
  BY <1>2, <1>5
<1>7. \A l \in 1..Len(us) : UndoOK(us[l])
  BY <1>3, <1>6
<1>8. ExpectsOf(us) = {}
  <2>1. {l \in 1..Len(us) : us[l].op \in IdOps} = {}
    BY <1>1, <1>6 DEF IdOps
  <2> QED BY <2>1 DEF ExpectsOf
<1> QED BY <1>5, <1>6, <1>7, <1>8

(* put_file over a file: each of the nine calls.  What the exchange caught *)
(* is compared with what was checked, and given back if it is not that.    *)
LEMMA PuttingStep ==
  ASSUME NEW n, NEW i, InHandOf(n, i), ~failing, Path \notin pending, System,
         NEW old \in 1..(i - 1), NEW k \in 1..9, Putting(n, i, old, k)
  PROVE  FilesInv'
<1>1. /\ Numbers /\ Recorded /\ Directory /\ Shape /\ failing \in BOOLEAN /\ void \in BOOLEAN
      /\ n \in Names /\ (n + 1) \in Names /\ (n + 2) \in Names /\ (n + 3) \in Names
      /\ Path \in Names /\ Path = 0 /\ names \in Nat /\ n + 3 = names /\ n \in Nat /\ n > 0
      /\ i \in Nat /\ i > 0 /\ i + 1 = ids /\ ids \in Nat
      /\ phase = "acting" /\ calls # <<>> /\ n = base /\ i = new
  BY Handy, Ints DEF InHandOf
<1>0. /\ n # Path /\ n + 1 # Path /\ n + 2 # Path /\ n + 3 # Path /\ n # n + 1 /\ n # n + 2 /\ n # n + 3
      /\ n + 1 # n + 2 /\ n + 1 # n + 3 /\ n + 2 # n + 3
      /\ n <= names /\ n + 1 <= names /\ n + 2 <= names /\ n + 3 <= names /\ Path <= names
      /\ n \in n..(n + 3) /\ n + 1 \in n..(n + 3) /\ n + 2 \in n..(n + 3) /\ n + 3 \in n..(n + 3)
      /\ n \in 1..names /\ n + 1 \in 1..names /\ n + 2 \in 1..names /\ n + 3 \in 1..names
      /\ i \in 1..ids /\ i + 1 \in 1..ids
  BY <1>1
<1>2. Shape /\ n \in Names /\ (n + 1) \in Names /\ Path \in Names /\ n # Path /\ n + 1 # Path
  BY <1>0, <1>1
<1>91. \A m \in 1..(n - 1) : m \in Names /\ m # n /\ m # n + 1 /\ m # n + 2 /\ m # n + 3 /\ m # Path
  BY <1>1, Handy
<1>92. \A m \in (n + 1)..(n + 3) : m \in Names /\ m # n /\ m # Path
  <2>1. \A m \in (n + 1)..(n + 3) : m = n + 1 \/ m = n + 2 \/ m = n + 3
    BY <1>1
  <2> QED BY <1>0, <1>1, <2>1
<1>4. PICK s : s = put_file(n, i, old)
  OBVIOUS
<1>6. /\ IsList(s) /\ Len(s) = 9
      /\ s[1] = pin(old)
      /\ s[2] = write_new(n, Node(i, i, "file", "mix"))
      /\ s[3] = finish_node(n, <<Unlink(n)>>)
      /\ s[4] = Announce(<<Restore(n, i)>>, <<Unlink(n)>>)
      /\ s[5] = Call("exchange", n, Path, <<Unlink(n)>>)
      /\ s[6] = holds(n, old, <<Call("exchange", n, Path, <<>>), Unlink(n)>>)
      /\ s[7] = Sync
      /\ s[8] = Pend(n)
      /\ s[9] = End
  BY <1>4, List9 DEF put_file
<1>7. In(s, k) /\ call = s[k]
  BY <1>4, <1>6, Stepping DEF Putting
<1>8. ASSUME Frame, Fails, void => void', call.else = <<>> PROVE FilesInv'
  <2>1. void \/ Safe(Hand(i))
    BY DEF Putting
  <2> QED BY <1>8, <2>1, GivesUp
<1>15. ASSUME Frame, NEW l, Onward(s, l), Recorded', Directory', NEW j \in 1..9, Putting(n, i, old, j)'
      PROVE  FilesInv'
  <2>1. Path \notin pending' /\ failing' = FALSE
    BY <1>15 DEF Onward
  <2>2. Acting(n, i)'
    BY <1>15, <2>1 DEF Acting
  <2> QED BY <1>15, <2>2, NextCall
<1>9. ASSUME Frame, Fails, void => void', call.else = <<Unlink(n)>>, k \in 3..5 PROVE FilesInv'
  <2>1. dir[n].id \in Hand(i)
    BY <1>1, <1>9 DEF Putting, Is, Hand
  <2>2. void \/ Safe(Hand(i))
    BY DEF Putting
  <2> QED BY <1>0, <1>9, <2>1, <2>2, Unlinks
<1>10. CASE k = 1
  <2>0. IsList(s) /\ In(s, 1) /\ 1 < Len(s) /\ call = s[1]
    BY <1>6, <1>7, <1>10
  <2>1. At("check") /\ call.a = old /\ call.else = <<>>
    BY <1>1, <1>6, <2>0 DEF At, pin, Call
  <2>2. Frame /\ Does(Id(Path) = old, dir)
    BY <1>1, <2>1, OnCheck
  <2>3. CASE Goes /\ dir' = dir /\ Quiet
    <3>1. /\ Onward(s, 1) /\ Recorded' /\ Directory' /\ Back({}) /\ Forth({})
          /\ OlderClean(n) => OlderClean(n)'
      BY <2>0, <2>2, <2>3, OnwardSame
    <3>2. Putting(n, i, old, 2)'
      BY <1>1, <1>4, <1>10, <2>3, <3>1, LikeFacts DEF Putting, Onward, Empty, Since
    <3> QED BY <1>15, <2>2, <3>1, <3>2
  <2> QED BY <1>8, <2>1, <2>2, <2>3 DEF Does, Breaks
<1>20. CASE k = 2
  <2>0. IsList(s) /\ In(s, 2) /\ 2 < Len(s) /\ call = s[2]
    BY <1>6, <1>7, <1>20
  <2>1. At("make") /\ call.a = n /\ call.b = Node(i, i, "file", "mix") /\ call.else = <<>>
    BY <1>1, <1>6, <2>0 DEF At, write_new, Call
  <2>2. Frame /\ Does(TRUE, [dir EXCEPT ![n] = [Node(i, i, "file", "mix") EXCEPT !.done = FALSE]])
    BY <1>1, <2>1, OnMake
  <2>3. CASE Goes /\ dir' = [dir EXCEPT ![n] = [Node(i, i, "file", "mix") EXCEPT !.done = FALSE]] /\ Quiet
    <3>0. dir[n] = None /\ announced = 0 /\ Unused(i)
      BY <1>20 DEF Putting
    <3>1. Onward(s, 2)
      BY <2>0, <2>2, <2>3, OnwardIs
    <3>2. /\ Recorded' /\ Directory' /\ Back({n}) /\ Forth({})
          /\ dir'[n] # None /\ dir'[n].id = i /\ dir'[n].data = i /\ dir'[n].kind = "file"
          /\ dir'[n].inside = None
          /\ \A m \in Names : m # n => dir'[m] = dir[m]
      BY <1>1, <2>2, <2>3, <3>0, TidyMade DEF Quiet
    <3>3. Kinds(i, {"file"})'
      BY <3>0, <3>2, KindsNew
    <3>4. Safe(Hand(i)) => Safe(Hand(i))'
      <4>1. living' = living /\ Expects' = Expects
        BY <3>1 DEF Onward, Expects
      <4>2. \A d \in Data(n)' : ~Theirs(d)
        BY <1>1, <3>2 DEF Data, Theirs
      <4> QED BY <3>2, <4>1, <4>2, SafeKept
    <3>5. OlderClean(n) => OlderClean(n)'
      BY <1>91, <3>2, OlderKept
    <3>6. OwnClean(i) => OwnClean(i)'
      BY <1>1, <3>2, OwnCleanKept
    <3>7. dir'[Path] = dir[Path] /\ \A m \in (n + 1)..(n + 3) : dir'[m] = dir[m]
      BY <1>0, <1>1, <1>92, <3>2
    <3>8. Putting(n, i, old, 3)'
      BY <1>4, <1>20, <3>0, <3>1, <3>2, <3>3, <3>4, <3>5, <3>6, <3>7 DEF Putting, Onward, Empty, Is, Since
    <3> QED BY <1>15, <2>2, <3>1, <3>2, <3>8
  <2> QED BY <1>8, <2>1, <2>2, <2>3 DEF Does, Breaks
<1>30. CASE k = 3
  <2>0. IsList(s) /\ In(s, 3) /\ 3 < Len(s) /\ call = s[3]
    BY <1>6, <1>7, <1>30
  <2>1. At("finish") /\ call.a = n /\ call.else = <<Unlink(n)>>
    BY <1>1, <1>6, <2>0 DEF At, finish_node, Call
  <2>2. /\ Frame
        /\ Does(dir[n] # None, [dir EXCEPT ![n] = IF @ = None THEN None ELSE [@ EXCEPT !.done = TRUE]])
    BY <1>1, <2>1, OnFinish
  <2>3. CASE /\ Goes /\ Quiet
             /\ dir' = [dir EXCEPT ![n] = IF @ = None THEN None ELSE [@ EXCEPT !.done = TRUE]]
    <3>0. dir[n] # None /\ dir[n].id = i /\ announced = 0 /\ Kinds(i, {"file"})
      BY <1>30 DEF Putting, Is
    <3>1. Onward(s, 3)
      BY <2>0, <2>2, <2>3, OnwardIs
    <3>2. /\ Recorded' /\ Directory' /\ Back({}) /\ Forth({})
          /\ dir'[n] # None /\ Like(dir'[n], dir[n]) /\ dir'[n].done
          /\ \A m \in Names : m # n => dir'[m] = dir[m]
      BY <1>1, <2>2, <2>3, <3>0, TidyFinished DEF Quiet
    <3>3. /\ Kinds(i, {"file"})' /\ (Safe(Hand(i)) => Safe(Hand(i))')
          /\ OwnClean(i) => OwnClean(i)'
      BY <3>0, <3>1, <3>2, LikeFacts DEF Onward
    <3>5. OlderClean(n) => OlderClean(n)'
      BY <1>91, <3>2, OlderKept
    <3>7. dir'[Path] = dir[Path] /\ \A m \in (n + 1)..(n + 3) : dir'[m] = dir[m]
      BY <1>0, <1>1, <1>92, <3>2
    <3>8. Putting(n, i, old, 4)'
      BY <1>4, <1>30, <3>0, <3>1, <3>2, <3>3, <3>5, <3>7 DEF Putting, Onward, Empty, Is, Like, Since
    <3> QED BY <1>15, <2>2, <3>1, <3>2, <3>8
  <2> QED BY <1>9, <1>30, <2>1, <2>2, <2>3 DEF Does, Breaks
<1>40. CASE k = 4
  <2>0. IsList(s) /\ In(s, 4) /\ 4 < Len(s) /\ call = s[4]
    BY <1>6, <1>7, <1>40
  <2>1. At("announce") /\ call.a = <<Restore(n, i)>> /\ call.else = <<Unlink(n)>>
    BY <1>1, <1>6, <2>0 DEF At, Announce, Call
  <2>2. Is(n, i) /\ dir[n].done /\ Kinds(i, {"file"})
    BY <1>40 DEF Putting
  <2>3. Done(n) /\ Kinds(i, {"file", "tree"}) /\ Numbers /\ n \in 1..names /\ i \in (1..ids) \cup {None}
    BY <1>0, <1>1, <2>2 DEF Done, Kinds
  <2>4. PICK us : /\ us = <<Restore(n, i)>> /\ us \in Seq(UndoSet) /\ Len(us) = 1 /\ Len(us) <= 2
                  /\ \A l \in 1..Len(us) : UndoOK(us[l])
                  /\ ExpectsOf(us) = {i}
    BY <2>3, RestoreIs
  <2>5. call.a = us
    BY <2>1, <2>4
  <2>6. Frame /\ (OnRecordIs(n, i, s, 4, us) \/ Breaks)
    BY <2>0, <2>1, <2>4, <2>5, AnnounceCall
  <2>7. CASE OnRecordIs(n, i, s, 4, us)
    <3>1. living' = living /\ dir' = dir /\ Expects' \subseteq Expects \cup {i}
      BY <2>4, <2>7 DEF OnRecordIs
    <3>2. Safe(Hand(i)) => Safe(Hand(i))'
      BY <1>1, <3>1, SafeAnnounced DEF Hand
    <3>3. Putting(n, i, old, 5)'
      BY <1>4, <1>40, <2>2, <2>7, <3>2 DEF Putting, OnRecordIs, Empty, Is, Since
    <3>4. Acting(n, i)' /\ Path \notin pending'
      BY <2>7, <3>3 DEF Acting, OnRecordIs
    <3> QED BY <2>6, <2>7, <3>4, GoesOn DEF OnRecordIs
  <2> QED BY <1>9, <1>40, <2>1, <2>6, <2>7 DEF Breaks
<1>50. CASE k = 5
  <2>0. IsList(s) /\ In(s, 5) /\ 5 < Len(s) /\ call = s[5]
    BY <1>6, <1>7, <1>50
  <2>1. At("exchange") /\ call.a = n /\ call.b = Path /\ call.else = <<Unlink(n)>>
    BY <1>1, <1>6, <2>0 DEF At, Call
  <2>2. /\ Frame
        /\ Does(dir[n] # None /\ dir[Path] # None, [dir EXCEPT ![Path] = dir[n], ![n] = dir[Path]])
    BY <1>1, <2>1, OnExchange
  <2>3. CASE /\ dir[n] # None /\ dir[Path] # None /\ Goes /\ Quiet
             /\ dir' = [dir EXCEPT ![Path] = dir[n], ![n] = dir[Path]]
    <3>0. Done(n) /\ Done(Path) /\ Kinds(i, {"file"}) /\ dir[n].id = i /\ dir[n].kind = "file"
      BY <1>1, <1>50 DEF Putting, Is, Done, Directory, Kinds
    <3>1. Onward(s, 5)
      BY <2>0, <2>2, <2>3, OnwardIs
    <3>2. Recorded' /\ Directory'
      BY <1>0, <1>1, <2>2, <2>3, <3>0, TidySwapped DEF Quiet
    <3>3. /\ Back({}) /\ Forth({}) /\ dir'[Path] = dir[n] /\ dir'[n] = dir[Path]
          /\ \A m \in Names : m # n /\ m # Path => dir'[m] = dir[m]
      BY <1>2, <2>3, SwapDir
    <3>4. /\ Kinds(i, {"file"})' /\ (Safe(Hand(i)) => Safe(Hand(i))')
          /\ OwnClean(i) => OwnClean(i)'
      BY <3>0, <3>1, <3>3, LikeFacts DEF Onward
    <3>5. OlderClean(n) => OlderClean(n)'
      BY <1>91, <3>3, OlderKept
    <3>6. CaughtOr(n, old)' /\ Is(Path, i)'
      BY <1>50, <2>3, <3>0, <3>3 DEF CaughtOr, Is, Done, Putting, Since
    <3>7. \A m \in (n + 1)..(n + 3) : dir'[m] = dir[m]
      BY <1>92, <3>3
    <3>8. Putting(n, i, old, 6)'
      BY <1>4, <1>50, <3>0, <3>1, <3>3, <3>4, <3>5, <3>6, <3>7 DEF Putting, Onward, Empty
    <3> QED BY <1>15, <2>2, <3>1, <3>2, <3>8
  <2> QED BY <1>9, <1>50, <2>1, <2>2, <2>3 DEF Does, Breaks
<1>60. CASE k = 6
  <2>0. IsList(s) /\ In(s, 6) /\ 6 < Len(s) /\ call = s[6]
    BY <1>6, <1>7, <1>60
  <2>1. At("holds") /\ call.a = n /\ call.b = old
        /\ call.else = <<Call("exchange", n, Path, <<>>), Unlink(n)>>
    BY <1>1, <1>6, <2>0 DEF At, holds, Call
  <2>2. /\ Frame
        /\ \/ Id(n) = old /\ Goes /\ dir' = dir /\ Quiet
           \/ Id(n) # old /\ Fails /\ (void' <=> void)
    BY <1>1, <2>1, HoldsCall
  <2>3. CASE Id(n) = old /\ Goes /\ dir' = dir /\ Quiet
    <3>1. /\ Onward(s, 6) /\ Recorded' /\ Directory' /\ Back({}) /\ Forth({})
          /\ OlderClean(n) => OlderClean(n)'
      BY <2>0, <2>2, <2>3, OnwardSame
    <3>2. dir[n] # None /\ dir[n].id = old
      BY <1>60, <2>3 DEF Id, Putting, CaughtOr
    <3>3. void \/ Clean(n)
      BY <1>1, <1>60, <3>2 DEF Putting, OwnClean
    <3>4. void \/ Clean(n)'
      BY <2>3, <3>3, CleanKept
    <3>5. Putting(n, i, old, 7)'
      BY <1>1, <1>4, <1>60, <2>3, <3>1, <3>2, <3>4, LikeFacts DEF Putting, Onward, Empty, CaughtOr
    <3> QED BY <1>15, <2>2, <3>1, <3>5
  <2>4. CASE Id(n) # old /\ Fails /\ (void' <=> void)
    <3>1. dir[n] # None /\ dir[n].done /\ dir[n].id < 0
      BY <1>60, <2>4 DEF Putting, CaughtOr, Id
    <3>2. void \/ Is(Path, i)
      BY <1>60, <2>4, <3>1 DEF Putting, Is, Id
    <3>3. void \/ Safe(Hand(i))
      BY DEF Putting
    <3> QED BY <2>1, <2>2, <2>4, <3>1, <3>2, <3>3, ExchangesBack
  <2> QED BY <2>2, <2>3, <2>4
<1>70. CASE k = 7
  <2>0. IsList(s) /\ In(s, 7) /\ 7 < Len(s) /\ call = s[7]
    BY <1>6, <1>7, <1>70
  <2>1. At("sync") /\ call.else = <<>>
    BY <1>1, <1>6, <2>0 DEF At, Sync, Call
  <2>2. Frame /\ Does(TRUE, dir)
    BY <1>1, <2>1, OnSyncDir
  <2>3. CASE Goes /\ dir' = dir /\ Quiet
    <3>1. /\ Onward(s, 7) /\ Recorded' /\ Directory' /\ Back({}) /\ Forth({})
          /\ OlderClean(n) => OlderClean(n)'
      BY <2>0, <2>2, <2>3, OnwardSame
    <3>2. Putting(n, i, old, 8)'
      BY <1>1, <1>4, <1>70, <2>3, <3>1, LikeFacts DEF Putting, Onward, Empty, CaughtOr, Clean, Data
    <3> QED BY <1>15, <2>2, <3>1, <3>2
  <2> QED BY <1>8, <2>1, <2>2, <2>3 DEF Does, Breaks
<1>80. CASE k = 8
  <2>0. IsList(s) /\ In(s, 8) /\ 8 < Len(s) /\ call = s[8]
    BY <1>6, <1>7, <1>80
  <2>1. At("pend") /\ call.a = n
    BY <1>1, <1>6, <2>0 DEF At, Pend, Call
  <2>2. /\ Frame /\ In(s, 8 + 1)' /\ calls' # <<>> /\ failing' = FALSE /\ (void' <=> void)
        /\ Numbers' /\ Recorded' /\ Directory' /\ dir' = dir /\ undos' = undos
        /\ announced' = announced /\ living' = living /\ pending' = pending \cup {call.a}
        /\ Back({}) /\ Forth({}) /\ (OlderClean(n) => OlderClean(n)')
    BY <2>0, <2>1, PendCall
  <2>3. Path \notin pending'
    BY <1>0, <2>1, <2>2
  <2>4. Putting(n, i, old, 9)'
    BY <1>1, <1>4, <1>80, <2>2, LikeFacts DEF Putting, Empty, CaughtOr, Clean, Data
  <2>5. Acting(n, i)'
    BY <2>2, <2>3, <2>4 DEF Acting
  <2> QED BY <2>2, <2>3, <2>5, GoesOn
<1>90. CASE k = 9
  BY <1>1, <1>6, <1>7, <1>90, OnEnd DEF At, End, Call
<1> QED BY <1>10, <1>20, <1>30, <1>40, <1>50, <1>60, <1>70, <1>80, <1>90

(* set_aside: each of the seven calls.                                     *)
LEMMA AsideStep ==
  ASSUME NEW n, NEW i, InHandOf(n, i), ~failing, Path \notin pending, System,
         NEW old \in 1..(i - 1), NEW k \in 1..7, Aside(n, i, old, k)
  PROVE  FilesInv'
<1>1. /\ Numbers /\ Recorded /\ Directory /\ Shape /\ failing \in BOOLEAN /\ void \in BOOLEAN
      /\ n \in Names /\ (n + 1) \in Names /\ (n + 2) \in Names /\ (n + 3) \in Names
      /\ Path \in Names /\ Path = 0 /\ names \in Nat /\ n + 3 = names /\ n \in Nat /\ n > 0
      /\ i \in Nat /\ i > 0 /\ i + 1 = ids /\ ids \in Nat
      /\ phase = "acting" /\ calls # <<>> /\ n = base /\ i = new
  BY Handy, Ints DEF InHandOf
<1>0. /\ n # Path /\ n + 1 # Path /\ n + 2 # Path /\ n + 3 # Path /\ n # n + 1 /\ n # n + 2 /\ n # n + 3
      /\ n + 1 # n + 2 /\ n + 1 # n + 3 /\ n + 2 # n + 3
      /\ n <= names /\ n + 1 <= names /\ n + 2 <= names /\ n + 3 <= names /\ Path <= names
      /\ n \in n..(n + 3) /\ n + 1 \in n..(n + 3) /\ n + 2 \in n..(n + 3) /\ n + 3 \in n..(n + 3)
      /\ n \in 1..names /\ n + 1 \in 1..names /\ n + 2 \in 1..names /\ n + 3 \in 1..names
      /\ i \in 1..ids /\ i + 1 \in 1..ids
  BY <1>1
<1>2. Shape /\ n \in Names /\ (n + 1) \in Names /\ Path \in Names /\ n # Path /\ n + 1 # Path
  BY <1>0, <1>1
<1>91. \A m \in 1..(n - 1) : m \in Names /\ m # n /\ m # n + 1 /\ m # n + 2 /\ m # n + 3 /\ m # Path
  BY <1>1, Handy
<1>92. \A m \in (n + 1)..(n + 3) : m \in Names /\ m # n /\ m # Path
  <2>1. \A m \in (n + 1)..(n + 3) : m = n + 1 \/ m = n + 2 \/ m = n + 3
    BY <1>1
  <2> QED BY <1>0, <1>1, <2>1
<1>4. PICK s : s = set_aside(n, i, old)
  OBVIOUS
<1>6. /\ IsList(s) /\ Len(s) = 7
      /\ s[1] = pin(old)
      /\ s[2] = Announce(<<Restore(n, None)>>, <<>>)
      /\ s[3] = Call("away", n, set_aside_by_copy(n + 1, n + 2, i, old), <<>>)
      /\ s[4] = holds(n, old, <<Link(n, Path, <<>>)>>)
      /\ s[5] = Sync
      /\ s[6] = Pend(n)
      /\ s[7] = End
  BY <1>4, List7 DEF set_aside
<1>7. In(s, k) /\ call = s[k]
  BY <1>4, <1>6, Stepping DEF Aside
<1>8. ASSUME Frame, Fails, void => void', call.else = <<>> PROVE FilesInv'
  <2>1. void \/ Safe(Hand(i))
    BY DEF Aside
  <2> QED BY <1>8, <2>1, GivesUp
<1>15. ASSUME Frame, NEW l, Onward(s, l), Recorded', Directory', NEW j \in 1..7, Aside(n, i, old, j)'
      PROVE  FilesInv'
  <2>1. Path \notin pending' /\ failing' = FALSE
    BY <1>15 DEF Onward
  <2>2. Acting(n, i)'
    BY <1>15, <2>1 DEF Acting
  <2> QED BY <1>15, <2>2, NextCall
<1>10. CASE k = 1
  <2>0. IsList(s) /\ In(s, 1) /\ 1 < Len(s) /\ call = s[1]
    BY <1>6, <1>7, <1>10
  <2>1. At("check") /\ call.a = old /\ call.else = <<>>
    BY <1>1, <1>6, <2>0 DEF At, pin, Call
  <2>2. Frame /\ Does(Id(Path) = old, dir)
    BY <1>1, <2>1, OnCheck
  <2>3. CASE Goes /\ dir' = dir /\ Quiet
    <3>1. /\ Onward(s, 1) /\ Recorded' /\ Directory' /\ Back({}) /\ Forth({})
          /\ OlderClean(n) => OlderClean(n)'
      BY <2>0, <2>2, <2>3, OnwardSame
    <3>2. Aside(n, i, old, 2)'
      BY <1>1, <1>4, <1>10, <2>3, <3>1, LikeFacts DEF Aside, Onward, Empty, Since
    <3> QED BY <1>15, <2>2, <3>1, <3>2
  <2> QED BY <1>8, <2>1, <2>2, <2>3 DEF Does, Breaks
<1>20. CASE k = 2
  <2>0. IsList(s) /\ In(s, 2) /\ 2 < Len(s) /\ call = s[2]
    BY <1>6, <1>7, <1>20
  <2>1. At("announce") /\ call.a = <<Restore(n, None)>> /\ call.else = <<>>
    BY <1>1, <1>6, <2>0 DEF At, Announce, Call
  <2>2. dir[n] = None
    BY <1>20 DEF Aside
  <2>3. Done(n) /\ Numbers /\ n \in 1..names /\ None \in (1..ids) \cup {None}
    BY <1>0, <1>1, <2>2 DEF Done
  <2>4. PICK us : /\ us = <<Restore(n, None)>> /\ us \in Seq(UndoSet) /\ Len(us) = 1 /\ Len(us) <= 2
                  /\ \A l \in 1..Len(us) : UndoOK(us[l])
                  /\ ExpectsOf(us) = {None}
    BY <2>3, RestoreIs
  <2>5. call.a = us
    BY <2>1, <2>4
  <2>6. Frame /\ (OnRecordIs(n, i, s, 2, us) \/ Breaks)
    BY <2>0, <2>1, <2>4, <2>5, AnnounceCall
  <2>7. CASE OnRecordIs(n, i, s, 2, us)
    <3>1. living' = living /\ dir' = dir /\ Expects' \subseteq Expects \cup {None}
      BY <2>4, <2>7 DEF OnRecordIs
    <3>2. Safe(Hand(i)) => Safe(Hand(i))'
      BY <1>1, <3>1, SafeAnnounced
    <3>3. Aside(n, i, old, 3)'
      BY <1>4, <1>20, <2>2, <2>7, <3>2 DEF Aside, OnRecordIs, Empty, Since
    <3>4. Acting(n, i)' /\ Path \notin pending'
      BY <2>7, <3>3 DEF Acting, OnRecordIs
    <3> QED BY <2>6, <2>7, <3>4, GoesOn DEF OnRecordIs
  <2> QED BY <1>8, <2>1, <2>6, <2>7 DEF Breaks
<1>30. CASE k = 3
  <2>0. IsList(s) /\ In(s, 3) /\ 3 < Len(s) /\ call = s[3]
    BY <1>6, <1>7, <1>30
  <2>1. At("away") /\ call.a = n /\ call.b = set_aside_by_copy(n + 1, n + 2, i, old) /\ call.else = <<>>
    BY <1>1, <1>6, <2>0 DEF At, Call
  <2>2. /\ Frame
        /\ \/ dir[Path] # None /\ dir[Path].kind = "lower" /\ calls' = call.b /\ Stays
           \/ Does(dir[Path] # None, [dir EXCEPT ![n] = dir[Path], ![Path] = None])
    BY <1>1, <2>1, OnAway
  <2>3. CASE dir[Path] # None /\ dir[Path].kind = "lower" /\ calls' = call.b /\ Stays
    <3>11. PICK t : AsideByCopyCalls(t, n + 1, n + 2, i, old)
      BY DEF AsideByCopyCalls
    <3>1. t = set_aside_by_copy(n + 1, n + 2, i, old) /\ IsList(t) /\ Len(t) = 10
      BY <3>11, AsideByCopyList DEF AsideByCopyCalls
    <3>2. /\ In(t, 1)' /\ calls' # <<>> /\ failing' = FALSE /\ (void' <=> void) /\ dir' = dir
          /\ Numbers' /\ Recorded' /\ Directory' /\ pending' = pending /\ undos' = undos
          /\ announced' = announced /\ living' = living
          /\ Back({}) /\ Forth({}) /\ (OlderClean(n) => OlderClean(n)')
      <4>1. Frame /\ Stays /\ calls' = t /\ IsList(t) /\ Len(t) > 0
        <5>1. calls' = t
          BY <2>1, <2>3, <3>1, Zenon
        <5>2. Frame /\ Stays /\ IsList(t) /\ Len(t) = 10
          BY <2>2, <2>3, <3>1, Zenon
        <5> QED BY <5>1, <5>2
      <4> QED BY <4>1, AnotherList
    <3>3. Unused(i) /\ dir[n] = None /\ Empty((n + 1)..(n + 3)) /\ Since(old, AllKinds)
      BY <1>30 DEF Aside
    <3>4. dir[n + 1] = None /\ dir[n + 2] = None /\ dir[n + 3] = None
      BY <1>1, <3>3 DEF Empty
    <3>5. Since(old, {"lower"})'
      BY <2>3, <3>2, <3>3 DEF Since
    <3>6. void \/ (Safe(Hand(i)) /\ OlderClean(n) /\ OwnClean(i))
      BY <1>30 DEF Aside
    <3>7. Unused(i)' /\ (void' \/ (Safe(Hand(i))' /\ OlderClean(n)' /\ OwnClean(i)'))
      BY <3>2, <3>3, <3>6, LikeFacts
    <3>8. ByCopy(n, i, n + 1, n + 2, i, old, 1)'
      BY <3>2, <3>4, <3>5, <3>7 DEF ByCopy
    <3>9. AsideByCopy(n, i, old, 1)'
      BY <3>1, <3>2, <3>3, <3>4, <3>8 DEF AsideByCopy
    <3>10. Acting(n, i)' /\ Path \notin pending'
      BY <3>2, <3>9 DEF Acting
    <3> QED BY <2>2, <3>2, <3>10, GoesOn
  <2>4. CASE /\ dir[Path] # None /\ Goes /\ Quiet
             /\ dir' = [dir EXCEPT ![n] = dir[Path], ![Path] = None]
    <3>0. dir[n] = None /\ Done(Path) /\ Since(old, AllKinds) /\ Unused(i)
      BY <1>1, <1>30 DEF Aside, Directory
    <3>1. Onward(s, 3)
      BY <2>0, <2>2, <2>4, OnwardIs
    <3>2. Recorded' /\ Directory'
      BY <1>0, <1>1, <2>2, <2>4, <3>0, TidyMoved DEF Quiet
    <3>3. /\ Back({}) /\ Forth({}) /\ dir'[n] = dir[Path] /\ dir'[Path] = None
          /\ \A m \in Names : m # n /\ m # Path => dir'[m] = dir[m]
      BY <1>2, <2>4, <3>0, MoveDir
    <3>4. /\ Unused(i)' /\ (Safe(Hand(i)) => Safe(Hand(i))')
          /\ OwnClean(i) => OwnClean(i)'
      BY <3>0, <3>1, <3>3, LikeFacts DEF Onward
    <3>5. OlderClean(n) => OlderClean(n)'
      BY <1>91, <3>3, OlderKept
    <3>6. CaughtOr(n, old)' /\ Taken'
      BY <2>4, <3>0, <3>3 DEF CaughtOr, Done, Since, Taken
    <3>7. \A m \in (n + 1)..(n + 3) : dir'[m] = dir[m]
      BY <1>92, <3>3
    <3>8. Aside(n, i, old, 4)'
      BY <1>4, <1>30, <3>1, <3>4, <3>5, <3>6, <3>7 DEF Aside, Onward, Empty
    <3> QED BY <1>15, <2>2, <3>1, <3>2, <3>8
  <2> QED BY <1>8, <2>1, <2>2, <2>3, <2>4 DEF Does, Breaks
<1>40. CASE k = 4
  <2>0. IsList(s) /\ In(s, 4) /\ 4 < Len(s) /\ call = s[4]
    BY <1>6, <1>7, <1>40
  <2>1. At("holds") /\ call.a = n /\ call.b = old /\ call.else = <<Link(n, Path, <<>>)>>
    BY <1>1, <1>6, <2>0 DEF At, holds, Call
  <2>2. /\ Frame
        /\ \/ Id(n) = old /\ Goes /\ dir' = dir /\ Quiet
           \/ Id(n) # old /\ Fails /\ (void' <=> void)
    BY <1>1, <2>1, HoldsCall
  <2>3. CASE Id(n) = old /\ Goes /\ dir' = dir /\ Quiet
    <3>1. /\ Onward(s, 4) /\ Recorded' /\ Directory' /\ Back({}) /\ Forth({})
          /\ OlderClean(n) => OlderClean(n)'
      BY <2>0, <2>2, <2>3, OnwardSame
    <3>2. dir[n] # None /\ dir[n].id = old
      BY <1>40, <2>3 DEF Id, Aside, CaughtOr
    <3>3. void \/ Clean(n)
      BY <1>1, <1>40, <3>2 DEF Aside, OwnClean
    <3>4. void \/ Clean(n)'
      BY <2>3, <3>3, CleanKept
    <3>5. Aside(n, i, old, 5)'
      BY <1>1, <1>4, <1>40, <2>3, <3>1, <3>2, <3>4, LikeFacts DEF Aside, Onward, Empty, CaughtOr
    <3> QED BY <1>15, <2>2, <3>1, <3>5
  <2>4. CASE Id(n) # old /\ Fails /\ (void' <=> void)
    <3>1. Done(n)
      BY <1>40 DEF Aside, CaughtOr, Done
    <3>3. void \/ Safe(Hand(i))
      BY DEF Aside
    <3> QED BY <2>1, <2>2, <2>4, <3>1, <3>3, LinksBack
  <2> QED BY <2>2, <2>3, <2>4
<1>50. CASE k = 5
  <2>0. IsList(s) /\ In(s, 5) /\ 5 < Len(s) /\ call = s[5]
    BY <1>6, <1>7, <1>50
  <2>1. At("sync") /\ call.else = <<>>
    BY <1>1, <1>6, <2>0 DEF At, Sync, Call
  <2>2. Frame /\ Does(TRUE, dir)
    BY <1>1, <2>1, OnSyncDir
  <2>3. CASE Goes /\ dir' = dir /\ Quiet
    <3>1. /\ Onward(s, 5) /\ Recorded' /\ Directory' /\ Back({}) /\ Forth({})
          /\ OlderClean(n) => OlderClean(n)'
      BY <2>0, <2>2, <2>3, OnwardSame
    <3>2. Aside(n, i, old, 6)'
      BY <1>1, <1>4, <1>50, <2>3, <3>1, LikeFacts DEF Aside, Onward, Empty, CaughtOr, Clean, Data
    <3> QED BY <1>15, <2>2, <3>1, <3>2
  <2> QED BY <1>8, <2>1, <2>2, <2>3 DEF Does, Breaks
<1>60. CASE k = 6
  <2>0. IsList(s) /\ In(s, 6) /\ 6 < Len(s) /\ call = s[6]
    BY <1>6, <1>7, <1>60
  <2>1. At("pend") /\ call.a = n
    BY <1>1, <1>6, <2>0 DEF At, Pend, Call
  <2>2. /\ Frame /\ In(s, 6 + 1)' /\ calls' # <<>> /\ failing' = FALSE /\ (void' <=> void)
        /\ Numbers' /\ Recorded' /\ Directory' /\ dir' = dir /\ undos' = undos
        /\ announced' = announced /\ living' = living /\ pending' = pending \cup {call.a}
        /\ Back({}) /\ Forth({}) /\ (OlderClean(n) => OlderClean(n)')
    BY <2>0, <2>1, PendCall
  <2>3. Path \notin pending'
    BY <1>0, <2>1, <2>2
  <2>4. Aside(n, i, old, 7)'
    BY <1>1, <1>4, <1>60, <2>2, LikeFacts DEF Aside, Empty, CaughtOr, Clean, Data
  <2>5. Acting(n, i)'
    BY <2>2, <2>3, <2>4 DEF Acting
  <2> QED BY <2>2, <2>3, <2>5, GoesOn
<1>70. CASE k = 7
  BY <1>1, <1>6, <1>7, <1>70, OnEnd DEF At, End, Call
<1> QED BY <1>10, <1>20, <1>30, <1>40, <1>50, <1>60, <1>70

-----------------------------------------------------------------------------
(* 9. The ways by copy.                                                    *)

(* A failure after the copy is on record in the place of the original.     *)
LEMMA GivesUpLate ==
  ASSUME NEW n, NEW i, InHandOf(n, i), ~failing, Frame, Fails, void => void', call.else = <<>>,
         void \/ Safe({}), Path \notin pending
  PROVE  FilesInv'
<1>1. Numbers /\ Recorded /\ Directory
  BY Handy
<1>2. /\ calls' = <<>> /\ failing' = TRUE /\ dir' = dir /\ Quiet
      /\ living' = living /\ undos' = undos /\ announced' = announced
  BY DEF Fails, Frame, Quiet
<1>3. Recorded' /\ Directory'
  BY <1>1, <1>2, TidySame
<1>4. void' \/ Safe({})'
  BY <1>2, SafeSame
<1> QED BY <1>2, <1>3, <1>4, Finale

CopyPlace(n, i, staged, to, x) ==
    (staged = n + 1 /\ to = n + 2 /\ x = i) \/ (staged = n + 2 /\ to = n + 3 /\ x = i + 1)

CopyingAt(n, i, s, k, staged, to, x, old, j) ==
    /\ InHandOf(n, i) /\ ~failing /\ Path \notin pending /\ System
    /\ IsList(s) /\ In(s, k) /\ k < Len(s) /\ CopyPlace(n, i, staged, to, x) /\ old \in 1..(i - 1)
    /\ ByCopy(n, i, staged, to, x, old, j)

CopyOn(n, i, s, k, staged, to, x, old, j) ==
    /\ Frame /\ In(s, k + 1)' /\ calls' # <<>> /\ failing' = FALSE /\ (void' <=> void)
    /\ Numbers' /\ Recorded' /\ Directory' /\ pending' = pending
    /\ ByCopy(n, i, staged, to, x, old, j)'
    /\ \A m \in Names : m # staged /\ m # to /\ m # Path => dir'[m] = dir[m]

(* The types of what by_copy works with.                                   *)
LEMMA CopyFacts ==
  ASSUME NEW n, NEW i, NEW s, NEW k, NEW staged, NEW to, NEW x, NEW old, NEW j,
         CopyingAt(n, i, s, k, staged, to, x, old, j)
  PROVE  /\ InHandOf(n, i) /\ ~failing /\ System /\ IsList(s) /\ In(s, k) /\ k < Len(s)
         /\ Path \notin pending
         /\ Numbers /\ Recorded /\ Directory /\ Shape /\ failing \in BOOLEAN /\ void \in BOOLEAN
         /\ Path \in Names /\ staged \in Names /\ to \in Names
         /\ staged # Path /\ to # Path /\ staged # to /\ staged <= names /\ to <= names
         /\ to \in 1..names /\ staged \in n..(n + 3) /\ x \in Hand(i) /\ x \in 1..ids /\ x \in Int
         /\ i \in Int /\ x >= i /\ old \in 1..(i - 1) /\ old \in Int /\ old > 0 /\ calls # <<>>
         /\ \A m \in 1..(n - 1) : m \in Names /\ m # staged /\ m # to /\ m # Path
<1>1. InHandOf(n, i) /\ CopyPlace(n, i, staged, to, x) /\ old \in 1..(i - 1)
  BY DEF CopyingAt
<1>2. /\ Numbers /\ Recorded /\ Directory /\ Shape /\ failing \in BOOLEAN /\ void \in BOOLEAN
      /\ (n + 1) \in Names /\ (n + 2) \in Names /\ (n + 3) \in Names
      /\ Path \in Names /\ Path = 0 /\ n + 3 = names /\ n \in Nat /\ n > 0
      /\ i \in Nat /\ i > 0 /\ i + 1 = ids
      /\ \A m \in 1..(n - 1) : m \in Names
  BY <1>1, Handy
<1>3. names \in Nat /\ ids \in Nat
  BY <1>2, Ints
<1>4. /\ staged \in Names /\ to \in Names
      /\ staged # Path /\ to # Path /\ staged # to /\ staged <= names /\ to <= names
      /\ to \in 1..names /\ staged \in n..(n + 3)
  BY <1>1, <1>2, <1>3 DEF CopyPlace
<1>5. x \in Hand(i) /\ x \in 1..ids /\ x \in Int /\ i \in Int /\ x >= i /\ old \in Int /\ old > 0
  BY <1>1, <1>2, <1>3 DEF CopyPlace, Hand
<1>6. \A m \in 1..(n - 1) : m # staged /\ m # to /\ m # Path
  BY <1>1, <1>2 DEF CopyPlace
<1> QED BY <1>1, <1>2, <1>4, <1>5, <1>6 DEF CopyingAt, InHandOf

(* A call that leaves the directory as it is.                              *)
LEMMA CopySame ==
  ASSUME NEW n, NEW i, NEW s, NEW k, NEW staged, NEW to, NEW x, NEW old, NEW j \in {4, 8},
         CopyingAt(n, i, s, k, staged, to, x, old, j), call = Sync
  PROVE  FilesInv' \/ CopyOn(n, i, s, k, staged, to, x, old, j + 1)
<1>1. /\ InHandOf(n, i) /\ ~failing /\ System /\ IsList(s) /\ In(s, k) /\ k < Len(s)
      /\ Path \notin pending
      /\ Numbers /\ Recorded /\ Directory /\ Shape /\ failing \in BOOLEAN /\ void \in BOOLEAN
      /\ Path \in Names /\ staged \in Names /\ to \in Names
      /\ staged # Path /\ to # Path /\ staged # to /\ staged <= names /\ to <= names
      /\ to \in 1..names /\ staged \in n..(n + 3) /\ x \in Hand(i) /\ x \in 1..ids /\ x \in Int
      /\ i \in Int /\ x >= i /\ old \in 1..(i - 1) /\ old \in Int /\ old > 0 /\ calls # <<>>
      /\ \A m \in 1..(n - 1) : m \in Names /\ m # staged /\ m # to /\ m # Path
  BY CopyFacts
<1>2. At("sync") /\ call.else = <<>>
  BY <1>1 DEF At, Sync, Call
<1>3. Frame /\ Does(TRUE, dir)
  BY <1>1, <1>2, OnSyncDir
<1>4. void \/ Safe({})
  <2>1. void \/ Safe(Hand(i)) \/ Safe({})
    BY DEF CopyingAt, ByCopy
  <2> QED BY <2>1, SafeLess
<1>5. CASE Goes /\ dir' = dir /\ Quiet
  <2>1. /\ Onward(s, k) /\ Recorded' /\ Directory' /\ Back({}) /\ Forth({})
        /\ OlderClean(n) => OlderClean(n)'
    BY <1>1, <1>3, <1>5, OnwardSame
  <2>2. Expects' = Expects
    BY <2>1 DEF Onward, Expects
  <2>3. ByCopy(n, i, staged, to, x, old, j)
    BY DEF CopyingAt
  <2>4. ByCopy(n, i, staged, to, x, old, j + 1)'
    <3>1. CASE j = 4
      BY <1>5, <2>1, <2>2, <2>3, <3>1, LikeFacts DEF ByCopy, Onward, Is, Since, Clean, Data
    <3>2. CASE j = 8
      BY <1>5, <2>1, <2>2, <2>3, <3>2, LikeFacts DEF ByCopy, Onward, Is, Since, Clean, Data
    <3> QED BY <3>1, <3>2
  <2> QED BY <1>3, <1>5, <2>1, <2>4 DEF CopyOn, Onward
<1>6. CASE Fails /\ (void => void')
  BY <1>1, <1>2, <1>3, <1>4, <1>6, GivesUpLate
<1> QED BY <1>3, <1>5, <1>6 DEF Does, Breaks

(* The copy is made: it has what the original has.                         *)
LEMMA Copy1 ==
  ASSUME NEW n, NEW i, NEW s, NEW k, NEW staged, NEW to, NEW x, NEW old,
         CopyingAt(n, i, s, k, staged, to, x, old, 1), call = Call("copy", staged, x, <<Clear(staged)>>)
  PROVE  FilesInv' \/ CopyOn(n, i, s, k, staged, to, x, old, 2)
<1>1. /\ InHandOf(n, i) /\ ~failing /\ System /\ IsList(s) /\ In(s, k) /\ k < Len(s)
      /\ Path \notin pending
      /\ Numbers /\ Recorded /\ Directory /\ Shape /\ failing \in BOOLEAN /\ void \in BOOLEAN
      /\ Path \in Names /\ staged \in Names /\ to \in Names
      /\ staged # Path /\ to # Path /\ staged # to /\ staged <= names /\ to <= names
      /\ to \in 1..names /\ staged \in n..(n + 3) /\ x \in Hand(i) /\ x \in 1..ids /\ x \in Int
      /\ i \in Int /\ x >= i /\ old \in 1..(i - 1) /\ old \in Int /\ old > 0 /\ calls # <<>>
      /\ \A m \in 1..(n - 1) : m \in Names /\ m # staged /\ m # to /\ m # Path
  BY CopyFacts
<1>2. At("copy") /\ call.a = staged /\ call.b = x /\ call.else = <<Clear(staged)>>
  BY <1>1 DEF At, Call
<1>3. /\ Frame
      /\ Does(dir[Path] # None, [dir EXCEPT ![staged] = IF dir[Path] = None THEN None
                                              ELSE [dir[Path] EXCEPT !.id = x, !.kind = "tree"]])
  BY <1>1, <1>2, OnCopy
<1>4. /\ Unused(x) /\ dir[staged] = None /\ dir[to] = None /\ Since(old, {"lower"})
      /\ void \/ (Safe(Hand(i)) /\ OlderClean(n) /\ OwnClean(i))
  BY DEF CopyingAt, ByCopy
<1>5. CASE /\ dir[Path] # None /\ Goes /\ Quiet
           /\ dir' = [dir EXCEPT ![staged] = IF dir[Path] = None THEN None
                                              ELSE [dir[Path] EXCEPT !.id = x, !.kind = "tree"]]
  <2>1. Onward(s, k)
    BY <1>1, <1>3, <1>5, OnwardIs
  <2>2. /\ Recorded' /\ Directory' /\ Back({staged}) /\ Forth({})
        /\ dir'[staged] # None /\ dir'[staged].id = x /\ dir'[staged].data = dir[Path].data
        /\ dir'[staged].kind = "tree"
        /\ dir'[staged].inside = dir[Path].inside /\ dir'[staged].done
        /\ \A m \in Names : m # staged => dir'[m] = dir[m]
    <3>1. undos' = undos /\ announced' = announced
      BY <1>5 DEF Quiet
    <3> QED BY <1>1, <1>3, <1>4, <1>5, <3>1, TidyCopied
  <2>3. Kinds(x, {"tree"})'
    BY <1>4, <2>2, KindsNew
  <2>4. dir'[Path] = dir[Path] /\ dir'[to] = None
    BY <1>1, <1>4, <2>2
  <2>5. Data(staged)' = Data(Path)
    BY <1>5, <2>2 DEF Data
  <2>6. Safe(Hand(i)) => Safe(Hand(i))'
    <3>1. living' = living /\ Expects' = Expects
      BY <2>1 DEF Onward, Expects
    <3>2. Safe(Hand(i)) => \A d \in Data(staged)' : Theirs(d) => d \in living
      BY <1>1, <2>5 DEF Safe
    <3> QED BY <2>2, <3>1, <3>2, SafeKept
  <2>7. OlderClean(n) => OlderClean(n)'
    BY <1>1, <2>2, OlderKept
  <2>8. OwnClean(i) => (Is(Path, old) => Clean(staged))'
    BY <1>1, <2>4, <2>5 DEF OwnClean, Is, Clean
  <2>9. ByCopy(n, i, staged, to, x, old, 2)'
    BY <1>4, <2>1, <2>2, <2>3, <2>4, <2>6, <2>7, <2>8 DEF ByCopy, Onward, Is, Since
  <2> QED BY <1>3, <2>1, <2>2, <2>9 DEF CopyOn, Onward
<1>6. CASE Fails /\ (void => void')
  BY <1>1, <1>2, <1>3, <1>4, <1>6, Clears
<1> QED BY <1>3, <1>5, <1>6 DEF Does, Breaks

(* Its removal is announced before it is renamed.                          *)
LEMMA Copy2 ==
  ASSUME NEW n, NEW i, NEW s, NEW k, NEW staged, NEW to, NEW x, NEW old,
         CopyingAt(n, i, s, k, staged, to, x, old, 2),
         call = Announce(<<RemoveCreatedTree(to, x)>>, <<Clear(staged)>>)
  PROVE  FilesInv' \/ CopyOn(n, i, s, k, staged, to, x, old, 3)
<1>1. /\ InHandOf(n, i) /\ ~failing /\ System /\ IsList(s) /\ In(s, k) /\ k < Len(s)
      /\ Path \notin pending
      /\ Numbers /\ Recorded /\ Directory /\ Shape /\ failing \in BOOLEAN /\ void \in BOOLEAN
      /\ Path \in Names /\ staged \in Names /\ to \in Names
      /\ staged # Path /\ to # Path /\ staged # to /\ staged <= names /\ to <= names
      /\ to \in 1..names /\ staged \in n..(n + 3) /\ x \in Hand(i) /\ x \in 1..ids /\ x \in Int
      /\ i \in Int /\ x >= i /\ old \in 1..(i - 1) /\ old \in Int /\ old > 0 /\ calls # <<>>
      /\ \A m \in 1..(n - 1) : m \in Names /\ m # staged /\ m # to /\ m # Path
  BY CopyFacts
<1>2. At("announce") /\ call.a = <<RemoveCreatedTree(to, x)>> /\ call.else = <<Clear(staged)>>
  BY <1>1 DEF At, Call, Announce
<1>3. ByCopy(n, i, staged, to, x, old, 2)
  BY DEF CopyingAt
<1>4. /\ Kinds(x, {"tree"}) /\ Is(staged, x) /\ dir[to] = None /\ (void \/ Safe(Hand(i)))
  BY <1>3 DEF ByCopy
<1>5. Done(to) /\ Kinds(x, {"file", "tree"}) /\ Numbers /\ to \in 0..names /\ x \in 1..ids
  <2>1. to \in 0..names
    BY <1>1
  <2> QED BY <1>1, <1>4, <2>1 DEF Done, Kinds
<1>6. PICK us : /\ us = <<RemoveCreatedTree(to, x)>> /\ us \in Seq(UndoSet) /\ Len(us) = 1 /\ Len(us) <= 2
                /\ \A l \in 1..Len(us) : UndoOK(us[l])
                /\ ExpectsOf(us) = {x}
  BY <1>5, RemoveTreeIs
<1>7. call.a = us
  BY <1>2, <1>6
<1>8. Frame /\ (OnRecordIs(n, i, s, k, us) \/ Breaks)
  BY <1>1, <1>2, <1>6, <1>7, AnnounceCall
<1>9. CASE OnRecordIs(n, i, s, k, us)
  <2>1. living' = living /\ dir' = dir /\ Expects' \subseteq Expects \cup {x}
    BY <1>6, <1>9 DEF OnRecordIs
  <2>2. Safe(Hand(i)) => Safe(Hand(i))'
    BY <1>1, <2>1, SafeAnnounced
  <2>3. ByCopy(n, i, staged, to, x, old, 3)'
    BY <1>3, <1>9, <2>2 DEF ByCopy, OnRecordIs, Is, Since, Clean, Data
  <2> QED BY <1>8, <1>9, <2>3 DEF CopyOn, OnRecordIs
<1>10. CASE Breaks
  <2>1. dir[staged].id \in Hand(i) /\ dir[staged].kind = "tree"
    BY <1>1, <1>4 DEF Is, Kinds
  <2> QED BY <1>1, <1>2, <1>4, <1>8, <1>10, <2>1, Clears DEF Breaks
<1> QED BY <1>8, <1>9, <1>10

(* It is renamed to the name it keeps.                                     *)
LEMMA Copy3 ==
  ASSUME NEW n, NEW i, NEW s, NEW k, NEW staged, NEW to, NEW x, NEW old,
         CopyingAt(n, i, s, k, staged, to, x, old, 3), call = Link(staged, to, <<Clear(staged)>>)
  PROVE  FilesInv' \/ CopyOn(n, i, s, k, staged, to, x, old, 4)
<1>1. /\ InHandOf(n, i) /\ ~failing /\ System /\ IsList(s) /\ In(s, k) /\ k < Len(s)
      /\ Path \notin pending
      /\ Numbers /\ Recorded /\ Directory /\ Shape /\ failing \in BOOLEAN /\ void \in BOOLEAN
      /\ Path \in Names /\ staged \in Names /\ to \in Names
      /\ staged # Path /\ to # Path /\ staged # to /\ staged <= names /\ to <= names
      /\ to \in 1..names /\ staged \in n..(n + 3) /\ x \in Hand(i) /\ x \in 1..ids /\ x \in Int
      /\ i \in Int /\ x >= i /\ old \in 1..(i - 1) /\ old \in Int /\ old > 0 /\ calls # <<>>
      /\ \A m \in 1..(n - 1) : m \in Names /\ m # staged /\ m # to /\ m # Path
  BY CopyFacts
<1>2. At("link") /\ call.a = staged /\ call.b = to /\ call.else = <<Clear(staged)>>
  BY <1>1 DEF At, Call, Link
<1>3. /\ Frame
      /\ Does(dir[staged] # None /\ dir[to] = None, [dir EXCEPT ![to] = dir[staged], ![staged] = None])
  BY <1>1, <1>2, OnRename
<1>4. ByCopy(n, i, staged, to, x, old, 3)
  BY DEF CopyingAt
<1>5. /\ Kinds(x, {"tree"}) /\ Is(staged, x) /\ dir[staged].done /\ dir[to] = None
      /\ (void \/ Safe(Hand(i)))
  BY <1>4 DEF ByCopy
<1>6. CASE Goes /\ Quiet /\ dir' = [dir EXCEPT ![to] = dir[staged], ![staged] = None]
  <2>1. Onward(s, k)
    BY <1>1, <1>3, <1>6, OnwardIs
  <2>2. Done(staged) /\ undos' = undos /\ announced' = announced
    BY <1>5, <1>6 DEF Done, Quiet
  <2>3. Recorded' /\ Directory'
    BY <1>1, <1>3, <1>5, <1>6, <2>2, TidyMoved
  <2>4. /\ Back({}) /\ Forth({}) /\ dir'[to] = dir[staged] /\ dir'[staged] = None
        /\ \A m \in Names : m # staged /\ m # to => dir'[m] = dir[m]
    <3>1. Shape /\ staged \in Names /\ to \in Names /\ staged # to /\ dir[to] = None
      BY <1>1, <1>5
    <3> QED BY <1>6, <3>1, MoveDir
  <2>5. Kinds(x, {"tree"})' /\ (Safe(Hand(i)) => Safe(Hand(i))')
    BY <1>5, <2>1, <2>4, LikeFacts DEF Onward
  <2>6. OlderClean(n) => OlderClean(n)'
    BY <1>1, <2>4, OlderKept
  <2>7. dir'[Path] = dir[Path]
    BY <1>1, <2>4
  <2>8. Clean(staged) => Clean(to)'
    BY <2>4 DEF Clean, Data
  <2>9. ByCopy(n, i, staged, to, x, old, 4)'
    BY <1>4, <1>5, <2>1, <2>4, <2>5, <2>6, <2>7, <2>8 DEF ByCopy, Onward, Is, Since
  <2> QED BY <1>3, <2>1, <2>3, <2>4, <2>9 DEF CopyOn, Onward
<1>7. CASE Fails /\ (void => void')
  <2>1. dir[staged].id \in Hand(i) /\ dir[staged].kind = "tree"
    BY <1>1, <1>5 DEF Is, Kinds
  <2> QED BY <1>1, <1>2, <1>3, <1>5, <1>7, <2>1, Clears
<1> QED BY <1>3, <1>6, <1>7 DEF Does, Breaks

(* From here on it is what restores the original, and no undo removes it.  *)
LEMMA Copy5 ==
  ASSUME NEW n, NEW i, NEW s, NEW k, NEW staged, NEW to, NEW x, NEW old,
         CopyingAt(n, i, s, k, staged, to, x, old, 5), call = Announce(<<Restore(to, None)>>, <<>>)
  PROVE  FilesInv' \/ CopyOn(n, i, s, k, staged, to, x, old, 6)
<1>1. /\ InHandOf(n, i) /\ ~failing /\ System /\ IsList(s) /\ In(s, k) /\ k < Len(s)
      /\ Path \notin pending
      /\ Numbers /\ Recorded /\ Directory /\ Shape /\ failing \in BOOLEAN /\ void \in BOOLEAN
      /\ Path \in Names /\ staged \in Names /\ to \in Names
      /\ staged # Path /\ to # Path /\ staged # to /\ staged <= names /\ to <= names
      /\ to \in 1..names /\ staged \in n..(n + 3) /\ x \in Hand(i) /\ x \in 1..ids /\ x \in Int
      /\ i \in Int /\ x >= i /\ old \in 1..(i - 1) /\ old \in Int /\ old > 0 /\ calls # <<>>
      /\ \A m \in 1..(n - 1) : m \in Names /\ m # staged /\ m # to /\ m # Path
  BY CopyFacts
<1>2. At("announce") /\ call.a = <<Restore(to, None)>> /\ call.else = <<>>
  BY <1>1 DEF At, Call, Announce
<1>3. ByCopy(n, i, staged, to, x, old, 5)
  BY DEF CopyingAt
<1>4. Is(to, x) /\ dir[to].done /\ (void \/ Safe(Hand(i)))
  BY <1>3 DEF ByCopy
<1>5. Done(to) /\ Numbers /\ to \in 1..names /\ None \in (1..ids) \cup {None}
  BY <1>1, <1>4 DEF Done
<1>6. PICK us : /\ us = <<Restore(to, None)>> /\ us \in Seq(UndoSet) /\ Len(us) = 1 /\ Len(us) <= 2
                /\ \A l \in 1..Len(us) : UndoOK(us[l])
                /\ ExpectsOf(us) = {None}
  BY <1>5, RestoreIs
<1>7. call.a = us
  BY <1>2, <1>6
<1>8. Frame /\ (OnRecordIs(n, i, s, k, us) \/ Breaks)
  BY <1>1, <1>2, <1>6, <1>7, AnnounceCall
<1>9. CASE OnRecordIs(n, i, s, k, us)
  <2>1. /\ living' = living /\ dir' = dir /\ Expects' \subseteq Expects \cup {None}
        /\ \A y \in Expects' : y = None \/ y < i
    BY <1>6, <1>9 DEF OnRecordIs
  <2>2. Safe(Hand(i)) => Safe({})'
    BY <1>1, <2>1, SafeAnnounced
  <2>3. x \notin Expects'
    <3>1. x # None /\ ~(x < i)
      BY <1>1, FilesAssumption
    <3> QED BY <2>1, <3>1
  <2>4. ByCopy(n, i, staged, to, x, old, 6)'
    BY <1>3, <1>9, <2>2, <2>3 DEF ByCopy, OnRecordIs, Is, Since, Clean, Data
  <2> QED BY <1>8, <1>9, <2>4 DEF CopyOn, OnRecordIs
<1>10. CASE Breaks
  <2>1. void \/ Safe({})
    BY <1>4, SafeLess
  <2> QED BY <1>1, <1>2, <1>8, <1>10, <2>1, GivesUpLate DEF Breaks
<1> QED BY <1>8, <1>9, <1>10

(* The original is emptied where it is: the copy has what was in it.       *)
LEMMA Copy6 ==
  ASSUME NEW n, NEW i, NEW s, NEW k, NEW staged, NEW to, NEW x, NEW old,
         CopyingAt(n, i, s, k, staged, to, x, old, 6), call = Call("inplace", old, None, <<>>)
  PROVE  FilesInv' \/ CopyOn(n, i, s, k, staged, to, x, old, 7)
<1>1. /\ InHandOf(n, i) /\ ~failing /\ System /\ IsList(s) /\ In(s, k) /\ k < Len(s)
      /\ Path \notin pending
      /\ Numbers /\ Recorded /\ Directory /\ Shape /\ failing \in BOOLEAN /\ void \in BOOLEAN
      /\ Path \in Names /\ staged \in Names /\ to \in Names
      /\ staged # Path /\ to # Path /\ staged # to /\ staged <= names /\ to <= names
      /\ to \in 1..names /\ staged \in n..(n + 3) /\ x \in Hand(i) /\ x \in 1..ids /\ x \in Int
      /\ i \in Int /\ x >= i /\ old \in 1..(i - 1) /\ old \in Int /\ old > 0 /\ calls # <<>>
      /\ \A m \in 1..(n - 1) : m \in Names /\ m # staged /\ m # to /\ m # Path
  BY CopyFacts
<1>2. At("inplace") /\ call.a = old /\ call.else = <<>>
  BY <1>1 DEF At, Call
<1>3. /\ Frame
      /\ Does(Id(Path) = old, [dir EXCEPT ![Path] = IF @ = None THEN None ELSE [@ EXCEPT !.data = None]])
  BY <1>1, <1>2, OnInPlace
<1>4. ByCopy(n, i, staged, to, x, old, 6)
  BY DEF CopyingAt
<1>5. /\ Kinds(x, {"tree"}) /\ Is(to, x) /\ dir[to].done /\ dir[staged] = None
      /\ Since(old, {"lower"}) /\ (Is(Path, old) => dir[to].data = dir[Path].data) /\ x \notin Expects
      /\ void \/ (Safe({}) /\ OlderClean(n) /\ (Is(Path, old) => Clean(to)))
  BY <1>4 DEF ByCopy
<1>6. CASE /\ Id(Path) = old /\ Goes /\ Quiet
           /\ dir' = [dir EXCEPT ![Path] = IF @ = None THEN None ELSE [@ EXCEPT !.data = None]]
  <2>0. dir[Path] # None /\ dir[Path].id = old /\ old # None /\ dir[Path].id > 0 /\ Is(Path, old)
    BY <1>1, <1>6, FilesAssumption DEF Id, Is
  <2>1. Onward(s, k)
    BY <1>1, <1>3, <1>6, OnwardIs
  <2>2. /\ Recorded' /\ Directory' /\ Back({Path}) /\ Forth({Path})
        /\ dir'[Path] # None /\ dir'[Path].id = dir[Path].id /\ dir'[Path].data = None
        /\ dir'[Path].kind = dir[Path].kind /\ dir'[Path].inside = dir[Path].inside
        /\ \A m \in Names : m # Path => dir'[m] = dir[m]
    <3>1. undos' = undos /\ announced' = announced
      BY <1>6 DEF Quiet
    <3> QED BY <1>1, <1>3, <1>6, <2>0, <3>1, TidyEmptied
  <2>3. dir[Path].inside = None
    <3>1. dir[Path].kind = "lower"
      BY <1>1, <1>5, <2>0 DEF Since
    <3>2. NodeOK(dir[Path])
      BY <1>1, <2>0 DEF Directory
    <3> QED BY <3>1, <3>2 DEF NodeOK
  <2>4. Data(Path)' = {}
    BY <2>2, <2>3 DEF Data
  <2>5. dir'[to] = dir[to] /\ dir'[staged] = None
    BY <1>1, <1>5, <2>2
  <2>6. living' = living /\ Expects' = Expects
    BY <2>1 DEF Onward, Expects
  <2>7. Kinds(x, {"tree"})'
    <3>1. dir'[Path].id # x
      BY <1>1, <2>0, <2>2
    <3> QED BY <1>5, <2>2, <3>1, KindsKept
  <2>8. ASSUME Safe({}) PROVE Safe({})'
    <3>1. ASSUME NEW d \in living PROVE \E l \in Names : Keeps(l, d, {})'
      <4>1. PICK m \in Names : Keeps(m, d, {})
        BY <2>8 DEF Safe
      <4>2. CASE m # Path
        <5>1. dir'[m] = dir[m]
          BY <2>2, <4>2
        <5> QED BY <2>6, <4>1, <5>1 DEF Keeps
      <4>3. CASE m = Path
        <5>1. d # None
          BY <1>1, FilesAssumption DEF Directory
        <5>2. dir[Path].data = d
          BY <2>3, <4>1, <4>3, <5>1 DEF Keeps
        <5>3. dir'[to] # None /\ dir'[to].data = d /\ dir'[to].id = x
          BY <1>5, <2>0, <2>5, <5>2 DEF Is
        <5>4. Keeps(to, d, {})'
          BY <1>5, <2>6, <5>3 DEF Keeps
        <5> QED BY <1>1, <5>4
      <4> QED BY <4>2, <4>3
    <3>2. ASSUME NEW m \in Names, NEW d \in Data(m)', Theirs(d) PROVE d \in living
      <4>1. m # Path
        BY <2>4
      <4>2. d \in Data(m)
        BY <2>2, <4>1 DEF Data
      <4> QED BY <2>8, <3>2, <4>2 DEF Safe
    <3> QED BY <2>6, <3>1, <3>2 DEF Safe, Theirs
  <2>9. OlderClean(n) => OlderClean(n)'
    BY <1>1, <2>2, OlderKept
  <2>10. Clean(to) => Clean(to)'
    BY <2>5, CleanKept
  <2>11. ByCopy(n, i, staged, to, x, old, 7)'
    BY <1>5, <2>0, <2>1, <2>4, <2>5, <2>6, <2>7, <2>8, <2>9, <2>10 DEF ByCopy, Onward, Is
  <2> QED BY <1>3, <2>1, <2>2, <2>11 DEF CopyOn, Onward
<1>7. CASE Fails /\ (void => void')
  <2>1. void \/ Safe({})
    BY <1>5
  <2> QED BY <1>1, <1>2, <1>3, <1>7, <2>1, GivesUpLate
<1> QED BY <1>3, <1>6, <1>7 DEF Does, Breaks

(* The emptied directory is removed by name.                               *)
LEMMA Copy7 ==
  ASSUME NEW n, NEW i, NEW s, NEW k, NEW staged, NEW to, NEW x, NEW old,
         CopyingAt(n, i, s, k, staged, to, x, old, 7), call = Call("rmdir", Path, None, <<>>)
  PROVE  FilesInv' \/ CopyOn(n, i, s, k, staged, to, x, old, 8)
<1>1. /\ InHandOf(n, i) /\ ~failing /\ System /\ IsList(s) /\ In(s, k) /\ k < Len(s)
      /\ Path \notin pending
      /\ Numbers /\ Recorded /\ Directory /\ Shape /\ failing \in BOOLEAN /\ void \in BOOLEAN
      /\ Path \in Names /\ staged \in Names /\ to \in Names
      /\ staged # Path /\ to # Path /\ staged # to /\ staged <= names /\ to <= names
      /\ to \in 1..names /\ staged \in n..(n + 3) /\ x \in Hand(i) /\ x \in 1..ids /\ x \in Int
      /\ i \in Int /\ x >= i /\ old \in 1..(i - 1) /\ old \in Int /\ old > 0 /\ calls # <<>>
      /\ \A m \in 1..(n - 1) : m \in Names /\ m # staged /\ m # to /\ m # Path
  BY CopyFacts
<1>2. At("rmdir") /\ call.else = <<>>
  BY <1>1 DEF At, Call
<1>3. Frame /\ Does(dir[Path] # None /\ dir[Path].kind # "file", [dir EXCEPT ![Path] = None])
  BY <1>1, <1>2, OnRemoveDir
<1>4. ByCopy(n, i, staged, to, x, old, 7)
  BY DEF CopyingAt
<1>5. /\ Kinds(x, {"tree"}) /\ Is(to, x) /\ dir[to].done /\ dir[staged] = None /\ x \notin Expects
      /\ dir[Path] # None => dir[Path].id < 0 \/ Data(Path) = {}
      /\ void \/ (Safe({}) /\ OlderClean(n) /\ Clean(to))
  BY <1>4 DEF ByCopy
<1>6. CASE dir[Path] # None /\ dir[Path].kind # "file" /\ Goes /\ Quiet
      /\ dir' = [dir EXCEPT ![Path] = None]
  <2>0. Data(Path) = {}
    <3>1. NodeOK(dir[Path])
      BY <1>1, <1>6 DEF Directory
    <3> QED BY <1>5, <1>6, <3>1 DEF NodeOK
  <2>1. Onward(s, k)
    BY <1>1, <1>3, <1>6, OnwardIs
  <2>2. Recorded' /\ Directory'
    <3>1. undos' = undos /\ announced' = announced
      BY <1>6 DEF Quiet
    <3> QED BY <1>1, <1>3, <1>6, <3>1, TidyDropped
  <2>3. /\ Back({}) /\ Forth({Path})
        /\ dir'[Path] = None /\ \A m \in Names : m # Path => dir'[m] = dir[m]
    BY <1>1, <1>6, PutDir
  <2>4. dir'[to] = dir[to] /\ dir'[staged] = None
    BY <1>1, <1>5, <2>3
  <2>5. living' = living /\ Expects' = Expects
    BY <2>1 DEF Onward, Expects
  <2>6. Kinds(x, {"tree"})'
    BY <1>5, <2>3, KindsKept
  <2>7. \A d \in living : ~Keeps(Path, d, {})
    <3>1. \A d \in living : d # None
      BY <1>1, FilesAssumption DEF Directory
    <3> QED BY <1>6, <2>0, <3>1 DEF Keeps, Data
  <2>8. Safe({}) => Safe({})'
    BY <2>3, <2>5, <2>7, SafeKept
  <2>9. OlderClean(n) => OlderClean(n)'
    BY <1>1, <2>3, OlderKept
  <2>10. Clean(to) => Clean(to)'
    BY <2>4, CleanKept
  <2>11. ByCopy(n, i, staged, to, x, old, 8)'
    BY <1>5, <2>1, <2>4, <2>5, <2>6, <2>8, <2>9, <2>10 DEF ByCopy, Onward, Is
  <2> QED BY <1>3, <2>1, <2>2, <2>3, <2>11 DEF CopyOn, Onward
<1>7. CASE Fails /\ (void => void')
  <2>1. void \/ Safe({})
    BY <1>5
  <2> QED BY <1>1, <1>2, <1>3, <1>7, <2>1, GivesUpLate
<1> QED BY <1>3, <1>6, <1>7 DEF Does, Breaks

(* set_aside_by_copy: each of the ten calls.                               *)
LEMMA AsideByCopyStep ==
  ASSUME NEW n, NEW i, InHandOf(n, i), ~failing, Path \notin pending, System,
         NEW old \in 1..(i - 1), NEW k \in 1..10, AsideByCopy(n, i, old, k)
  PROVE  FilesInv'
<1>1. /\ Numbers /\ Recorded /\ Directory /\ Shape /\ failing \in BOOLEAN /\ void \in BOOLEAN
      /\ n \in Names /\ (n + 1) \in Names /\ (n + 2) \in Names /\ (n + 3) \in Names
      /\ Path \in Names /\ Path = 0 /\ names \in Nat /\ n + 3 = names /\ n \in Nat /\ n > 0
      /\ i \in Nat /\ i > 0 /\ i + 1 = ids /\ ids \in Nat
      /\ phase = "acting" /\ calls # <<>> /\ n = base /\ i = new
  BY Handy, Ints DEF InHandOf
<1>0. /\ n # Path /\ n + 1 # Path /\ n + 2 # Path /\ n + 3 # Path /\ n # n + 1 /\ n # n + 2 /\ n # n + 3
      /\ n + 1 # n + 2 /\ n + 1 # n + 3 /\ n + 2 # n + 3
      /\ n <= names /\ n + 1 <= names /\ n + 2 <= names /\ n + 3 <= names /\ Path <= names
      /\ n \in n..(n + 3) /\ n + 1 \in n..(n + 3) /\ n + 2 \in n..(n + 3) /\ n + 3 \in n..(n + 3)
      /\ n \in 1..names /\ n + 1 \in 1..names /\ n + 2 \in 1..names /\ n + 3 \in 1..names
      /\ i \in 1..ids /\ i + 1 \in 1..ids
  BY <1>1
<1>2. Shape /\ n \in Names /\ (n + 1) \in Names /\ Path \in Names /\ n # Path /\ n + 1 # Path
  BY <1>0, <1>1
<1>91. \A m \in 1..(n - 1) : m \in Names /\ m # n /\ m # n + 1 /\ m # n + 2 /\ m # n + 3 /\ m # Path
  BY <1>1, Handy
<1>92. \A m \in (n + 1)..(n + 3) : m \in Names /\ m # n /\ m # Path
  <2>1. \A m \in (n + 1)..(n + 3) : m = n + 1 \/ m = n + 2 \/ m = n + 3
    BY <1>1
  <2> QED BY <1>0, <1>1, <2>1
<1>3. PICK s : AsideByCopyCalls(s, n + 1, n + 2, i, old)
  BY DEF AsideByCopyCalls
<1>4. s = set_aside_by_copy(n + 1, n + 2, i, old)
  BY <1>3 DEF AsideByCopyCalls
<1>6. /\ IsList(s) /\ Len(s) = 10
      /\ s[1] = Call("copy", n + 1, i, <<Clear(n + 1)>>)
      /\ s[2] = Announce(<<RemoveCreatedTree(n + 2, i)>>, <<Clear(n + 1)>>)
      /\ s[3] = Link(n + 1, n + 2, <<Clear(n + 1)>>)
      /\ s[4] = Sync
      /\ s[5] = Announce(<<Restore(n + 2, None)>>, <<>>)
      /\ s[6] = Call("inplace", old, None, <<>>)
      /\ s[7] = Call("rmdir", Path, None, <<>>)
      /\ s[8] = Sync
      /\ s[9] = Pend(n + 2)
      /\ s[10] = End
  BY <1>3, AsideByCopyList
<1>7. In(s, k) /\ call = s[k]
  BY <1>4, <1>6, Stepping DEF AsideByCopy
<1>8. ASSUME k \in 1..8 PROVE CopyingAt(n, i, s, k, n + 1, n + 2, i, old, k)
  BY <1>1, <1>6, <1>7, <1>8 DEF CopyingAt, CopyPlace, AsideByCopy
<1>9. ASSUME k \in 1..8, CopyOn(n, i, s, k, n + 1, n + 2, i, old, k + 1) PROVE FilesInv'
  <2>1. dir[n] = None /\ dir[n + 3] = None
    BY DEF AsideByCopy
  <2>2. dir'[n] = None /\ dir'[n + 3] = None
    BY <1>0, <1>1, <1>9, <2>1 DEF CopyOn
  <2>3. AsideByCopy(n, i, old, k + 1)'
    BY <1>4, <1>9, <2>2 DEF AsideByCopy, CopyOn
  <2>4. k + 1 \in 1..10
    BY <1>9
  <2>5. Acting(n, i)' /\ Path \notin pending'
    BY <1>9, <2>3, <2>4 DEF Acting, CopyOn
  <2> QED BY <1>9, <2>5, GoesOn DEF CopyOn
<1>10. CASE k = 1
  <2>1. CopyingAt(n, i, s, 1, n + 1, n + 2, i, old, 1) /\ call = s[1]
    BY <1>7, <1>8, <1>10
  <2>2. FilesInv' \/ CopyOn(n, i, s, 1, n + 1, n + 2, i, old, 2)
    BY <1>6, <2>1, Copy1
  <2> QED BY <1>9, <1>10, <2>2
<1>20. CASE k = 2
  <2>1. CopyingAt(n, i, s, 2, n + 1, n + 2, i, old, 2) /\ call = s[2]
    BY <1>7, <1>8, <1>20
  <2>2. FilesInv' \/ CopyOn(n, i, s, 2, n + 1, n + 2, i, old, 3)
    BY <1>6, <2>1, Copy2
  <2> QED BY <1>9, <1>20, <2>2
<1>30. CASE k = 3
  <2>1. CopyingAt(n, i, s, 3, n + 1, n + 2, i, old, 3) /\ call = s[3]
    BY <1>7, <1>8, <1>30
  <2>2. FilesInv' \/ CopyOn(n, i, s, 3, n + 1, n + 2, i, old, 4)
    BY <1>6, <2>1, Copy3
  <2> QED BY <1>9, <1>30, <2>2
<1>40. CASE k = 4
  <2>1. CopyingAt(n, i, s, 4, n + 1, n + 2, i, old, 4) /\ call = s[4]
    BY <1>7, <1>8, <1>40
  <2>2. FilesInv' \/ CopyOn(n, i, s, 4, n + 1, n + 2, i, old, 5)
    BY <1>6, <2>1, CopySame
  <2> QED BY <1>9, <1>40, <2>2
<1>50. CASE k = 5
  <2>1. CopyingAt(n, i, s, 5, n + 1, n + 2, i, old, 5) /\ call = s[5]
    BY <1>7, <1>8, <1>50
  <2>2. FilesInv' \/ CopyOn(n, i, s, 5, n + 1, n + 2, i, old, 6)
    BY <1>6, <2>1, Copy5
  <2> QED BY <1>9, <1>50, <2>2
<1>60. CASE k = 6
  <2>1. CopyingAt(n, i, s, 6, n + 1, n + 2, i, old, 6) /\ call = s[6]
    BY <1>7, <1>8, <1>60
  <2>2. FilesInv' \/ CopyOn(n, i, s, 6, n + 1, n + 2, i, old, 7)
    BY <1>6, <2>1, Copy6
  <2> QED BY <1>9, <1>60, <2>2
<1>70. CASE k = 7
  <2>1. CopyingAt(n, i, s, 7, n + 1, n + 2, i, old, 7) /\ call = s[7]
    BY <1>7, <1>8, <1>70
  <2>2. FilesInv' \/ CopyOn(n, i, s, 7, n + 1, n + 2, i, old, 8)
    BY <1>6, <2>1, Copy7
  <2> QED BY <1>9, <1>70, <2>2
<1>80. CASE k = 8
  <2>1. CopyingAt(n, i, s, 8, n + 1, n + 2, i, old, 8) /\ call = s[8]
    BY <1>7, <1>8, <1>80
  <2>2. FilesInv' \/ CopyOn(n, i, s, 8, n + 1, n + 2, i, old, 9)
    BY <1>6, <2>1, CopySame
  <2> QED BY <1>9, <1>80, <2>2
<1>90. CASE k = 9
  <2>0. IsList(s) /\ In(s, 9) /\ 9 < Len(s) /\ call = s[9]
    BY <1>6, <1>7, <1>90
  <2>1. At("pend") /\ call.a = n + 2
    BY <1>1, <1>6, <2>0 DEF At, Pend, Call
  <2>2. /\ Frame /\ In(s, 9 + 1)' /\ calls' # <<>> /\ failing' = FALSE /\ (void' <=> void)
        /\ Numbers' /\ Recorded' /\ Directory' /\ dir' = dir /\ undos' = undos
        /\ announced' = announced /\ living' = living /\ pending' = pending \cup {call.a}
        /\ Back({}) /\ Forth({}) /\ (OlderClean(n) => OlderClean(n)')
    BY <2>0, <2>1, PendCall
  <2>3. Path \notin pending' /\ Expects' = Expects
    BY <1>0, <2>1, <2>2 DEF Expects
  <2>4. ByCopy(n, i, n + 1, n + 2, i, old, 9)
    BY <1>90 DEF AsideByCopy
  <2>5. ByCopy(n, i, n + 1, n + 2, i, old, 10)'
    BY <2>2, <2>3, <2>4, LikeFacts DEF ByCopy, Clean, Data
  <2>6. Is(n + 2, i) /\ dir[n + 2].done
    BY <2>4 DEF ByCopy
  <2>7. AsideByCopy(n, i, old, 10)'
    BY <1>4, <1>90, <2>2, <2>5, <2>6 DEF AsideByCopy, Is
  <2>8. Acting(n, i)'
    BY <2>2, <2>3, <2>7 DEF Acting
  <2> QED BY <2>2, <2>3, <2>8, GoesOn
<1>100. CASE k = 10
  BY <1>1, <1>6, <1>7, <1>100, OnEnd DEF At, End, Call
<1> QED BY <1>10, <1>20, <1>30, <1>40, <1>50, <1>60, <1>70, <1>80, <1>90, <1>100

(* reclaim_by_copy: each of the thirteen calls.                            *)
LEMMA ReclaimByCopyStep ==
  ASSUME NEW n, NEW i, InHandOf(n, i), ~failing, Path \notin pending, System,
         NEW old \in 1..(i - 1), NEW k \in 1..13, ReclaimByCopy(n, i, old, k)
  PROVE  FilesInv'
<1>1. /\ Numbers /\ Recorded /\ Directory /\ Shape /\ failing \in BOOLEAN /\ void \in BOOLEAN
      /\ n \in Names /\ (n + 1) \in Names /\ (n + 2) \in Names /\ (n + 3) \in Names
      /\ Path \in Names /\ Path = 0 /\ names \in Nat /\ n + 3 = names /\ n \in Nat /\ n > 0
      /\ i \in Nat /\ i > 0 /\ i + 1 = ids /\ ids \in Nat
      /\ phase = "acting" /\ calls # <<>> /\ n = base /\ i = new
  BY Handy, Ints DEF InHandOf
<1>0. /\ n # Path /\ n + 1 # Path /\ n + 2 # Path /\ n + 3 # Path /\ n # n + 1 /\ n # n + 2 /\ n # n + 3
      /\ n + 1 # n + 2 /\ n + 1 # n + 3 /\ n + 2 # n + 3
      /\ n <= names /\ n + 1 <= names /\ n + 2 <= names /\ n + 3 <= names /\ Path <= names
      /\ n \in n..(n + 3) /\ n + 1 \in n..(n + 3) /\ n + 2 \in n..(n + 3) /\ n + 3 \in n..(n + 3)
      /\ n \in 1..names /\ n + 1 \in 1..names /\ n + 2 \in 1..names /\ n + 3 \in 1..names
      /\ i \in 1..ids /\ i + 1 \in 1..ids
  BY <1>1
<1>2. Shape /\ n \in Names /\ (n + 1) \in Names /\ Path \in Names /\ n # Path /\ n + 1 # Path
  BY <1>0, <1>1
<1>91. \A m \in 1..(n - 1) : m \in Names /\ m # n /\ m # n + 1 /\ m # n + 2 /\ m # n + 3 /\ m # Path
  BY <1>1, Handy
<1>92. \A m \in (n + 1)..(n + 3) : m \in Names /\ m # n /\ m # Path
  <2>1. \A m \in (n + 1)..(n + 3) : m = n + 1 \/ m = n + 2 \/ m = n + 3
    BY <1>1
  <2> QED BY <1>0, <1>1, <2>1
<1>3. PICK s : ReclaimByCopyCalls(s, n, n + 2, n + 3, i + 1, old)
  BY DEF ReclaimByCopyCalls
<1>4. s = reclaim_by_copy(n, n + 2, n + 3, i + 1, old)
  BY <1>3 DEF ReclaimByCopyCalls
<1>6. /\ IsList(s) /\ Len(s) = 13
      /\ s[1] = Clear(n)
      /\ s[2] = Call("copy", n + 2, i + 1, <<Clear(n + 2)>>)
      /\ s[3] = Announce(<<RemoveCreatedTree(n + 3, i + 1)>>, <<Clear(n + 2)>>)
      /\ s[4] = Link(n + 2, n + 3, <<Clear(n + 2)>>)
      /\ s[5] = Sync
      /\ s[6] = Announce(<<Restore(n + 3, None)>>, <<>>)
      /\ s[7] = Call("inplace", old, None, <<>>)
      /\ s[8] = Call("rmdir", Path, None, <<>>)
      /\ s[9] = Sync
      /\ s[10] = Link(n + 3, Path, <<>>)
      /\ s[11] = Sync
      /\ s[12] = Announce(<<>>, <<>>)
      /\ s[13] = End
  BY <1>3, ReclaimByCopyList
<1>7. In(s, k) /\ call = s[k]
  BY <1>4, <1>6, Stepping DEF ReclaimByCopy
<1>8. ASSUME k \in 2..9 PROVE CopyingAt(n, i, s, k, n + 2, n + 3, i + 1, old, k - 1)
  BY <1>1, <1>6, <1>7, <1>8 DEF CopyingAt, CopyPlace, ReclaimByCopy
<1>9. ASSUME k \in 2..9, CopyOn(n, i, s, k, n + 2, n + 3, i + 1, old, (k + 1) - 1) PROVE FilesInv'
  <2>1. dir[n] = None /\ dir[n + 1] = None
    BY <1>9 DEF ReclaimByCopy
  <2>2. dir'[n] = None /\ dir'[n + 1] = None
    BY <1>0, <1>1, <1>9, <2>1 DEF CopyOn
  <2>3. ReclaimByCopy(n, i, old, k + 1)'
    BY <1>4, <1>9, <2>2 DEF ReclaimByCopy, CopyOn
  <2>4. k + 1 \in 1..13
    BY <1>9
  <2>5. Acting(n, i)' /\ Path \notin pending'
    BY <1>9, <2>3, <2>4 DEF Acting, CopyOn
  <2> QED BY <1>9, <2>5, GoesOn DEF CopyOn
<1>5. ASSUME Frame, NEW l, Onward(s, l), Recorded', Directory', NEW j \in 1..13, ReclaimByCopy(n, i, old, j)'
      PROVE  FilesInv'
  <2>1. Path \notin pending' /\ failing' = FALSE
    BY <1>5 DEF Onward
  <2>2. Acting(n, i)'
    BY <1>5, <2>1 DEF Acting
  <2> QED BY <1>5, <2>2, NextCall
<1>11. ASSUME Frame, Fails, void => void', call.else = <<>>, k >= 10 PROVE FilesInv'
  <2>1. void \/ Safe({})
    BY <1>11 DEF ReclaimByCopy, ByCopy
  <2> QED BY <1>11, <2>1, GivesUpLate
<1>10. CASE k = 1
  <2>0. IsList(s) /\ In(s, 1) /\ 1 < Len(s) /\ call = s[1]
    BY <1>6, <1>7, <1>10
  <2>1. At("rmtree") /\ call.a = n /\ call.else = <<>>
    BY <1>1, <1>6, <2>0 DEF At, Clear, Call
  <2>2. Frame /\ Does(TRUE, [dir EXCEPT ![n] = None])
    BY <1>1, <2>1, OnRemoveTree
  <2>3. ByCopy(n, i, n + 2, n + 3, i + 1, old, 1 - 1) /\ Is(n, i) /\ dir[n].kind = "tree"
        /\ dir[n + 1] = None
    BY <1>10 DEF ReclaimByCopy
  <2>4. /\ Unused(i + 1) /\ dir[n + 2] = None /\ dir[n + 3] = None /\ Since(old, {"lower"})
        /\ void \/ (Safe(Hand(i)) /\ OlderClean(n) /\ OwnClean(i))
    BY <2>3 DEF ByCopy
  <2>5. CASE Goes /\ dir' = [dir EXCEPT ![n] = None] /\ Quiet
    <3>1. Onward(s, 1)
      BY <2>0, <2>2, <2>5, OnwardIs
    <3>2. Recorded' /\ Directory'
      BY <1>1, <2>2, <2>5, TidyDropped DEF Quiet
    <3>3. Back({}) /\ Forth({n}) /\ dir'[n] = None /\ \A m \in Names : m # n => dir'[m] = dir[m]
      BY <1>2, <2>5, PutDir
    <3>4. Unused(i + 1)' /\ (OwnClean(i) => OwnClean(i)')
      BY <2>4, <3>3, UnusedKept, OwnCleanKept
    <3>5. Safe(Hand(i)) => Safe(Hand(i))'
      <4>1. living' = living /\ Expects' = Expects
        BY <3>1 DEF Onward, Expects
      <4>2. \A d \in living : ~Keeps(n, d, Hand(i))
        BY <2>3 DEF Keeps, Is, Hand
      <4> QED BY <3>3, <4>1, <4>2, SafeKept
    <3>6. OlderClean(n) => OlderClean(n)'
      BY <1>91, <3>3, OlderKept
    <3>7. dir'[n + 1] = None /\ dir'[n + 2] = None /\ dir'[n + 3] = None /\ dir'[Path] = dir[Path]
      BY <1>0, <1>1, <2>3, <2>4, <3>3
    <3>8. ByCopy(n, i, n + 2, n + 3, i + 1, old, 2 - 1)'
      BY <2>4, <3>1, <3>4, <3>5, <3>6, <3>7 DEF ByCopy, Onward, Since
    <3>9. ReclaimByCopy(n, i, old, 2)'
      BY <1>4, <3>1, <3>3, <3>7, <3>8 DEF ReclaimByCopy, Onward
    <3> QED BY <1>5, <2>2, <3>1, <3>2, <3>9
  <2>6. CASE Fails /\ (void => void')
    BY <2>1, <2>2, <2>4, <2>6, GivesUp
  <2> QED BY <2>2, <2>5, <2>6 DEF Does, Breaks
<1>20. CASE k = 2
  <2>1. CopyingAt(n, i, s, 2, n + 2, n + 3, i + 1, old, 1) /\ call = s[2]
    BY <1>7, <1>8, <1>20
  <2>2. FilesInv' \/ CopyOn(n, i, s, 2, n + 2, n + 3, i + 1, old, 2)
    BY <1>6, <2>1, Copy1
  <2>3. 2 = (2 + 1) - 1
    OBVIOUS
  <2> QED BY <1>9, <1>20, <2>2, <2>3
<1>30. CASE k = 3
  <2>1. CopyingAt(n, i, s, 3, n + 2, n + 3, i + 1, old, 2) /\ call = s[3]
    BY <1>7, <1>8, <1>30
  <2>2. FilesInv' \/ CopyOn(n, i, s, 3, n + 2, n + 3, i + 1, old, 3)
    BY <1>6, <2>1, Copy2
  <2>3. 3 = (3 + 1) - 1
    OBVIOUS
  <2> QED BY <1>9, <1>30, <2>2, <2>3
<1>40. CASE k = 4
  <2>1. CopyingAt(n, i, s, 4, n + 2, n + 3, i + 1, old, 3) /\ call = s[4]
    BY <1>7, <1>8, <1>40
  <2>2. FilesInv' \/ CopyOn(n, i, s, 4, n + 2, n + 3, i + 1, old, 4)
    BY <1>6, <2>1, Copy3
  <2>3. 4 = (4 + 1) - 1
    OBVIOUS
  <2> QED BY <1>9, <1>40, <2>2, <2>3
<1>50. CASE k = 5
  <2>1. CopyingAt(n, i, s, 5, n + 2, n + 3, i + 1, old, 4) /\ call = s[5]
    BY <1>7, <1>8, <1>50
  <2>2. FilesInv' \/ CopyOn(n, i, s, 5, n + 2, n + 3, i + 1, old, 5)
    BY <1>6, <2>1, CopySame
  <2>3. 5 = (5 + 1) - 1
    OBVIOUS
  <2> QED BY <1>9, <1>50, <2>2, <2>3
<1>60. CASE k = 6
  <2>1. CopyingAt(n, i, s, 6, n + 2, n + 3, i + 1, old, 5) /\ call = s[6]
    BY <1>7, <1>8, <1>60
  <2>2. FilesInv' \/ CopyOn(n, i, s, 6, n + 2, n + 3, i + 1, old, 6)
    BY <1>6, <2>1, Copy5
  <2>3. 6 = (6 + 1) - 1
    OBVIOUS
  <2> QED BY <1>9, <1>60, <2>2, <2>3
<1>70. CASE k = 7
  <2>1. CopyingAt(n, i, s, 7, n + 2, n + 3, i + 1, old, 6) /\ call = s[7]
    BY <1>7, <1>8, <1>70
  <2>2. FilesInv' \/ CopyOn(n, i, s, 7, n + 2, n + 3, i + 1, old, 7)
    BY <1>6, <2>1, Copy6
  <2>3. 7 = (7 + 1) - 1
    OBVIOUS
  <2> QED BY <1>9, <1>70, <2>2, <2>3
<1>80. CASE k = 8
  <2>1. CopyingAt(n, i, s, 8, n + 2, n + 3, i + 1, old, 7) /\ call = s[8]
    BY <1>7, <1>8, <1>80
  <2>2. FilesInv' \/ CopyOn(n, i, s, 8, n + 2, n + 3, i + 1, old, 8)
    BY <1>6, <2>1, Copy7
  <2>3. 8 = (8 + 1) - 1
    OBVIOUS
  <2> QED BY <1>9, <1>80, <2>2, <2>3
<1>90. CASE k = 9
  <2>1. CopyingAt(n, i, s, 9, n + 2, n + 3, i + 1, old, 8) /\ call = s[9]
    BY <1>7, <1>8, <1>90
  <2>2. FilesInv' \/ CopyOn(n, i, s, 9, n + 2, n + 3, i + 1, old, 9)
    BY <1>6, <2>1, CopySame
  <2>3. 9 = (9 + 1) - 1
    OBVIOUS
  <2> QED BY <1>9, <1>90, <2>2, <2>3
<1>100. CASE k = 10
  <2>0. IsList(s) /\ In(s, 10) /\ 10 < Len(s) /\ call = s[10]
    BY <1>6, <1>7, <1>100
  <2>1. At("link") /\ call.a = n + 3 /\ call.b = Path /\ call.else = <<>>
    BY <1>1, <1>6, <2>0 DEF At, Link, Call
  <2>2. /\ Frame
        /\ Does(dir[n + 3] # None /\ dir[Path] = None, [dir EXCEPT ![Path] = dir[n + 3], ![n + 3] = None])
    BY <1>1, <2>1, OnRename
  <2>3. ByCopy(n, i, n + 2, n + 3, i + 1, old, 10 - 1) /\ dir[n] = None /\ dir[n + 1] = None
    BY <1>100 DEF ReclaimByCopy
  <2>4. /\ Kinds(i + 1, {"tree"}) /\ dir[n + 2] = None /\ Is(n + 3, i + 1) /\ dir[n + 3].done
        /\ i + 1 \notin Expects /\ (void \/ (Safe({}) /\ OlderClean(n)))
    BY <2>3 DEF ByCopy
  <2>5. CASE /\ dir[Path] = None /\ Goes /\ Quiet
             /\ dir' = [dir EXCEPT ![Path] = dir[n + 3], ![n + 3] = None]
    <3>1. Onward(s, 10)
      BY <2>0, <2>2, <2>5, OnwardIs
    <3>2. Done(n + 3)
      BY <2>4 DEF Done
    <3>3. Recorded' /\ Directory'
      BY <1>0, <1>1, <2>2, <2>5, <3>2, TidyMoved DEF Quiet
    <3>4. /\ Back({}) /\ Forth({}) /\ dir'[n + 3] = None
          /\ \A m \in Names : m # n + 3 /\ m # Path => dir'[m] = dir[m]
      <4>1. Shape /\ n + 3 \in Names /\ Path \in Names /\ n + 3 # Path /\ dir[Path] = None
        BY <1>0, <1>1, <2>5
      <4> QED BY <2>5, <4>1, MoveDir
    <3>5. Kinds(i + 1, {"tree"})' /\ (Safe({}) => Safe({})')
      BY <2>4, <3>1, <3>4, LikeFacts DEF Onward
    <3>6. OlderClean(n) => OlderClean(n)'
      BY <1>91, <3>4, OlderKept
    <3>7. dir'[n] = None /\ dir'[n + 1] = None /\ dir'[n + 2] = None
      BY <1>0, <1>1, <2>3, <2>4, <3>4
    <3>8. Clean(n + 3)' /\ Expects' = Expects
      BY <3>1, <3>4 DEF Clean, Data, Onward, Expects
    <3>9. ByCopy(n, i, n + 2, n + 3, i + 1, old, 11 - 1)'
      BY <2>4, <3>1, <3>5, <3>6, <3>7, <3>8 DEF ByCopy, Onward
    <3>10. ReclaimByCopy(n, i, old, 11)'
      BY <1>4, <3>1, <3>4, <3>7, <3>9 DEF ReclaimByCopy, Onward
    <3> QED BY <1>5, <2>2, <3>1, <3>3, <3>10
  <2> QED BY <1>11, <1>100, <2>1, <2>2, <2>5 DEF Does, Breaks
<1>110. CASE k = 11
  <2>0. IsList(s) /\ In(s, 11) /\ 11 < Len(s) /\ call = s[11]
    BY <1>6, <1>7, <1>110
  <2>1. At("sync") /\ call.else = <<>>
    BY <1>1, <1>6, <2>0 DEF At, Sync, Call
  <2>2. Frame /\ Does(TRUE, dir)
    BY <1>1, <2>1, OnSyncDir
  <2>3. CASE Goes /\ dir' = dir /\ Quiet
    <3>1. /\ Onward(s, 11) /\ Recorded' /\ Directory' /\ Back({}) /\ Forth({})
          /\ OlderClean(n) => OlderClean(n)'
      BY <2>0, <2>2, <2>3, OnwardSame
    <3>2. ByCopy(n, i, n + 2, n + 3, i + 1, old, 11 - 1) /\ Expects' = Expects
      BY <1>110, <3>1 DEF ReclaimByCopy, Onward, Expects
    <3>3. ByCopy(n, i, n + 2, n + 3, i + 1, old, 12 - 1)'
      BY <2>3, <3>1, <3>2, LikeFacts DEF ByCopy, Onward, Clean, Data
    <3>4. ReclaimByCopy(n, i, old, 12)'
      BY <1>4, <1>110, <2>3, <3>1, <3>3 DEF ReclaimByCopy, Onward
    <3> QED BY <1>5, <2>2, <3>1, <3>4
  <2> QED BY <1>11, <1>110, <2>1, <2>2, <2>3 DEF Does, Breaks
<1>120. CASE k = 12
  <2>0. IsList(s) /\ In(s, 12) /\ 12 < Len(s) /\ call = s[12]
    BY <1>6, <1>7, <1>120
  <2>1. At("announce") /\ call.a = <<>> /\ call.else = <<>>
    BY <1>1, <1>6, <2>0 DEF At, Announce, Call
  <2>2. PICK us : us = <<>>
    OBVIOUS
  <2>3. us \in Seq(UndoSet) /\ Len(us) = 0 /\ Len(us) <= 2
    BY <2>2
  <2>4. ExpectsOf(us) = {} /\ \A l \in 1..Len(us) : UndoOK(us[l])
    <3>1. 1..Len(us) = {}
      BY <2>3
    <3> QED BY <3>1 DEF ExpectsOf
  <2>5. call.a = us
    BY <2>1, <2>2
  <2>6. Frame /\ (OnRecordIs(n, i, s, 12, us) \/ Breaks)
    BY <2>0, <2>1, <2>3, <2>4, <2>5, AnnounceCall
  <2>7. CASE OnRecordIs(n, i, s, 12, us)
    <3>1. living' = living /\ dir' = dir /\ Expects' \subseteq Expects
      BY <2>4, <2>7 DEF OnRecordIs
    <3>2. Safe({}) => Safe({})'
      BY <1>1, <3>1, SafeAnnounced
    <3>3. ByCopy(n, i, n + 2, n + 3, i + 1, old, 12 - 1)
      BY <1>120 DEF ReclaimByCopy
    <3>4. ByCopy(n, i, n + 2, n + 3, i + 1, old, 13 - 1)'
      BY <2>7, <3>1, <3>2, <3>3 DEF ByCopy, OnRecordIs, Clean, Data
    <3>5. ReclaimByCopy(n, i, old, 13)'
      BY <1>4, <1>120, <2>7, <3>4 DEF ReclaimByCopy, OnRecordIs
    <3>6. Acting(n, i)' /\ Path \notin pending'
      BY <2>7, <3>5 DEF Acting, OnRecordIs
    <3> QED BY <2>6, <2>7, <3>6, GoesOn DEF OnRecordIs
  <2> QED BY <1>11, <1>120, <2>1, <2>6, <2>7 DEF Breaks
<1>130. CASE k = 13
  BY <1>1, <1>6, <1>7, <1>130, OnEnd DEF At, End, Call
<1> QED BY <1>10, <1>20, <1>30, <1>40, <1>50, <1>60, <1>70, <1>80, <1>90, <1>100, <1>110, <1>120, <1>130

(* reclaim: each of the nine calls.                                        *)
LEMMA ReclaimingStep ==
  ASSUME NEW n, NEW i, InHandOf(n, i), ~failing, Path \notin pending, System,
         NEW old \in 1..(i - 1), NEW k \in 1..9, Reclaiming(n, i, old, k)
  PROVE  FilesInv'
<1>1. /\ Numbers /\ Recorded /\ Directory /\ Shape /\ failing \in BOOLEAN /\ void \in BOOLEAN
      /\ n \in Names /\ (n + 1) \in Names /\ (n + 2) \in Names /\ (n + 3) \in Names
      /\ Path \in Names /\ Path = 0 /\ names \in Nat /\ n + 3 = names /\ n \in Nat /\ n > 0
      /\ i \in Nat /\ i > 0 /\ i + 1 = ids /\ ids \in Nat
      /\ phase = "acting" /\ calls # <<>> /\ n = base /\ i = new
  BY Handy, Ints DEF InHandOf
<1>0. /\ n # Path /\ n + 1 # Path /\ n + 2 # Path /\ n + 3 # Path /\ n # n + 1 /\ n # n + 2 /\ n # n + 3
      /\ n + 1 # n + 2 /\ n + 1 # n + 3 /\ n + 2 # n + 3
      /\ n <= names /\ n + 1 <= names /\ n + 2 <= names /\ n + 3 <= names /\ Path <= names
      /\ n \in n..(n + 3) /\ n + 1 \in n..(n + 3) /\ n + 2 \in n..(n + 3) /\ n + 3 \in n..(n + 3)
      /\ n \in 1..names /\ n + 1 \in 1..names /\ n + 2 \in 1..names /\ n + 3 \in 1..names
      /\ i \in 1..ids /\ i + 1 \in 1..ids
  BY <1>1
<1>2. Shape /\ n \in Names /\ (n + 1) \in Names /\ Path \in Names /\ n # Path /\ n + 1 # Path
  BY <1>0, <1>1
<1>91. \A m \in 1..(n - 1) : m \in Names /\ m # n /\ m # n + 1 /\ m # n + 2 /\ m # n + 3 /\ m # Path
  BY <1>1, Handy
<1>92. \A m \in (n + 1)..(n + 3) : m \in Names /\ m # n /\ m # Path
  <2>1. \A m \in (n + 1)..(n + 3) : m = n + 1 \/ m = n + 2 \/ m = n + 3
    BY <1>1
  <2> QED BY <1>0, <1>1, <2>1
<1>93. \A m \in (n + 2)..(n + 3) : m \in Names /\ m # n /\ m # n + 1 /\ m # Path
  <2>1. \A m \in (n + 2)..(n + 3) : m = n + 2 \/ m = n + 3
    BY <1>1
  <2> QED BY <1>0, <1>1, <2>1
<1>4. PICK s : s = reclaim(n, n + 1, i, old)
  OBVIOUS
<1>6. /\ IsList(s) /\ Len(s) = 9
      /\ s[1] = pin(old)
      /\ s[2] = Call("copy", n, i, <<Clear(n)>>)
      /\ s[3] = Announce(undo_reclaim(n + 1, i), <<Clear(n)>>)
      /\ s[4] = Call("away", n + 1, reclaim_by_copy(n, n + 2, n + 3, i + 1, old), <<Clear(n)>>)
      /\ s[5] = holds(n + 1, old, <<Link(n + 1, Path, <<>>), Clear(n)>>)
      /\ s[6] = Link(n, Path, <<Link(n + 1, Path, <<>>), Clear(n)>>)
      /\ s[7] = Sync
      /\ s[8] = Pend(n + 1)
      /\ s[9] = End
  BY <1>4, List9 DEF reclaim
<1>7. In(s, k) /\ call = s[k]
  BY <1>4, <1>6, Stepping DEF Reclaiming
<1>8. ASSUME Frame, Fails, void => void', call.else = <<>> PROVE FilesInv'
  <2>1. void \/ Safe(Hand(i))
    BY DEF Reclaiming
  <2> QED BY <1>8, <2>1, GivesUp
<1>15. ASSUME Frame, NEW l, Onward(s, l), Recorded', Directory', NEW j \in 1..9, Reclaiming(n, i, old, j)'
      PROVE  FilesInv'
  <2>1. Path \notin pending' /\ failing' = FALSE
    BY <1>15 DEF Onward
  <2>2. Acting(n, i)'
    BY <1>15, <2>1 DEF Acting
  <2> QED BY <1>15, <2>2, NextCall
<1>9. ASSUME Frame, Fails, void => void', call.else = <<Clear(n)>>, k \in 2..4 PROVE FilesInv'
  <2>1. dir[n] # None => dir[n].id \in Hand(i) /\ dir[n].kind = "tree"
    BY <1>1, <1>9 DEF Reclaiming, Is, Hand, Kinds
  <2>2. void \/ Safe(Hand(i))
    BY DEF Reclaiming
  <2> QED BY <1>0, <1>9, <2>1, <2>2, Clears
<1>11. ASSUME Frame, Fails, void => void', call.else = <<Link(n + 1, Path, <<>>), Clear(n)>>, k \in 5..6
       PROVE  FilesInv'
  <2>1. dir[n] # None => dir[n].id \in Hand(i) /\ dir[n].kind = "tree"
    BY <1>1, <1>11 DEF Reclaiming, Is, Hand, Kinds
  <2>2. void \/ Safe(Hand(i))
    BY DEF Reclaiming
  <2>3. Done(n + 1)
    BY <1>11 DEF Reclaiming, CaughtOr, Done
  <2> QED BY <1>11, <2>1, <2>2, <2>3, LinksAsideBack
<1>10. CASE k = 1
  <2>0. IsList(s) /\ In(s, 1) /\ 1 < Len(s) /\ call = s[1]
    BY <1>6, <1>7, <1>10
  <2>1. At("check") /\ call.a = old /\ call.else = <<>>
    BY <1>1, <1>6, <2>0 DEF At, pin, Call
  <2>2. Frame /\ Does(Id(Path) = old, dir)
    BY <1>1, <2>1, OnCheck
  <2>3. CASE Goes /\ dir' = dir /\ Quiet
    <3>1. /\ Onward(s, 1) /\ Recorded' /\ Directory' /\ Back({}) /\ Forth({})
          /\ OlderClean(n) => OlderClean(n)'
      BY <2>0, <2>2, <2>3, OnwardSame
    <3>2. Reclaiming(n, i, old, 2)'
      BY <1>1, <1>4, <1>10, <2>3, <3>1, LikeFacts DEF Reclaiming, Onward, Empty, Since
    <3> QED BY <1>15, <2>2, <3>1, <3>2
  <2> QED BY <1>8, <2>1, <2>2, <2>3 DEF Does, Breaks
<1>20. CASE k = 2
  <2>0. IsList(s) /\ In(s, 2) /\ 2 < Len(s) /\ call = s[2]
    BY <1>6, <1>7, <1>20
  <2>1. At("copy") /\ call.a = n /\ call.b = i /\ call.else = <<Clear(n)>>
    BY <1>1, <1>6, <2>0 DEF At, Call
  <2>2. /\ Frame
        /\ Does(dir[Path] # None, [dir EXCEPT ![n] = IF dir[Path] = None THEN None
                                                ELSE [dir[Path] EXCEPT !.id = i, !.kind = "tree"]])
    BY <1>1, <2>1, OnCopy
  <2>3. CASE /\ dir[Path] # None /\ Goes /\ Quiet
             /\ dir' = [dir EXCEPT ![n] = IF dir[Path] = None THEN None
                                                ELSE [dir[Path] EXCEPT !.id = i, !.kind = "tree"]]
    <3>0. /\ dir[n] = None /\ announced = 0 /\ Unused(i) /\ Unused(i + 1) /\ dir[n + 1] = None
          /\ Since(old, AllKinds)
      BY <1>20 DEF Reclaiming
    <3>1. Onward(s, 2)
      BY <2>0, <2>2, <2>3, OnwardIs
    <3>2. /\ Recorded' /\ Directory' /\ Back({n}) /\ Forth({})
          /\ dir'[n] # None /\ dir'[n].id = i /\ dir'[n].data = dir[Path].data /\ dir'[n].kind = "tree"
          /\ dir'[n].inside = dir[Path].inside /\ dir'[n].done
          /\ \A m \in Names : m # n => dir'[m] = dir[m]
      <4>1. undos' = undos /\ announced' = announced
        BY <2>3 DEF Quiet
      <4>2. Numbers /\ Recorded /\ Directory /\ Frame
        BY <1>1, <2>2
      <4>3. n \in Names /\ n # Path /\ n <= names /\ i \in 1..ids /\ dir[Path] # None /\ dir[n] = None
        BY <1>0, <1>1, <2>3, <3>0
      <4> QED BY <2>3, <4>1, <4>2, <4>3, TidyCopied
    <3>3. Kinds(i, {"tree"})'
      BY <3>0, <3>2, KindsNew
    <3>4. Unused(i + 1)'
      BY <1>1, <3>0, <3>2, UnusedKept
    <3>5. dir'[Path] = dir[Path] /\ dir'[n + 1] = None /\ \A m \in (n + 2)..(n + 3) : dir'[m] = dir[m]
      BY <1>0, <1>1, <1>93, <3>0, <3>2
    <3>6. Data(n)' = Data(Path)
      BY <2>3, <3>2 DEF Data
    <3>7. Safe(Hand(i)) => Safe(Hand(i))'
      <4>1. living' = living /\ Expects' = Expects
        BY <3>1 DEF Onward, Expects
      <4>2. Safe(Hand(i)) => \A d \in Data(n)' : Theirs(d) => d \in living
        BY <1>1, <3>6 DEF Safe
      <4> QED BY <3>2, <4>1, <4>2, SafeKept
    <3>8. OlderClean(n) => OlderClean(n)'
      BY <1>91, <3>2, OlderKept
    <3>9. OwnClean(i) => OwnClean(i)'
      BY <1>1, <3>2, OwnCleanKept
    <3>10. Reclaiming(n, i, old, 3)'
      BY <1>4, <1>20, <3>0, <3>1, <3>2, <3>3, <3>4, <3>5, <3>7, <3>8, <3>9 DEF Reclaiming, Onward,
         Empty, Is, Since
    <3> QED BY <1>15, <2>2, <3>1, <3>2, <3>10
  <2> QED BY <1>9, <1>20, <2>1, <2>2, <2>3 DEF Does, Breaks
<1>30. CASE k = 3
  <2>0. IsList(s) /\ In(s, 3) /\ 3 < Len(s) /\ call = s[3]
    BY <1>6, <1>7, <1>30
  <2>1. At("announce") /\ call.a = undo_reclaim(n + 1, i) /\ call.else = <<Clear(n)>>
    BY <1>1, <1>6, <2>0 DEF At, Announce, Call
  <2>2. Is(n, i) /\ dir[n].done /\ Kinds(i, {"tree"}) /\ dir[n + 1] = None
    BY <1>30 DEF Reclaiming
  <2>3. Done(n + 1) /\ Done(Path) /\ Kinds(i, {"file", "tree"}) /\ Numbers /\ n + 1 \in 1..names
        /\ i \in 1..ids
    BY <1>0, <1>1, <2>2 DEF Done, Kinds, Directory
  <2>4. PICK us : /\ us = <<RemoveCreatedTree(Path, i), Restore(n + 1, None)>>
                  /\ us \in Seq(UndoSet) /\ Len(us) = 2 /\ Len(us) <= 2
                  /\ \A l \in 1..Len(us) : UndoOK(us[l])
                  /\ ExpectsOf(us) = {i, None}
    BY <2>3, TwoUndos
  <2>5. call.a = us
    BY <2>1, <2>4 DEF undo_reclaim
  <2>6. Frame /\ (OnRecordIs(n, i, s, 3, us) \/ Breaks)
    BY <2>0, <2>1, <2>4, <2>5, AnnounceCall
  <2>7. CASE OnRecordIs(n, i, s, 3, us)
    <3>1. living' = living /\ dir' = dir /\ Expects' \subseteq Expects \cup {i, None}
      BY <2>4, <2>7 DEF OnRecordIs
    <3>2. Safe(Hand(i)) => Safe(Hand(i))'
      BY <1>1, <3>1, SafeAnnounced DEF Hand
    <3>3. Reclaiming(n, i, old, 4)'
      BY <1>4, <1>30, <2>2, <2>7, <3>2 DEF Reclaiming, OnRecordIs, Empty, Is, Since
    <3>4. Acting(n, i)' /\ Path \notin pending'
      BY <2>7, <3>3 DEF Acting, OnRecordIs
    <3> QED BY <2>6, <2>7, <3>4, GoesOn DEF OnRecordIs
  <2> QED BY <1>9, <1>30, <2>1, <2>6, <2>7 DEF Breaks
<1>40. CASE k = 4
  <2>0. IsList(s) /\ In(s, 4) /\ 4 < Len(s) /\ call = s[4]
    BY <1>6, <1>7, <1>40
  <2>1. /\ At("away") /\ call.a = n + 1 /\ call.b = reclaim_by_copy(n, n + 2, n + 3, i + 1, old)
        /\ call.else = <<Clear(n)>>
    BY <1>1, <1>6, <2>0 DEF At, Call
  <2>2. /\ Frame
        /\ \/ dir[Path] # None /\ dir[Path].kind = "lower" /\ calls' = call.b /\ Stays
           \/ Does(dir[Path] # None, [dir EXCEPT ![n + 1] = dir[Path], ![Path] = None])
    BY <1>1, <2>1, OnAway
  <2>5. /\ Kinds(i, {"tree"}) /\ Unused(i + 1) /\ Is(n, i) /\ dir[n].done /\ dir[n + 1] = None
        /\ Since(old, AllKinds) /\ Empty((n + 2)..(n + 3))
        /\ void \/ (Safe(Hand(i)) /\ OlderClean(n) /\ OwnClean(i))
    BY <1>40 DEF Reclaiming
  <2>3. CASE dir[Path] # None /\ dir[Path].kind = "lower" /\ calls' = call.b /\ Stays
    <3>11. PICK t : ReclaimByCopyCalls(t, n, n + 2, n + 3, i + 1, old)
      BY DEF ReclaimByCopyCalls
    <3>1. t = reclaim_by_copy(n, n + 2, n + 3, i + 1, old) /\ IsList(t) /\ Len(t) = 13
      BY <3>11, ReclaimByCopyList DEF ReclaimByCopyCalls
    <3>2. /\ In(t, 1)' /\ calls' # <<>> /\ failing' = FALSE /\ (void' <=> void) /\ dir' = dir
          /\ Numbers' /\ Recorded' /\ Directory' /\ pending' = pending /\ undos' = undos
          /\ announced' = announced /\ living' = living
          /\ Back({}) /\ Forth({}) /\ (OlderClean(n) => OlderClean(n)')
      <4>1. Frame /\ Stays /\ calls' = t /\ IsList(t) /\ Len(t) > 0
        <5>1. calls' = t
          BY <2>1, <2>3, <3>1, Zenon
        <5>2. Frame /\ Stays /\ IsList(t) /\ Len(t) = 13
          BY <2>2, <2>3, <3>1, Zenon
        <5> QED BY <5>1, <5>2
      <4> QED BY <4>1, AnotherList
    <3>4. dir[n + 2] = None /\ dir[n + 3] = None
      BY <1>1, <2>5 DEF Empty
    <3>5. Since(old, {"lower"})'
      BY <2>3, <2>5, <3>2 DEF Since
    <3>7. Unused(i + 1)' /\ (void' \/ (Safe(Hand(i))' /\ OlderClean(n)' /\ OwnClean(i)'))
      BY <2>5, <3>2, LikeFacts
    <3>8. ByCopy(n, i, n + 2, n + 3, i + 1, old, 1 - 1)'
      BY <3>2, <3>4, <3>5, <3>7 DEF ByCopy
    <3>9. dir[n].kind = "tree"
      BY <1>1, <2>5 DEF Is, Kinds
    <3>12. ReclaimByCopy(n, i, old, 1)'
      BY <2>5, <3>1, <3>2, <3>8, <3>9 DEF ReclaimByCopy, Is
    <3>10. Acting(n, i)' /\ Path \notin pending'
      BY <3>2, <3>12 DEF Acting
    <3> QED BY <2>2, <3>2, <3>10, GoesOn
  <2>4. CASE /\ dir[Path] # None /\ Goes /\ Quiet
             /\ dir' = [dir EXCEPT ![n + 1] = dir[Path], ![Path] = None]
    <3>0. Done(Path)
      BY <1>1 DEF Directory
    <3>1. Onward(s, 4)
      BY <2>0, <2>2, <2>4, OnwardIs
    <3>2. Recorded' /\ Directory'
      BY <1>0, <1>1, <2>2, <2>4, <2>5, <3>0, TidyMoved DEF Quiet
    <3>3. /\ Back({}) /\ Forth({}) /\ dir'[n + 1] = dir[Path] /\ dir'[Path] = None
          /\ \A m \in Names : m # n + 1 /\ m # Path => dir'[m] = dir[m]
      <4>1. Shape /\ Path \in Names /\ n + 1 \in Names /\ Path # n + 1 /\ dir[n + 1] = None
        BY <1>0, <1>1, <1>2, <2>5
      <4> QED BY <2>4, <4>1, MoveDir
    <3>4. /\ Kinds(i, {"tree"})' /\ Unused(i + 1)' /\ (Safe(Hand(i)) => Safe(Hand(i))')
          /\ OwnClean(i) => OwnClean(i)'
      BY <2>5, <3>1, <3>3, LikeFacts DEF Onward
    <3>5. OlderClean(n) => OlderClean(n)'
      BY <1>91, <3>3, OlderKept
    <3>6. CaughtOr(n + 1, old)' /\ Taken'
      BY <2>4, <2>5, <3>0, <3>3 DEF CaughtOr, Done, Since, Taken
    <3>7. dir'[n] = dir[n] /\ \A m \in (n + 2)..(n + 3) : dir'[m] = dir[m]
      BY <1>0, <1>1, <1>93, <3>3
    <3>8. Reclaiming(n, i, old, 5)'
      BY <1>4, <2>5, <3>1, <3>4, <3>5, <3>6, <3>7 DEF Reclaiming, Onward, Empty, Is
    <3> QED BY <1>15, <2>2, <3>1, <3>2, <3>8
  <2> QED BY <1>9, <1>40, <2>1, <2>2, <2>3, <2>4 DEF Does, Breaks
<1>50. CASE k = 5
  <2>0. IsList(s) /\ In(s, 5) /\ 5 < Len(s) /\ call = s[5]
    BY <1>6, <1>7, <1>50
  <2>1. At("holds") /\ call.a = n + 1 /\ call.b = old /\ call.else = <<Link(n + 1, Path, <<>>), Clear(n)>>
    BY <1>1, <1>6, <2>0 DEF At, holds, Call
  <2>2. /\ Frame
        /\ \/ Id(n + 1) = old /\ Goes /\ dir' = dir /\ Quiet
           \/ Id(n + 1) # old /\ Fails /\ (void' <=> void)
    BY <1>1, <2>1, HoldsCall
  <2>3. CASE Id(n + 1) = old /\ Goes /\ dir' = dir /\ Quiet
    <3>1. /\ Onward(s, 5) /\ Recorded' /\ Directory' /\ Back({}) /\ Forth({})
          /\ OlderClean(n) => OlderClean(n)'
      BY <2>0, <2>2, <2>3, OnwardSame
    <3>2. dir[n + 1] # None /\ dir[n + 1].id = old
      BY <1>50, <2>3 DEF Id, Reclaiming, CaughtOr
    <3>3. void \/ Clean(n + 1)
      BY <1>1, <1>50, <3>2 DEF Reclaiming, OwnClean
    <3>4. void \/ Clean(n + 1)'
      BY <2>3, <3>3, CleanKept
    <3>5. Reclaiming(n, i, old, 6)'
      BY <1>1, <1>4, <1>50, <2>3, <3>1, <3>2, <3>4, LikeFacts DEF Reclaiming, Onward, Empty, CaughtOr, Is
    <3> QED BY <1>15, <2>2, <3>1, <3>5
  <2> QED BY <1>11, <1>50, <2>1, <2>2, <2>3
<1>60. CASE k = 6
  <2>0. IsList(s) /\ In(s, 6) /\ 6 < Len(s) /\ call = s[6]
    BY <1>6, <1>7, <1>60
  <2>1. At("link") /\ call.a = n /\ call.b = Path /\ call.else = <<Link(n + 1, Path, <<>>), Clear(n)>>
    BY <1>1, <1>6, <2>0 DEF At, Link, Call
  <2>2. /\ Frame
        /\ Does(dir[n] # None /\ dir[Path] = None, [dir EXCEPT ![Path] = dir[n], ![n] = None])
    BY <1>1, <2>1, OnRename
  <2>3. CASE /\ dir[Path] = None /\ Goes /\ Quiet
             /\ dir' = [dir EXCEPT ![Path] = dir[n], ![n] = None]
    <3>0. /\ Done(n) /\ Kinds(i, {"tree"}) /\ Unused(i + 1) /\ CaughtOr(n + 1, old) /\ dir[n + 1].id = old
          /\ void \/ Clean(n + 1)
      BY <1>60 DEF Reclaiming, Is, Done
    <3>1. Onward(s, 6)
      BY <2>0, <2>2, <2>3, OnwardIs
    <3>2. Recorded' /\ Directory'
      BY <1>0, <1>1, <2>2, <2>3, <3>0, TidyMoved DEF Quiet
    <3>3. /\ Back({}) /\ Forth({}) /\ dir'[n] = None
          /\ \A m \in Names : m # n /\ m # Path => dir'[m] = dir[m]
      BY <1>2, <2>3, MoveDir
    <3>4. Kinds(i, {"tree"})' /\ Unused(i + 1)' /\ (Safe(Hand(i)) => Safe(Hand(i))')
      BY <3>0, <3>1, <3>3, LikeFacts DEF Onward
    <3>5. OlderClean(n) => OlderClean(n)'
      BY <1>91, <3>3, OlderKept
    <3>6. dir'[n + 1] = dir[n + 1] /\ \A m \in (n + 2)..(n + 3) : dir'[m] = dir[m]
      BY <1>0, <1>1, <1>93, <3>3
    <3>7. void \/ Clean(n + 1)'
      BY <3>0, <3>6, CleanKept
    <3>8. Reclaiming(n, i, old, 7)'
      BY <1>4, <1>60, <3>0, <3>1, <3>3, <3>4, <3>5, <3>6, <3>7 DEF Reclaiming, Onward, Empty, CaughtOr
    <3> QED BY <1>15, <2>2, <3>1, <3>2, <3>8
  <2> QED BY <1>11, <1>60, <2>1, <2>2, <2>3 DEF Does, Breaks
<1>70. CASE k = 7
  <2>0. IsList(s) /\ In(s, 7) /\ 7 < Len(s) /\ call = s[7]
    BY <1>6, <1>7, <1>70
  <2>1. At("sync") /\ call.else = <<>>
    BY <1>1, <1>6, <2>0 DEF At, Sync, Call
  <2>2. Frame /\ Does(TRUE, dir)
    BY <1>1, <2>1, OnSyncDir
  <2>3. CASE Goes /\ dir' = dir /\ Quiet
    <3>1. /\ Onward(s, 7) /\ Recorded' /\ Directory' /\ Back({}) /\ Forth({})
          /\ OlderClean(n) => OlderClean(n)'
      BY <2>0, <2>2, <2>3, OnwardSame
    <3>2. Reclaiming(n, i, old, 8)'
      BY <1>1, <1>4, <1>70, <2>3, <3>1, LikeFacts DEF Reclaiming, Onward, Empty, CaughtOr, Clean, Data
    <3> QED BY <1>15, <2>2, <3>1, <3>2
  <2> QED BY <1>8, <2>1, <2>2, <2>3 DEF Does, Breaks
<1>80. CASE k = 8
  <2>0. IsList(s) /\ In(s, 8) /\ 8 < Len(s) /\ call = s[8]
    BY <1>6, <1>7, <1>80
  <2>1. At("pend") /\ call.a = n + 1
    BY <1>1, <1>6, <2>0 DEF At, Pend, Call
  <2>2. /\ Frame /\ In(s, 8 + 1)' /\ calls' # <<>> /\ failing' = FALSE /\ (void' <=> void)
        /\ Numbers' /\ Recorded' /\ Directory' /\ dir' = dir /\ undos' = undos
        /\ announced' = announced /\ living' = living /\ pending' = pending \cup {call.a}
        /\ Back({}) /\ Forth({}) /\ (OlderClean(n) => OlderClean(n)')
    BY <2>0, <2>1, PendCall
  <2>3. Path \notin pending'
    BY <1>0, <2>1, <2>2
  <2>4. Reclaiming(n, i, old, 9)'
    BY <1>1, <1>4, <1>80, <2>2, LikeFacts DEF Reclaiming, Empty, CaughtOr, Clean, Data
  <2>5. Acting(n, i)'
    BY <2>2, <2>3, <2>4 DEF Acting
  <2> QED BY <2>2, <2>3, <2>5, GoesOn
<1>90. CASE k = 9
  BY <1>1, <1>6, <1>7, <1>90, OnEnd DEF At, End, Call
<1> QED BY <1>10, <1>20, <1>30, <1>40, <1>50, <1>60, <1>70, <1>80, <1>90

(* set_mode and set_owner until the file is open.                          *)
LEMMA LookingStep ==
  ASSUME NEW n, NEW i, InHandOf(n, i), ~failing, Path \notin pending, System,
         NEW old \in Int, NEW k \in 1..2, Looking(n, i, old, k)
  PROVE  FilesInv'
<1>1. /\ Numbers /\ Recorded /\ Directory /\ Shape /\ failing \in BOOLEAN /\ void \in BOOLEAN
      /\ Path \in Names /\ calls # <<>>
  BY Handy DEF InHandOf
<1>4. PICK s : s = <<pin(old), set_mode(1, 2)>>
  OBVIOUS
<1>6. IsList(s) /\ Len(s) = 2 /\ s[1] = pin(old) /\ s[2] = set_mode(1, 2)
  BY <1>4, List2
<1>7. In(s, k) /\ call = s[k]
  BY <1>4, <1>6, Stepping DEF Looking
<1>8. ASSUME Frame, Fails, void => void', call.else = <<>> PROVE FilesInv'
  <2>1. void \/ Safe(Hand(i))
    BY DEF Looking
  <2> QED BY <1>8, <2>1, GivesUp
<1>10. CASE k = 1
  <2>0. IsList(s) /\ In(s, 1) /\ 1 < Len(s) /\ call = s[1]
    BY <1>6, <1>7, <1>10
  <2>1. At("check") /\ call.a = old /\ call.else = <<>>
    BY <1>1, <1>6, <2>0 DEF At, pin, Call
  <2>2. Frame /\ Does(Id(Path) = old, dir)
    BY <1>1, <2>1, OnCheck
  <2>3. CASE Goes /\ dir' = dir /\ Quiet
    <3>1. /\ Onward(s, 1) /\ Recorded' /\ Directory' /\ Back({}) /\ Forth({})
          /\ OlderClean(n) => OlderClean(n)'
      BY <2>0, <2>2, <2>3, OnwardSame
    <3>2. Looking(n, i, old, 2)'
      BY <1>4, <1>10, <2>3, <3>1, LikeFacts DEF Looking, Onward, Empty
    <3>3. Acting(n, i)'
      BY <3>1, <3>2 DEF Acting, Onward
    <3> QED BY <2>2, <3>1, <3>3, NextCall
  <2> QED BY <1>8, <2>1, <2>2, <2>3 DEF Does, Breaks
<1>20. CASE k = 2
  <2>0. call = s[2]
    BY <1>7, <1>20
  <2>1. At("open") /\ call.a = 1 /\ call.b = 2 /\ call.else = <<>>
    BY <1>1, <1>6, <2>0 DEF At, set_mode, Call
  <2>2. /\ Frame
        /\ \/ /\ dir[Path] # None /\ calls' = change(Id(Path), 1, 2) /\ Stays
           \/ calls' = <<>> /\ failing' = TRUE /\ dir' = dir /\ Quiet /\ (void' <=> void)
           \/ Breaks
    BY <1>1, <2>1, OnOpen
  <2>3. CASE dir[Path] # None /\ calls' = change(Id(Path), 1, 2) /\ Stays
    <3>1. PICK x : x = Id(Path)
      OBVIOUS
    <3>2. x \in Int
      BY <1>1, <2>3, <3>1 DEF Id, Shape, Nodes
    <3>3. PICK t : t = change(x, 1, 2)
      OBVIOUS
    <3>4. IsList(t) /\ Len(t) = 3
      BY <3>3, List3 DEF change
    <3>5. calls' = t
      BY <2>3, <3>1, <3>3
    <3>6. Frame /\ Stays /\ Len(t) > 0
      BY <2>2, <2>3, <3>4
    <3>7. /\ In(t, 1)' /\ calls' # <<>> /\ failing' = FALSE /\ (void' <=> void) /\ dir' = dir
          /\ Numbers' /\ Recorded' /\ Directory' /\ pending' = pending /\ undos' = undos
          /\ announced' = announced /\ living' = living
          /\ Back({}) /\ Forth({}) /\ (OlderClean(n) => OlderClean(n)')
      BY <3>4, <3>5, <3>6, AnotherList
    <3>8. Changing(n, i, x, 1)'
      BY <1>20, <3>3, <3>7, LikeFacts DEF Changing, Looking, Empty
    <3>9. Acting(n, i)' /\ Path \notin pending'
      BY <3>2, <3>7, <3>8 DEF Acting
    <3> QED BY <2>2, <3>7, <3>9, GoesOn
  <2>4. CASE calls' = <<>> /\ failing' = TRUE /\ dir' = dir /\ Quiet /\ (void' <=> void)
    <3>1. Fails
      BY <2>1, <2>4 DEF Fails
    <3> QED BY <1>8, <2>1, <2>2, <2>4, <3>1
  <2> QED BY <1>8, <2>1, <2>2, <2>3, <2>4 DEF Breaks
<1> QED BY <1>10, <1>20

(* set_mode and set_owner from then on.                                    *)
LEMMA ChangingStep ==
  ASSUME NEW n, NEW i, InHandOf(n, i), ~failing, Path \notin pending, System,
         NEW x \in Int, NEW k \in 1..3, Changing(n, i, x, k)
  PROVE  FilesInv'
<1>1. /\ Numbers /\ Recorded /\ Directory /\ Shape /\ failing \in BOOLEAN /\ void \in BOOLEAN
      /\ Path \in Names /\ calls # <<>>
      /\ (n + 1) \in Names /\ (n + 2) \in Names /\ (n + 3) \in Names /\ n \in Names /\ n \in Nat
      /\ \A m \in 1..(n - 1) : m \in Names
  BY Handy DEF InHandOf
<1>2. \A m \in n..(n + 3) : m \in Names
  <2>1. \A m \in n..(n + 3) : m = n \/ m = n + 1 \/ m = n + 2 \/ m = n + 3
    BY <1>1
  <2> QED BY <1>1, <2>1
<1>4. PICK s : s = change(x, 1, 2)
  OBVIOUS
<1>6. /\ IsList(s) /\ Len(s) = 3 /\ s[1] = Announce(<<Undo("mode", Path, 1, 2)>>, <<>>)
      /\ s[2] = Call("chmod", x, 2, <<>>) /\ s[3] = End
  BY <1>4, List3 DEF change
<1>7. In(s, k) /\ call = s[k]
  BY <1>4, <1>6, Stepping DEF Changing
<1>8. ASSUME Frame, Fails, void => void', call.else = <<>> PROVE FilesInv'
  <2>1. void \/ Safe(Hand(i))
    BY DEF Changing
  <2> QED BY <1>8, <2>1, GivesUp
<1>10. CASE k = 1
  <2>0. IsList(s) /\ In(s, 1) /\ 1 < Len(s) /\ call = s[1]
    BY <1>6, <1>7, <1>10
  <2>9. PICK u : u = Undo("mode", Path, 1, 2)
    OBVIOUS
  <2>1. At("announce") /\ call.a = <<u>> /\ call.else = <<>>
    BY <1>1, <1>6, <2>0, <2>9 DEF At, Announce, Call
  <2>4. PICK us : /\ us = <<u>> /\ us \in Seq(UndoSet) /\ Len(us) = 1 /\ Len(us) <= 2
                  /\ \A l \in 1..Len(us) : UndoOK(us[l])
                  /\ ExpectsOf(us) = {}
    BY <1>1, <2>9, PlainIs
  <2>5. call.a = us
    BY <2>1, <2>4
  <2>6. Frame /\ (OnRecordIs(n, i, s, 1, us) \/ Breaks)
    BY <2>0, <2>1, <2>4, <2>5, AnnounceCall
  <2>7. CASE OnRecordIs(n, i, s, 1, us)
    <3>1. living' = living /\ dir' = dir /\ Expects' \subseteq Expects
      BY <2>4, <2>7 DEF OnRecordIs
    <3>2. Safe(Hand(i)) => Safe(Hand(i))'
      BY <1>1, <3>1, SafeAnnounced
    <3>3. Changing(n, i, x, 2)'
      BY <1>4, <1>10, <2>7, <3>2 DEF Changing, OnRecordIs, Empty
    <3>4. Acting(n, i)' /\ Path \notin pending'
      BY <2>7, <3>3 DEF Acting, OnRecordIs
    <3> QED BY <2>6, <2>7, <3>4, GoesOn DEF OnRecordIs
  <2> QED BY <1>8, <2>1, <2>6, <2>7 DEF Breaks
<1>20. CASE k = 2
  <2>0. IsList(s) /\ In(s, 2) /\ 2 < Len(s) /\ call = s[2]
    BY <1>6, <1>7, <1>20
  <2>1. At("chmod") /\ call.a = x /\ call.b = 2 /\ call.else = <<>>
    BY <1>1, <1>6, <2>0 DEF At, Call
  <2>2. Frame /\ Does(TRUE, [m \in Names |-> IF Id(m) = x THEN [dir[m] EXCEPT !.mode = 2] ELSE dir[m]])
    BY <1>1, <2>1, OnChmod
  <2>3. CASE /\ Goes /\ Quiet
             /\ dir' = [m \in Names |-> IF Id(m) = x THEN [dir[m] EXCEPT !.mode = 2] ELSE dir[m]]
    <3>1. Onward(s, 2)
      BY <2>0, <2>2, <2>3, OnwardIs
    <3>2. undos' = undos /\ announced' = announced /\ 2 \in Nat
      BY <2>3 DEF Quiet
    <3>3. Recorded' /\ Directory'
      BY <1>1, <2>2, <2>3, <3>2, TidyChmod
    <3>4. /\ Back({}) /\ Forth({})
          /\ \A m \in Names : dir'[m] = None <=> dir[m] = None
          /\ \A m \in Names : dir[m] # None => Like(dir'[m], dir[m])
      BY <1>1, <2>3, <3>2, ChmodDir
    <3>5. Safe(Hand(i)) => Safe(Hand(i))'
      BY <3>1, <3>4, LikeFacts DEF Onward
    <3>6. OlderClean(n) => OlderClean(n)'
      BY <1>1, <3>4 DEF OlderClean, Clean, Data, Like
    <3>7. Changing(n, i, x, 3)'
      BY <1>2, <1>4, <1>20, <3>1, <3>4, <3>5, <3>6 DEF Changing, Onward, Empty
    <3>8. Acting(n, i)'
      BY <3>1, <3>7 DEF Acting, Onward
    <3> QED BY <2>2, <3>1, <3>3, <3>8, NextCall
  <2> QED BY <1>8, <2>1, <2>2, <2>3 DEF Does, Breaks
<1>30. CASE k = 3
  BY <1>1, <1>6, <1>7, <1>30, OnEnd DEF At, End, Call
<1> QED BY <1>10, <1>20, <1>30

(* discard: each of the four calls.                                        *)
LEMMA DiscardingStep ==
  ASSUME NEW n, NEW i, InHandOf(n, i), ~failing, System,
         NEW old \in Int, NEW k \in 1..4, Discarding(n, i, old, k)
  PROVE  FilesInv'
<1>1. /\ Numbers /\ Recorded /\ Directory /\ Shape /\ failing \in BOOLEAN /\ void \in BOOLEAN
      /\ Path \in Names /\ calls # <<>>
  BY Handy DEF InHandOf
<1>4. PICK s : s = discard(old)
  OBVIOUS
<1>6. /\ IsList(s) /\ Len(s) = 4 /\ s[1] = pin(old)
      /\ s[2] = Announce(<<Undo("keep", Path, None, None)>>, <<>>)
      /\ s[3] = Pend(Path) /\ s[4] = End
  BY <1>4, List4 DEF discard
<1>7. In(s, k) /\ call = s[k]
  BY <1>4, <1>6, Stepping DEF Discarding
<1>5. void \/ Spared
  BY DEF Discarding
<1>8. ASSUME Frame, Fails, void => void', call.else = <<>> PROVE FilesInv'
  <2>1. void \/ Safe(Hand(i))
    BY DEF Discarding
  <2> QED BY <1>5, <1>8, <2>1, GivesUp
<1>10. CASE k = 1
  <2>0. IsList(s) /\ In(s, 1) /\ 1 < Len(s) /\ call = s[1]
    BY <1>6, <1>7, <1>10
  <2>1. At("check") /\ call.a = old /\ call.else = <<>>
    BY <1>1, <1>6, <2>0 DEF At, pin, Call
  <2>2. Frame /\ Does(Id(Path) = old, dir)
    BY <1>1, <2>1, OnCheck
  <2>3. CASE Goes /\ dir' = dir /\ Quiet
    <3>1. /\ Onward(s, 1) /\ Recorded' /\ Directory' /\ Back({}) /\ Forth({})
          /\ OlderClean(n) => OlderClean(n)'
      BY <2>0, <2>2, <2>3, OnwardSame
    <3>2. Spared => Spared'
      BY <2>3 DEF Spared, Clean, Data
    <3>3. Discarding(n, i, old, 2)'
      BY <1>4, <1>10, <2>3, <3>1, <3>2, LikeFacts DEF Discarding, Onward, Empty
    <3>4. Acting(n, i)'
      BY <3>1, <3>3 DEF Acting, Onward
    <3> QED BY <1>5, <2>2, <3>1, <3>2, <3>4, NextCall
  <2> QED BY <1>8, <2>1, <2>2, <2>3 DEF Does, Breaks
<1>20. CASE k = 2
  <2>0. IsList(s) /\ In(s, 2) /\ 2 < Len(s) /\ call = s[2]
    BY <1>6, <1>7, <1>20
  <2>9. PICK u : u = Undo("keep", Path, None, None)
    OBVIOUS
  <2>1. At("announce") /\ call.a = <<u>> /\ call.else = <<>>
    BY <1>1, <1>6, <2>0, <2>9 DEF At, Announce, Call
  <2>4. PICK us : /\ us = <<u>> /\ us \in Seq(UndoSet) /\ Len(us) = 1 /\ Len(us) <= 2
                  /\ \A l \in 1..Len(us) : UndoOK(us[l])
                  /\ ExpectsOf(us) = {}
    BY <1>1, <2>9, PlainIs
  <2>5. call.a = us
    BY <2>1, <2>4
  <2>6. Frame /\ (OnRecordIs(n, i, s, 2, us) \/ Breaks)
    BY <2>0, <2>1, <2>4, <2>5, AnnounceCall
  <2>7. CASE OnRecordIs(n, i, s, 2, us)
    <3>1. living' = living /\ dir' = dir /\ Expects' \subseteq Expects
      BY <2>4, <2>7 DEF OnRecordIs
    <3>2. Safe(Hand(i)) => Safe(Hand(i))'
      BY <1>1, <3>1, SafeAnnounced
    <3>5. Spared => Spared'
      BY <3>1 DEF Spared, Clean, Data
    <3>3. Discarding(n, i, old, 3)'
      BY <1>4, <1>20, <2>7, <3>2, <3>5 DEF Discarding, OnRecordIs, Empty
    <3>4. Acting(n, i)'
      BY <2>7, <3>3 DEF Acting, OnRecordIs
    <3> QED BY <1>5, <2>6, <2>7, <3>4, <3>5, GoesOn DEF OnRecordIs
  <2> QED BY <1>8, <2>1, <2>6, <2>7 DEF Breaks
<1>30. CASE k = 3
  <2>0. IsList(s) /\ In(s, 3) /\ 3 < Len(s) /\ call = s[3]
    BY <1>6, <1>7, <1>30
  <2>1. At("pend") /\ call.a = Path
    BY <1>1, <1>6, <2>0 DEF At, Pend, Call
  <2>2. /\ Frame /\ In(s, 3 + 1)' /\ calls' # <<>> /\ failing' = FALSE /\ (void' <=> void)
        /\ Numbers' /\ Recorded' /\ Directory' /\ dir' = dir /\ undos' = undos
        /\ announced' = announced /\ living' = living /\ pending' = pending \cup {call.a}
        /\ Back({}) /\ Forth({}) /\ (OlderClean(n) => OlderClean(n)')
    BY <2>0, <2>1, PendCall
  <2>3. Spared => Spared'
    BY <2>2 DEF Spared, Clean, Data
  <2>4. Discarding(n, i, old, 4)'
    BY <1>4, <1>30, <2>1, <2>2, <2>3, LikeFacts DEF Discarding, Empty
  <2>5. Acting(n, i)'
    BY <2>2, <2>4 DEF Acting
  <2> QED BY <1>5, <2>2, <2>3, <2>5, GoesOn
<1>40. CASE k = 4
  BY <1>1, <1>6, <1>7, <1>40, OnEnd DEF At, End, Call
<1> QED BY <1>10, <1>20, <1>30, <1>40

(* The next call of the action in hand.                                    *)
LEMMA ActingStep ==
  ASSUME NEW n, NEW i, InHandOf(n, i), Acting(n, i), System
  PROVE  FilesInv'
<1>1. ~failing
  BY DEF Acting
<1>2. \/ /\ Path \notin pending
         /\ \/ \E kind \in {"file", "dir", "tree"}, k \in 1..7 : Creating(n, i, kind, k)
            \/ \E old \in 1..(i - 1) :
                  \/ \E k \in 1..9 : Putting(n, i, old, k)
                  \/ \E k \in 1..7 : Aside(n, i, old, k)
                  \/ \E k \in 1..10 : AsideByCopy(n, i, old, k)
                  \/ \E k \in 1..9 : Reclaiming(n, i, old, k)
                  \/ \E k \in 1..13 : ReclaimByCopy(n, i, old, k)
            \/ \E old \in Int, k \in 1..2 : Looking(n, i, old, k)
            \/ \E x \in Int, k \in 1..3 : Changing(n, i, x, k)
      \/ \E old \in Int, k \in 1..4 : Discarding(n, i, old, k)
  BY DEF Acting
<1> QED BY <1>1, <1>2, CreatingStep, PuttingStep, AsideStep, AsideByCopyStep, ReclaimingStep,
           ReclaimByCopyStep, LookingStep, ChangingStep, DiscardingStep

-----------------------------------------------------------------------------
(* 10. The undos, call by call.                                            *)

(* The types of what the undo in hand works with.                          *)
LEMMA UndoHandy ==
  ASSUME FilesInv, phase = "undoing", undos # <<>>
  PROVE  /\ Numbers /\ Recorded /\ Directory /\ Shape /\ Done(Path)
         /\ failing \in BOOLEAN /\ void \in BOOLEAN
         /\ names \in Names /\ names \in Nat /\ Path \in Names /\ Path = 0
         /\ undo = undos[1] /\ 1 \in DOMAIN undos /\ undo \in UndoSet /\ UndoOK(undo)
         /\ undo.op = "restore" => undo.from \in Names /\ undo.from # Path /\ undo.from <= names
         /\ undo.op = "removetree" => undo.at \in Names /\ undo.at <= names
         /\ undo.op \in IdOps => undo.expect \in Expects
         /\ void \/ Safe({})
<1>1. /\ Numbers /\ Recorded /\ Directory /\ Shape /\ Done(Path)
      /\ failing \in BOOLEAN /\ void \in BOOLEAN /\ names \in Names /\ (void \/ Safe({}))
  BY DEF FilesInv, Directory, Numbers, Calls
<1>2. /\ names \in Nat /\ Path \in Names /\ Path = 0 /\ \A m \in 0..names : m \in Names
  BY <1>1, Ints
<1>3. undos \in Seq(UndoSet)
  BY <1>1 DEF Recorded
<1>4. undo = undos[1] /\ 1 \in DOMAIN undos /\ undo \in UndoSet
  BY <1>3 DEF undo
<1>5. UndoOK(undo)
  BY <1>1, <1>4 DEF Recorded
<1>6. /\ undo.op = "restore" => undo.from \in Names /\ undo.from # Path /\ undo.from <= names
      /\ undo.op = "removetree" => undo.at \in Names /\ undo.at <= names
  BY <1>2, <1>5 DEF UndoOK
<1>7. undo.op \in IdOps => undo.expect \in Expects
  BY <1>4 DEF Expects
<1> QED BY <1>1, <1>2, <1>4, <1>5, <1>6, <1>7

(* A call of an undo that removes nothing of others keeps the invariant.   *)
LEMMA UndoGoes ==
  ASSUME FilesInv, phase = "undoing", calls # <<>>, Frame, undos' = undos, announced' = announced,
         Recorded', Directory', void' \/ Safe({})',
         \/ calls' # <<>> /\ Undoes'
         \/ calls' = <<>> /\ failing' = TRUE
  PROVE  FilesInv'
<1>1. Numbers /\ Left
  BY DEF FilesInv, Numbers
<1>2. Left'
  BY <1>1 DEF Left, Frame
<1>3. Numbers'
  BY <1>1, <1>2 DEF Numbers, Frame, Names
<1>4. phase' = "undoing"
  BY DEF Frame
<1>5. Calls'
  BY <1>4 DEF Calls, Settled
<1> QED BY <1>3, <1>5 DEF FilesInv

(* A call of an undo fails: the invariant holds, and so it does of what    *)
(* follows.                                                                *)
LEMMA UndoFails ==
  ASSUME FilesInv, phase = "undoing", calls # <<>>, undos # <<>>, ~failing,
         Frame, Fails, void => void',
         \/ call.else = <<>>
         \/ /\ undo.op \in {"remove", "removetree"} /\ Done(names)
            /\ call.else = <<Link(names, undo.at, <<>>)>>
         \/ undo.op = "restore" /\ call.else = <<Call("exchange", undo.from, Path, <<>>)>>
  PROVE  FilesInv'
<1>1. /\ calls' = call.else /\ failing' = TRUE /\ dir' = dir /\ undos' = undos
      /\ announced' = announced /\ names' = names /\ living' = living
  BY DEF Fails, Quiet, Frame
<1>2. Recorded' /\ Directory'
  BY <1>1, UndoHandy, TidySame
<1>3. void' \/ Safe({})'
  BY <1>1, UndoHandy, SafeSame
<1>4. undo' = undo /\ (Done(names) => Done(names)')
  BY <1>1 DEF undo, Done
<1>5. call.else # <<>> => calls' # <<>> /\ Undoes'
  <2> SUFFICES ASSUME call.else # <<>> PROVE PuttingBack' /\ calls' # <<>>
    BY <1>1 DEF Undoes
  <2> QED BY <1>1, <1>4 DEF PuttingBack
<1> QED BY <1>1, <1>2, <1>3, <1>5, UndoGoes

(* The calls go on, and nothing in the directory is lost.                  *)
LEMMA UndoOnward ==
  ASSUME FilesInv, phase = "undoing", undos # <<>>, ~failing,
         NEW s, IsList(s), NEW k, In(s, k), k < Len(s), Frame, Goes
  PROVE  In(s, k + 1)' /\ calls' # <<>> /\ failing' = FALSE /\ (void' <=> void)
<1>1. failing \in BOOLEAN
  BY UndoHandy
<1> QED BY <1>1, Onwards DEF Goes

(* A call after which every node is one that was there before.             *)
LEMMA UndoLikewise ==
  ASSUME FilesInv, phase = "undoing", undos # <<>>, Frame, Back({}), Forth({}), undos' = undos,
         void => void'
  PROVE  void' \/ Safe({})'
<1>1. living' = living
  BY DEF Frame
<1> QED BY <1>1, UndoHandy, LikeFacts

(* What an undo removes is what mix made, and nothing of others is in it.  *)
LEMMA UndoDrops ==
  ASSUME FilesInv, phase = "undoing", undos # <<>>, Frame, Quiet, void => void',
         undo.op \in IdOps, undo.expect # None,
         NEW m \in Names, Is(m, undo.expect),
         dir[m].inside = None \/ undo.op \in {"removetree", "restore"},
         dir' = [dir EXCEPT ![m] = None]
  PROVE  Recorded' /\ Directory' /\ (void' \/ Safe({})')
<1>1. Recorded' /\ Directory'
  BY UndoHandy, TidyDropped DEF Quiet
<1>2. Back({}) /\ Forth({m})
  BY UndoHandy, PutDir
<1>3. \A d \in living : ~Keeps(m, d, {})
  <2>1. undo.expect \in Expects
    BY UndoHandy
  <2>2. living \subseteq Int
    BY UndoHandy DEF Directory
  <2>3. dir[m].inside = None \/ dir[m].kind # "dir"
    <3>1. undo.op \in {"removetree", "restore"} => Kinds(undo.expect, {"file", "tree"})
      BY UndoHandy DEF UndoOK
    <3> QED BY <3>1 DEF Kinds, Is
  <2>4. None \notin living
    BY <2>2, FilesAssumption
  <2> QED BY <2>1, <2>3, <2>4 DEF Keeps, Is
<1>4. living' = living /\ Expects' = Expects
  BY DEF Frame, Quiet, Expects
<1>5. Safe({}) => Safe({})'
  BY <1>2, <1>3, <1>4, SafeKept
<1> QED BY <1>1, <1>5, UndoHandy

(* The last call of an undo but its end.                                   *)
LEMMA LastIs ==
  ASSUME NEW S, NEW s \in Seq(S), NEW k \in Nat, k > 0, k = Len(s)
  PROVE  From(s, k) = <<s[k]>>
<1>1. s[k] \in S /\ \A j \in k..k : s[j] \in S
  OBVIOUS
<1>2. /\ SubSeq(s, k, k) \in Seq(S) /\ Len(SubSeq(s, k, k)) = 1
      /\ \A j \in 1..1 : SubSeq(s, k, k)[j] = s[k + j - 1]
  BY <1>1, SubSeqProperties
<1>3. PICK t, u : t = SubSeq(s, k, k) /\ u = <<s[k]>>
  OBVIOUS
<1>4. u \in Seq(S) /\ Len(u) = 1 /\ u[1] = s[k]
  BY <1>1, <1>3
<1>5. t = u
  <2>1. t \in Seq(S) /\ u \in Seq(S) /\ Len(t) = 1 /\ Len(u) = 1 /\ t[1] = u[1]
    BY <1>2, <1>3, <1>4
  <2>2. \A j \in 1..Len(t) : t[j] = u[j]
    BY <2>1
  <2> QED BY <2>1, <2>2, SeqEqual
<1> QED BY <1>3, <1>5 DEF From

(* The list of one call that is the whole undo.                            *)
LEMMA LastOne ==
  ASSUME NEW s, IsList(s), Len(s) = 5
  PROVE  From(s, 5) = <<s[5]>>
<1>1. PICK S : s \in Seq(S)
  BY DEF IsList
<1>2. PICK k : k \in Nat /\ k > 0 /\ k = 5 /\ k = Len(s)
  OBVIOUS
<1>3. k \in Nat /\ k > 0 /\ k = Len(s)
  BY <1>2
<1>4. From(s, k) = <<s[k]>>
  BY ONLY <1>1, <1>3, LastIs
<1> QED BY <1>2, <1>4

UndoingNow == FilesInv /\ phase = "undoing" /\ calls # <<>> /\ undos # <<>>

(* A call of an undo that leaves the directory as it is.                   *)
LEMMA UndoSame ==
  ASSUME UndoingNow, ~failing, NEW s, IsList(s), NEW k, In(s, k), k < Len(s), Frame, Goes, dir' = dir,
         undos' = undos, announced' = announced
  PROVE  /\ In(s, k + 1)' /\ calls' # <<>> /\ failing' = FALSE /\ (void' <=> void)
         /\ Recorded' /\ Directory' /\ (void' \/ Safe({})')
         /\ undo' = undo /\ names' = names
<1>1. FilesInv /\ phase = "undoing" /\ undos # <<>>
  BY DEF UndoingNow
<1>2. In(s, k + 1)' /\ calls' # <<>> /\ failing' = FALSE /\ (void' <=> void)
  BY <1>1, UndoOnward
<1>3. Recorded' /\ Directory' /\ Back({}) /\ Forth({})
  BY <1>1, UndoHandy, TidySame, SameDir
<1>4. void' \/ Safe({})'
  BY <1>1, <1>2, <1>3, UndoLikewise
<1>5. undo' = undo /\ names' = names
  BY DEF undo, Frame
<1> QED BY <1>2, <1>3, <1>4, <1>5

(* The undo goes on with the next call.                                    *)
LEMMA UndoNext ==
  ASSUME UndoingNow, Frame, undos' = undos, announced' = announced,
         Recorded', Directory', void' \/ Safe({})', calls' # <<>>, Undoes'
  PROVE  FilesInv'
  BY UndoGoes DEF UndoingNow

(* remove_created and remove_created_tree: the node is moved away, looked  *)
(* at, and removed.                                                        *)
Dooming(s, a, n, x, gone) ==
    /\ IsList(s) /\ Len(s) = 5
    /\ s[1] = Call("doom", a, n, <<>>) /\ s[2] = holds(n, x, <<Link(n, a, <<>>)>>)
    /\ s[3] = gone /\ s[4] = Sync /\ s[5] = End

(* The calls of both, one by one.                                          *)
LEMMA DoomingIs ==
  ASSUME NEW a, NEW n, NEW x
  PROVE  /\ Dooming(remove_created(a, n, x), a, n, x, Call("unlink", n, None, <<Link(n, a, <<>>)>>))
         /\ Dooming(remove_created_tree(a, n, x), a, n, x, Clear(n))
  BY List5 DEF Dooming, remove_created, remove_created_tree

(* The stage of both.                                                      *)
Dooms(s, x, k) == In(s, k) /\ (k = 1 => dir[names] = None) /\ Done(names) /\ (k = 3 => Is(names, x))

(* What is moved away is what the undo expects, or it is moved back.       *)
LEMMA DoomStep ==
  ASSUME UndoingNow, ~failing, System, undo.op \in {"remove", "removetree"},
         NEW s, NEW gone, Dooming(s, undo.at, names, undo.expect, gone),
         NEW k \in {1, 2, 4}, Dooms(s, undo.expect, k),
         \A j \in 1..5 : Dooms(s, undo.expect, j)' /\ Frame /\ undos' = undos /\ failing' = FALSE => Undoes'
  PROVE  FilesInv'
<1>0. FilesInv /\ phase = "undoing" /\ undos # <<>> /\ calls # <<>>
  BY DEF UndoingNow
<1>1. /\ Numbers /\ Recorded /\ Directory /\ Shape /\ failing \in BOOLEAN /\ void \in BOOLEAN
      /\ names \in Names /\ Path \in Names /\ names \in Nat
  BY <1>0, UndoHandy
<1>2. undo.at \in Names /\ undo.at <= names /\ Done(undo.at)
  BY <1>0, UndoHandy DEF UndoOK
<1>3. IsList(s) /\ Len(s) = 5 /\ In(s, k) /\ call = s[k] /\ k < Len(s)
  BY Stepping DEF Dooming, Dooms
<1>4. CASE k = 1
  <2>1. At("doom") /\ call.a = undo.at /\ call.b = names /\ call.else = <<>> /\ dir[names] = None
    BY <1>0, <1>3, <1>4 DEF At, Call, Dooming, Dooms
  <2>2. /\ Frame
        /\ \/ dir[undo.at] = None /\ calls' = <<End>> /\ Stays
           \/ dir[undo.at] # None
              /\ Does(TRUE, [dir EXCEPT ![names] = dir[undo.at], ![undo.at] = None])
           \/ Breaks
    BY <1>1, <2>1, OnDoom
  <2>3. CASE dir[undo.at] = None /\ calls' = <<End>> /\ Stays
    <3>1. undos' = undos /\ announced' = announced /\ dir' = dir /\ failing' = FALSE /\ void' = void
      BY <1>1, <2>2, <2>3 DEF Stays, Quiet, Frame
    <3>2. In(s, 5)' /\ calls' # <<>>
      <4>1. From(s, 5) = <<End>> /\ 5 \in 1..Len(s)
        <5>1. Len(s) = 5 /\ s[5] = End
          BY DEF Dooming
        <5>2. From(s, 5) = <<s[5]>>
          BY <1>3, LastOne
        <5> QED BY <5>1, <5>2
      <4> QED BY <2>3, <4>1 DEF In
    <3>3. Recorded' /\ Directory' /\ Back({}) /\ Forth({})
      BY <1>1, <2>2, <3>1, TidySame, SameDir
    <3>4. void' \/ Safe({})'
      BY <1>0, <2>2, <3>1, <3>3, UndoLikewise
    <3>5. Dooms(s, undo.expect, 5)'
      BY <2>2, <3>1, <3>2 DEF Dooms, Done, Frame, undo
    <3>6. Undoes'
      BY <2>2, <3>1, <3>5
    <3> QED BY <2>2, <3>1, <3>2, <3>3, <3>4, <3>6, UndoNext
  <2>4. CASE /\ dir[undo.at] # None /\ Goes /\ Quiet
             /\ dir' = [dir EXCEPT ![names] = dir[undo.at], ![undo.at] = None]
    <3>0. undo.at # names
      BY <2>1, <2>4
    <3>1. undos' = undos /\ announced' = announced
      BY <2>4 DEF Quiet
    <3>2. Recorded' /\ Directory'
      <4>1. /\ Numbers /\ Recorded /\ Directory /\ Frame /\ undo.at \in Names /\ names \in Names
            /\ names <= names /\ dir[names] = None /\ Done(undo.at)
        BY <1>1, <1>2, <2>1, <2>2
      <4> QED BY <2>4, <3>0, <3>1, <4>1, TidyMoved
    <3>3. /\ Back({}) /\ Forth({}) /\ dir'[names] = dir[undo.at]
      BY <1>1, <1>2, <2>1, <2>4, <3>0, MoveDir
    <3>4. In(s, 2)' /\ calls' # <<>> /\ failing' = FALSE /\ (void' <=> void)
      <4>1. In(s, 1 + 1)' /\ calls' # <<>> /\ failing' = FALSE /\ (void' <=> void)
        BY <1>0, <1>3, <1>4, <2>2, <2>4, UndoOnward
      <4> QED BY <4>1
    <3>5. void' \/ Safe({})'
      BY <1>0, <2>2, <3>1, <3>3, <3>4, UndoLikewise
    <3>6. Dooms(s, undo.expect, 2)'
      BY <1>2, <2>2, <3>3, <3>4 DEF Dooms, Done, Frame
    <3>7. Undoes'
      BY <2>2, <3>1, <3>4, <3>6
    <3> QED BY <2>2, <3>1, <3>2, <3>4, <3>5, <3>7, UndoNext
  <2>5. CASE Breaks
    BY <1>0, <2>1, <2>2, <2>5, UndoFails DEF Breaks
  <2> QED BY <2>2, <2>3, <2>4, <2>5 DEF Does
<1>5. CASE k = 2
  <2>1. /\ At("holds") /\ call.a = names /\ call.b = undo.expect /\ Done(names)
        /\ call.else = <<Link(names, undo.at, <<>>)>>
    BY <1>0, <1>3, <1>5 DEF At, Call, Dooming, Dooms, holds
  <2>2. /\ Frame
        /\ \/ Id(names) = undo.expect /\ Goes /\ dir' = dir /\ Quiet
           \/ Fails /\ (void' <=> void)
    BY <1>1, <2>1, HoldsCall
  <2>3. CASE Id(names) = undo.expect /\ Goes /\ dir' = dir /\ Quiet
    <3>0. undo.expect # None
      BY <1>0, UndoHandy DEF UndoOK
    <3>1. undos' = undos /\ announced' = announced
      BY <2>3 DEF Quiet
    <3>2. /\ In(s, 2 + 1)' /\ calls' # <<>> /\ failing' = FALSE /\ (void' <=> void)
          /\ Recorded' /\ Directory' /\ (void' \/ Safe({})')
      BY <1>3, <1>5, <2>2, <2>3, <3>1, UndoSame
    <3>3. Dooms(s, undo.expect, 3)'
      <4>1. Is(names, undo.expect)
        BY <2>3, <3>0 DEF Id, Is
      <4> QED BY <2>1, <2>2, <2>3, <3>1, <3>2, <4>1 DEF Dooms, Done, Is, Frame, undo
    <3>4. Undoes'
      BY <2>2, <3>1, <3>2, <3>3
    <3> QED BY <2>2, <3>1, <3>2, <3>4, UndoNext
  <2>4. CASE Fails /\ (void' <=> void)
    BY <1>0, <2>1, <2>2, <2>4, UndoFails
  <2> QED BY <2>2, <2>3, <2>4
<1>6. CASE k = 4
  <2>1. At("sync") /\ call.else = <<>>
    BY <1>0, <1>3, <1>6 DEF At, Call, Dooming, Dooms, Sync
  <2>2. Frame /\ Does(TRUE, dir)
    BY <1>1, <2>1, OnSyncDir
  <2>3. CASE Goes /\ dir' = dir /\ Quiet
    <3>1. undos' = undos /\ announced' = announced
      BY <2>3 DEF Quiet
    <3>2. /\ In(s, 4 + 1)' /\ calls' # <<>> /\ failing' = FALSE /\ (void' <=> void)
          /\ Recorded' /\ Directory' /\ (void' \/ Safe({})')
      BY <1>3, <1>6, <2>2, <2>3, <3>1, UndoSame
    <3>3. Dooms(s, undo.expect, 5)'
      BY <1>6, <2>2, <2>3, <3>2 DEF Dooms, Done, Frame
    <3>4. Undoes'
      BY <2>2, <3>1, <3>2, <3>3
    <3> QED BY <2>2, <3>1, <3>2, <3>4, UndoNext
  <2>4. CASE Fails /\ (void => void')
    BY <1>0, <2>1, <2>2, <2>4, UndoFails
  <2> QED BY <1>1, <2>2, <2>3, <2>4 DEF Does, Breaks
<1> QED BY <1>4, <1>5, <1>6

(* remove_created: each of the five calls.                                 *)
LEMMA RemovingStep ==
  ASSUME UndoingNow, ~failing, System, NEW k \in 1..5, Removing(k)
  PROVE  FilesInv'
<1>0. FilesInv /\ phase = "undoing" /\ undos # <<>> /\ calls # <<>> /\ undo.op = "remove"
  BY DEF UndoingNow, Removing
<1>1. /\ failing \in BOOLEAN /\ void \in BOOLEAN /\ names \in Names /\ undo.at = Path
      /\ undo.expect # None /\ undo.op \in IdOps
  BY <1>0, UndoHandy DEF UndoOK, IdOps
<1>2. PICK s, gone : /\ s = remove_created(Path, names, undo.expect)
                     /\ gone = Call("unlink", names, None, <<Link(names, Path, <<>>)>>)
  OBVIOUS
<1>3. Dooming(s, undo.at, names, undo.expect, gone)
  BY <1>1, <1>2, DoomingIs
<1>4. Dooms(s, undo.expect, k)
  BY <1>2 DEF Removing, Dooms
<1>5. ASSUME NEW j \in 1..5, Dooms(s, undo.expect, j)', Frame, undos' = undos, failing' = FALSE
      PROVE  Undoes'
  <2>1. undo' = undo /\ names' = names
    BY <1>5 DEF undo, Frame
  <2>2. Removing(j)'
    BY <1>0, <1>2, <1>5, <2>1 DEF Removing, Dooms
  <2> QED BY <1>0, <1>5, <2>2 DEF Undoes
<1>6. CASE k \in {1, 2, 4}
  BY <1>0, <1>3, <1>4, <1>5, <1>6, DoomStep
<1>7. IsList(s) /\ Len(s) = 5 /\ In(s, k) /\ call = s[k]
  BY <1>3, <1>4, Stepping DEF Dooming, Dooms
<1>8. CASE k = 3
  <2>1. /\ At("unlink") /\ call.a = names /\ call.else = <<Link(names, Path, <<>>)>>
        /\ Is(names, undo.expect) /\ Done(names)
    BY <1>0, <1>2, <1>3, <1>4, <1>7, <1>8 DEF At, Call, Dooming, Dooms
  <2>2. Frame /\ Does(dir[names] # None /\ dir[names].inside = None, [dir EXCEPT ![names] = None])
    BY <1>1, <2>1, OnUnlinkNode
  <2>3. CASE dir[names].inside = None /\ Goes /\ Quiet /\ dir' = [dir EXCEPT ![names] = None]
    <3>0. IsList(s) /\ In(s, 3) /\ 3 < Len(s)
      BY <1>7, <1>8
    <3>1. In(s, 3 + 1)' /\ calls' # <<>> /\ failing' = FALSE /\ (void' <=> void)
      BY <1>0, <2>2, <2>3, <3>0, UndoOnward
    <3>2. Recorded' /\ Directory' /\ (void' \/ Safe({})')
      BY <1>0, <1>1, <2>1, <2>2, <2>3, <3>1, UndoDrops
    <3>3. undos' = undos /\ announced' = announced
      BY <2>3 DEF Quiet
    <3>4. Dooms(s, undo.expect, 4)'
      <4>1. dir'[names] = None /\ names' = names
        BY <1>0, <1>1, <2>2, <2>3, UndoHandy DEF Frame, Shape
      <4> QED BY <3>1, <4>1 DEF Dooms, Done
    <3>5. Undoes'
      <4>1. undo' = undo /\ names' = names /\ failing' = FALSE /\ undos' # <<>>
        BY <1>0, <2>2, <3>1, <3>3 DEF undo, Frame
      <4>2. Removing(4)'
        BY <1>0, <1>2, <3>4, <4>1 DEF Removing, Dooms
      <4> QED BY <4>1, <4>2 DEF Undoes
    <3> QED BY <2>2, <3>1, <3>2, <3>3, <3>5, UndoNext
  <2>4. CASE Fails /\ (void => void')
    BY <1>0, <1>1, <2>1, <2>2, <2>4, UndoFails
  <2> QED BY <1>1, <2>2, <2>3, <2>4 DEF Does, Breaks
<1>9. CASE k = 5
  <2>1. At("end")
    BY <1>0, <1>3, <1>7, <1>9 DEF At, Call, Dooming, End
  <2> QED BY <2>1, OnEnd
<1> QED BY <1>6, <1>8, <1>9

(* remove_created_tree: each of the five calls.                            *)
LEMMA RemovingTreeStep ==
  ASSUME UndoingNow, ~failing, System, NEW k \in 1..5, RemovingTree(k)
  PROVE  FilesInv'
<1>0. FilesInv /\ phase = "undoing" /\ undos # <<>> /\ calls # <<>> /\ undo.op = "removetree"
  BY DEF UndoingNow, RemovingTree
<1>1. /\ failing \in BOOLEAN /\ void \in BOOLEAN /\ names \in Names
      /\ undo.expect # None /\ undo.op \in IdOps
  BY <1>0, UndoHandy DEF UndoOK, IdOps
<1>2. PICK s, gone : s = remove_created_tree(undo.at, names, undo.expect) /\ gone = Clear(names)
  OBVIOUS
<1>3. Dooming(s, undo.at, names, undo.expect, gone)
  BY <1>2, DoomingIs
<1>4. Dooms(s, undo.expect, k)
  BY <1>2 DEF RemovingTree, Dooms
<1>5. ASSUME NEW j \in 1..5, Dooms(s, undo.expect, j)', Frame, undos' = undos, failing' = FALSE
      PROVE  Undoes'
  <2>1. undo' = undo /\ names' = names
    BY <1>5 DEF undo, Frame
  <2>2. RemovingTree(j)'
    BY <1>0, <1>2, <1>5, <2>1 DEF RemovingTree, Dooms
  <2> QED BY <1>0, <1>5, <2>2 DEF Undoes
<1>6. CASE k \in {1, 2, 4}
  BY <1>0, <1>3, <1>4, <1>5, <1>6, DoomStep
<1>7. IsList(s) /\ Len(s) = 5 /\ In(s, k) /\ call = s[k]
  BY <1>3, <1>4, Stepping DEF Dooming, Dooms
<1>8. CASE k = 3
  <2>1. At("rmtree") /\ call.a = names /\ call.else = <<>> /\ Is(names, undo.expect)
    BY <1>0, <1>2, <1>3, <1>4, <1>7, <1>8 DEF At, Call, Dooming, Dooms, Clear
  <2>2. Frame /\ Does(TRUE, [dir EXCEPT ![names] = None])
    BY <1>1, <2>1, OnRemoveTree
  <2>3. CASE Goes /\ Quiet /\ dir' = [dir EXCEPT ![names] = None]
    <3>0. IsList(s) /\ In(s, 3) /\ 3 < Len(s)
      BY <1>7, <1>8
    <3>1. In(s, 3 + 1)' /\ calls' # <<>> /\ failing' = FALSE /\ (void' <=> void)
      BY <1>0, <2>2, <2>3, <3>0, UndoOnward
    <3>2. Recorded' /\ Directory' /\ (void' \/ Safe({})')
      BY <1>0, <1>1, <2>1, <2>2, <2>3, <3>1, UndoDrops
    <3>3. undos' = undos /\ announced' = announced
      BY <2>3 DEF Quiet
    <3>4. Dooms(s, undo.expect, 4)'
      <4>1. dir'[names] = None /\ names' = names
        BY <1>0, <1>1, <2>2, <2>3, UndoHandy DEF Frame, Shape
      <4> QED BY <3>1, <4>1 DEF Dooms, Done
    <3>5. Undoes'
      <4>1. undo' = undo /\ names' = names /\ failing' = FALSE /\ undos' # <<>>
        BY <1>0, <2>2, <3>1, <3>3 DEF undo, Frame
      <4>2. RemovingTree(4)'
        BY <1>0, <1>2, <3>4, <4>1 DEF RemovingTree, Dooms
      <4> QED BY <4>1, <4>2 DEF Undoes
    <3> QED BY <2>2, <3>1, <3>2, <3>3, <3>5, UndoNext
  <2>4. CASE Fails /\ (void => void')
    BY <1>0, <1>1, <2>1, <2>2, <2>4, UndoFails
  <2> QED BY <1>1, <2>2, <2>3, <2>4 DEF Does, Breaks
<1>9. CASE k = 5
  <2>1. At("end")
    BY <1>0, <1>3, <1>7, <1>9 DEF At, Call, Dooming, End
  <2> QED BY <2>1, OnEnd
<1> QED BY <1>6, <1>8, <1>9

(* The undo of discard.                                                    *)
LEMMA KeepingStep ==
  ASSUME UndoingNow, ~failing, System, Keeping
  PROVE  FilesInv'
<1>0. FilesInv /\ phase = "undoing" /\ undos # <<>> /\ calls # <<>> /\ undo.op = "keep"
  BY DEF UndoingNow, Keeping
<1>1. failing \in BOOLEAN /\ void \in BOOLEAN
  BY <1>0, UndoHandy
<1>2. PICK s : s = <<unpend(Path), End>>
  OBVIOUS
<1>3. IsList(s) /\ Len(s) = 2 /\ s[1] = unpend(Path) /\ s[2] = End
  BY <1>2, List2
<1>4. PICK k \in 1..2 : In(s, k)
  BY <1>2 DEF Keeping
<1>5. call = s[k]
  BY <1>3, <1>4, Stepping
<1>6. CASE k = 1
  <2>1. At("unpend")
    BY <1>0, <1>3, <1>5, <1>6 DEF At, Call, unpend
  <2>2. Frame /\ Goes /\ dir' = dir /\ undos' = undos /\ announced' = announced
    BY <1>1, <2>1, OnPending
  <2>3. /\ In(s, 1 + 1)' /\ calls' # <<>> /\ failing' = FALSE /\ undo' = undo
        /\ Recorded' /\ Directory' /\ (void' \/ Safe({})')
    <3>1. IsList(s) /\ In(s, 1) /\ 1 < Len(s)
      BY <1>3, <1>4, <1>6
    <3> QED BY <2>2, <3>1, UndoSame
  <2>4. Keeping'
    BY <1>0, <1>2, <2>3 DEF Keeping
  <2>5. Undoes'
    BY <1>0, <2>2, <2>3, <2>4 DEF Undoes
  <2> QED BY <2>2, <2>3, <2>5, UndoNext
<1>7. CASE k = 2
  <2>1. At("end")
    BY <1>0, <1>3, <1>5, <1>7 DEF At, Call, End
  <2> QED BY <2>1, OnEnd
<1> QED BY <1>6, <1>7

(* restore where nothing is expected: each of the four calls.              *)
LEMMA RestoringStep ==
  ASSUME UndoingNow, ~failing, System, NEW k \in 1..4, Restoring(k)
  PROVE  FilesInv'
<1>0. /\ FilesInv /\ phase = "undoing" /\ undos # <<>> /\ calls # <<>> /\ undo.op = "restore"
      /\ undo.expect = None
  BY DEF UndoingNow, Restoring
<1>1. /\ Numbers /\ Recorded /\ Directory /\ Shape /\ failing \in BOOLEAN /\ void \in BOOLEAN
      /\ Path \in Names /\ undo.from \in Names /\ undo.from # Path /\ Done(undo.from)
      /\ Path <= names
  BY <1>0, UndoHandy DEF UndoOK
<1>2. PICK f, s : f = undo.from /\ s = <<Link(f, Path, <<>>), Sync, unpend(f), End>>
  OBVIOUS
<1>3. /\ IsList(s) /\ Len(s) = 4 /\ s[1] = Link(f, Path, <<>>) /\ s[2] = Sync
      /\ s[3] = unpend(f) /\ s[4] = End
  BY <1>2, List4
<1>4. In(s, k)
  BY <1>2 DEF Restoring, restore
<1>5. call = s[k]
  BY <1>3, <1>4, Stepping
<1>6. \A j \in 2..4 : calls' = From(s, j) /\ undos' = undos /\ failing' = FALSE => Undoes'
  <2> SUFFICES ASSUME NEW j \in 2..4, calls' = From(s, j), undos' = undos, failing' = FALSE
               PROVE  Undoes'
    OBVIOUS
  <2>1. undo' = undo
    BY DEF undo
  <2>2. Restoring(j)'
    BY <1>0, <1>2, <1>3, <2>1 DEF Restoring, restore, In
  <2> QED BY <1>0, <2>2 DEF Undoes
<1>7. CASE k = 1
  <2>0. IsList(s) /\ In(s, 1) /\ 1 < Len(s)
    BY <1>3, <1>4, <1>7
  <2>1. At("link") /\ call.a = f /\ call.b = Path /\ call.else = <<>>
    BY <1>0, <1>3, <1>5, <1>7 DEF At, Call, Link
  <2>2. /\ Frame
        /\ Does(dir[f] # None /\ dir[Path] = None, [dir EXCEPT ![Path] = dir[f], ![f] = None])
    BY <1>1, <2>1, OnRename
  <2>3. CASE dir[Path] = None /\ Goes /\ Quiet /\ dir' = [dir EXCEPT ![Path] = dir[f], ![f] = None]
    <3>1. In(s, 1 + 1)' /\ calls' # <<>> /\ failing' = FALSE /\ (void' <=> void)
      BY <1>0, <2>0, <2>2, <2>3, UndoOnward
    <3>2. undos' = undos /\ announced' = announced
      BY <2>3 DEF Quiet
    <3>3. /\ f \in Names /\ Path \in Names /\ f # Path /\ Path <= names /\ dir[Path] = None
          /\ Done(f) /\ Numbers /\ Recorded /\ Directory /\ Frame /\ Shape
      BY <1>1, <1>2, <2>2, <2>3
    <3>4. Recorded' /\ Directory'
      BY <2>3, <3>2, <3>3, TidyMoved
    <3>5. Back({}) /\ Forth({})
      BY <2>3, <3>3, MoveDir
    <3>6. void' \/ Safe({})'
      BY <1>0, <2>2, <3>1, <3>2, <3>5, UndoLikewise
    <3>7. Undoes'
      BY <1>6, <2>2, <3>1, <3>2 DEF In
    <3> QED BY <2>2, <3>1, <3>2, <3>4, <3>6, <3>7, UndoNext
  <2>4. CASE Fails /\ (void => void')
    BY <1>0, <2>1, <2>2, <2>4, UndoFails
  <2> QED BY <1>1, <2>2, <2>3, <2>4 DEF Does, Breaks
<1>8. CASE k = 2
  <2>0. IsList(s) /\ In(s, 2) /\ 2 < Len(s)
    BY <1>3, <1>4, <1>8
  <2>1. At("sync") /\ call.else = <<>>
    BY <1>0, <1>3, <1>5, <1>8 DEF At, Call, Sync
  <2>2. Frame /\ Does(TRUE, dir)
    BY <1>1, <2>1, OnSyncDir
  <2>3. CASE Goes /\ dir' = dir /\ Quiet
    <3>1. undos' = undos /\ announced' = announced
      BY <2>3 DEF Quiet
    <3>2. /\ In(s, 2 + 1)' /\ calls' # <<>> /\ failing' = FALSE
          /\ Recorded' /\ Directory' /\ (void' \/ Safe({})')
      BY <2>0, <2>2, <2>3, <3>1, UndoSame
    <3>3. Undoes'
      BY <1>6, <2>2, <3>1, <3>2 DEF In
    <3> QED BY <2>2, <3>1, <3>2, <3>3, UndoNext
  <2>4. CASE Fails /\ (void => void')
    BY <1>0, <2>1, <2>2, <2>4, UndoFails
  <2> QED BY <1>1, <2>2, <2>3, <2>4 DEF Does, Breaks
<1>9. CASE k = 3
  <2>0. IsList(s) /\ In(s, 3) /\ 3 < Len(s)
    BY <1>3, <1>4, <1>9
  <2>1. At("unpend")
    BY <1>0, <1>3, <1>5, <1>9 DEF At, Call, unpend
  <2>2. Frame /\ Goes /\ dir' = dir /\ undos' = undos /\ announced' = announced
    BY <1>1, <2>1, OnPending
  <2>3. /\ In(s, 3 + 1)' /\ calls' # <<>> /\ failing' = FALSE
        /\ Recorded' /\ Directory' /\ (void' \/ Safe({})')
    BY <2>0, <2>2, UndoSame
  <2>4. Undoes'
    BY <1>6, <2>2, <2>3 DEF In
  <2> QED BY <2>2, <2>3, <2>4, UndoNext
<1>10. CASE k = 4
  <2>1. At("end")
    BY <1>0, <1>3, <1>5, <1>10 DEF At, Call, End
  <2> QED BY <2>1, OnEnd
<1> QED BY <1>7, <1>8, <1>9, <1>10

(* The undo of set_mode and set_owner.                                     *)
LEMMA ChangingBackStep ==
  ASSUME UndoingNow, ~failing, System, ChangingBack
  PROVE  FilesInv'
<1>0. FilesInv /\ phase = "undoing" /\ undos # <<>> /\ calls # <<>> /\ undo.op = "mode"
  BY DEF UndoingNow, ChangingBack
<1>1. /\ Numbers /\ Recorded /\ Directory /\ Shape /\ failing \in BOOLEAN /\ void \in BOOLEAN
      /\ Path \in Names /\ undo.from \in Nat
  BY <1>0, UndoHandy DEF UndoOK
<1>2. PICK e, f : e = undo.expect /\ f = undo.from
  OBVIOUS
<1>3. \A s : \A x \in Int : \A j \in 1..3 :
         s = change(x, e, f) /\ calls' = From(s, j) /\ undos' = undos /\ failing' = FALSE => Undoes'
  <2> SUFFICES ASSUME NEW x \in Int, NEW j \in 1..3, calls' = From(change(x, e, f), j), undos' = undos,
                      failing' = FALSE
               PROVE  Undoes'
    OBVIOUS
  <2>1. undo' = undo
    BY DEF undo
  <2>2. ChangingBack'
    <3>1. j \in 1..Len(change(x, e, f))
      BY List3 DEF change
    <3>2. In(change(x, e, f), j)'
      BY <3>1 DEF In
    <3> QED BY <1>0, <1>2, <2>1, <3>2 DEF ChangingBack
  <2> QED BY <1>0, <2>2 DEF Undoes
<1>4. CASE In(<<set_mode(e, f)>>, 1)
  <2>1. PICK s : s = <<set_mode(e, f)>>
    OBVIOUS
  <2>2. IsList(s) /\ Len(s) = 1 /\ s[1] = set_mode(e, f)
    BY <2>1, List1
  <2>3. At("open") /\ call.a = e /\ call.b = f /\ call.else = <<>>
    BY <1>0, <1>4, <2>1, <2>2, Stepping DEF At, set_mode, Call
  <2>4. /\ Frame
        /\ \/ dir[Path] # None /\ calls' = change(Id(Path), e, f) /\ Stays
           \/ calls' = <<>> /\ failing' = TRUE /\ dir' = dir /\ Quiet /\ (void' <=> void)
           \/ Breaks
    BY <1>1, <2>3, OnOpen
  <2>5. CASE dir[Path] # None /\ calls' = change(Id(Path), e, f) /\ Stays
    <3>1. PICK x, t : x = Id(Path) /\ t = change(x, e, f)
      OBVIOUS
    <3>2. x \in Int
      BY <1>1, <2>5, <3>1 DEF Id, Shape, Nodes
    <3>3. IsList(t) /\ Len(t) = 3
      BY <3>1, List3 DEF change
    <3>4. In(t, 1)' /\ calls' # <<>>
      <4>1. From(t, 1) = t /\ 1 \in 1..Len(t)
        BY <3>3, Starting
      <4>2. t # <<>>
        BY <3>1 DEF change
      <4> QED BY <2>5, <3>1, <4>1, <4>2 DEF In
    <3>5. /\ undos' = undos /\ announced' = announced /\ dir' = dir /\ failing' = FALSE
          /\ (void' <=> void)
      BY <1>1, <2>4, <2>5 DEF Stays, Quiet, Frame
    <3>6. Recorded' /\ Directory' /\ Back({}) /\ Forth({})
      BY <1>1, <2>4, <3>5, TidySame, SameDir
    <3>7. void' \/ Safe({})'
      BY <1>0, <2>4, <3>5, <3>6, UndoLikewise
    <3>8. Undoes'
      BY <1>3, <3>1, <3>2, <3>4, <3>5 DEF In
    <3> QED BY <2>4, <3>4, <3>5, <3>6, <3>7, <3>8, UndoNext
  <2>6. CASE calls' = <<>> /\ failing' = TRUE /\ dir' = dir /\ Quiet /\ (void' <=> void)
    <3>1. Fails /\ (void => void')
      BY <2>3, <2>6 DEF Fails
    <3> QED BY <1>0, <2>3, <2>4, <3>1, UndoFails
  <2>7. CASE Breaks
    BY <1>0, <2>3, <2>4, <2>7, UndoFails DEF Breaks
  <2> QED BY <2>4, <2>5, <2>6, <2>7
<1>5. ASSUME NEW x \in Int, NEW k \in 1..3, In(change(x, e, f), k) PROVE FilesInv'
  <2>1. PICK s : s = change(x, e, f)
    OBVIOUS
  <2>2. /\ IsList(s) /\ Len(s) = 3 /\ s[1] = Announce(<<Undo("mode", Path, e, f)>>, <<>>)
        /\ s[2] = Call("chmod", x, f, <<>>) /\ s[3] = End
    BY <2>1, List3 DEF change
  <2>3. In(s, k) /\ call = s[k]
    BY <1>5, <2>1, <2>2, Stepping
  <2>4. CASE k = 1
    <3>0. IsList(s) /\ In(s, 1) /\ 1 < Len(s)
      BY <2>2, <2>3, <2>4
    <3>1. At("announce") /\ call.else = <<>>
      BY <1>0, <2>2, <2>3, <2>4 DEF At, Announce, Call
    <3>2. /\ Frame
          /\ \/ Goes /\ dir' = dir /\ undos' = undos /\ announced' = announced
             \/ Breaks
      BY <1>0, <1>1, <3>1, OnRecord
    <3>3. CASE Goes /\ dir' = dir /\ undos' = undos /\ announced' = announced
      <4>1. /\ In(s, 1 + 1)' /\ calls' # <<>> /\ failing' = FALSE
            /\ Recorded' /\ Directory' /\ (void' \/ Safe({})')
        BY <3>0, <3>2, <3>3, UndoSame
      <4>2. Undoes'
        BY <1>3, <2>1, <3>3, <4>1 DEF In
      <4> QED BY <3>2, <3>3, <4>1, <4>2, UndoNext
    <3>4. CASE Breaks
      BY <1>0, <3>1, <3>2, <3>4, UndoFails DEF Breaks
    <3> QED BY <3>2, <3>3, <3>4
  <2>5. CASE k = 2
    <3>0. IsList(s) /\ In(s, 2) /\ 2 < Len(s)
      BY <2>2, <2>3, <2>5
    <3>1. At("chmod") /\ call.a = x /\ call.b = f /\ call.else = <<>>
      BY <1>0, <2>2, <2>3, <2>5 DEF At, Call
    <3>2. /\ Frame
          /\ Does(TRUE, [n \in Names |-> IF Id(n) = x THEN [dir[n] EXCEPT !.mode = f] ELSE dir[n]])
      BY <1>1, <3>1, OnChmod
    <3>3. CASE /\ Goes /\ Quiet
               /\ dir' = [n \in Names |-> IF Id(n) = x THEN [dir[n] EXCEPT !.mode = f] ELSE dir[n]]
      <4>1. In(s, 2 + 1)' /\ calls' # <<>> /\ failing' = FALSE /\ (void' <=> void)
        BY <1>0, <3>0, <3>2, <3>3, UndoOnward
      <4>2. undos' = undos /\ announced' = announced
        BY <3>3 DEF Quiet
      <4>3. /\ Numbers /\ Recorded /\ Directory /\ Frame /\ Shape /\ f \in Nat
        BY <1>1, <1>2, <3>2
      <4>4. Recorded' /\ Directory'
        BY <3>3, <4>2, <4>3, TidyChmod
      <4>5. Back({}) /\ Forth({})
        BY <3>3, <4>3, ChmodDir
      <4>6. void' \/ Safe({})'
        BY <1>0, <3>2, <4>1, <4>2, <4>5, UndoLikewise
      <4>7. Undoes'
        BY <1>3, <2>1, <4>1, <4>2 DEF In
      <4> QED BY <3>2, <4>1, <4>2, <4>4, <4>6, <4>7, UndoNext
    <3>4. CASE Fails /\ (void => void')
      BY <1>0, <3>1, <3>2, <3>4, UndoFails
    <3> QED BY <1>1, <3>2, <3>3, <3>4 DEF Does, Breaks
  <2>6. CASE k = 3
    <3>1. At("end")
      BY <1>0, <2>2, <2>3, <2>6 DEF At, Call, End
    <3> QED BY <3>1, OnEnd
  <2> QED BY <2>4, <2>5, <2>6
<1> QED BY <1>2, <1>4, <1>5 DEF ChangingBack

(* restore over what mix put there: each of the six calls.                 *)
LEMMA RestoringOverStep ==
  ASSUME UndoingNow, ~failing, System, NEW k \in 1..6, RestoringOver(k)
  PROVE  FilesInv'
<1>0. /\ FilesInv /\ phase = "undoing" /\ undos # <<>> /\ calls # <<>> /\ undo.op = "restore"
      /\ undo.expect # None
  BY DEF UndoingNow, RestoringOver
<1>1. /\ Numbers /\ Recorded /\ Directory /\ Shape /\ failing \in BOOLEAN /\ void \in BOOLEAN
      /\ Path \in Names /\ undo.from \in Names /\ undo.from # Path /\ Done(undo.from) /\ Done(Path)
      /\ Path <= names /\ undo.from <= names /\ undo.op \in IdOps
  BY <1>0, UndoHandy DEF UndoOK, IdOps
<1>2. PICK f, x, s : /\ f = undo.from /\ x = undo.expect
                     /\ s = <<Call("exchange", f, Path, <<>>),
                              holds(f, x, <<Call("exchange", f, Path, <<>>)>>),
                              Clear(f), Sync, unpend(f), End>>
  OBVIOUS
<1>3. /\ IsList(s) /\ Len(s) = 6 /\ s[1] = Call("exchange", f, Path, <<>>)
      /\ s[2] = holds(f, x, <<Call("exchange", f, Path, <<>>)>>)
      /\ s[3] = Clear(f) /\ s[4] = Sync /\ s[5] = unpend(f) /\ s[6] = End
  BY <1>2, List6
<1>4. In(s, k)
  BY <1>0, <1>2 DEF RestoringOver, restore
<1>5. call = s[k]
  BY <1>3, <1>4, Stepping
<1>6. \A j \in {2, 4, 5, 6} :
         calls' = From(s, j) /\ undos' = undos /\ failing' = FALSE => Undoes'
  <2> SUFFICES ASSUME NEW j \in {2, 4, 5, 6}, calls' = From(s, j), undos' = undos, failing' = FALSE
               PROVE  Undoes'
    OBVIOUS
  <2>1. undo' = undo
    BY DEF undo
  <2>2. RestoringOver(j)'
    BY <1>0, <1>2, <1>3, <2>1 DEF RestoringOver, restore, In
  <2> QED BY <1>0, <2>2 DEF Undoes
<1>7. CASE k = 1
  <2>0. IsList(s) /\ In(s, 1) /\ 1 < Len(s)
    BY <1>3, <1>4, <1>7
  <2>1. At("exchange") /\ call.a = f /\ call.b = Path /\ call.else = <<>>
    BY <1>0, <1>3, <1>5, <1>7 DEF At, Call
  <2>2. /\ Frame
        /\ Does(dir[f] # None /\ dir[Path] # None, [dir EXCEPT ![Path] = dir[f], ![f] = dir[Path]])
    BY <1>1, <2>1, OnExchange
  <2>3. CASE Goes /\ Quiet /\ dir' = [dir EXCEPT ![Path] = dir[f], ![f] = dir[Path]]
    <3>1. In(s, 1 + 1)' /\ calls' # <<>> /\ failing' = FALSE /\ (void' <=> void)
      BY <1>0, <2>0, <2>2, <2>3, UndoOnward
    <3>2. undos' = undos /\ announced' = announced
      BY <2>3 DEF Quiet
    <3>3. /\ f \in Names /\ Path \in Names /\ f # Path /\ Path <= names /\ f <= names
          /\ Done(f) /\ Done(Path) /\ Numbers /\ Recorded /\ Directory /\ Frame /\ Shape
      BY <1>1, <1>2, <2>2
    <3>4. Recorded' /\ Directory'
      BY <2>3, <3>2, <3>3, TidySwapped
    <3>5. Back({}) /\ Forth({})
      BY <2>3, <3>3, SwapDir
    <3>6. void' \/ Safe({})'
      BY <1>0, <2>2, <3>1, <3>2, <3>5, UndoLikewise
    <3>7. Undoes'
      BY <1>6, <2>2, <3>1, <3>2 DEF In
    <3> QED BY <2>2, <3>1, <3>2, <3>4, <3>6, <3>7, UndoNext
  <2>4. CASE Fails /\ (void => void')
    BY <1>0, <2>1, <2>2, <2>4, UndoFails
  <2> QED BY <1>1, <2>2, <2>3, <2>4 DEF Does, Breaks
<1>8. CASE k = 2
  <2>0. IsList(s) /\ In(s, 2) /\ 2 < Len(s)
    BY <1>3, <1>4, <1>8
  <2>1. At("holds") /\ call.a = f /\ call.b = x /\ call.else = <<Call("exchange", f, Path, <<>>)>>
    BY <1>0, <1>3, <1>5, <1>8 DEF At, Call, holds
  <2>2. /\ Frame
        /\ \/ Id(f) = x /\ Goes /\ dir' = dir /\ Quiet
           \/ Fails /\ (void' <=> void)
    BY <1>1, <2>1, HoldsCall
  <2>3. CASE Id(f) = x /\ Goes /\ dir' = dir /\ Quiet
    <3>1. undos' = undos /\ announced' = announced
      BY <2>3 DEF Quiet
    <3>2. /\ In(s, 2 + 1)' /\ calls' # <<>> /\ failing' = FALSE /\ undo' = undo
          /\ Recorded' /\ Directory' /\ (void' \/ Safe({})')
      BY <2>0, <2>2, <2>3, <3>1, UndoSame
    <3>3. Is(undo.from, undo.expect)'
      BY <1>0, <1>2, <2>3, <3>2 DEF Is, Id
    <3>4. RestoringOver(3)'
      BY <1>0, <1>2, <3>2, <3>3 DEF RestoringOver, restore
    <3>5. Undoes'
      BY <1>0, <3>1, <3>2, <3>4 DEF Undoes
    <3> QED BY <2>2, <3>1, <3>2, <3>5, UndoNext
  <2>4. CASE Fails /\ (void' <=> void)
    BY <1>0, <1>2, <2>1, <2>2, <2>4, UndoFails
  <2> QED BY <2>2, <2>3, <2>4
<1>9. CASE k = 3
  <2>0. IsList(s) /\ In(s, 3) /\ 3 < Len(s)
    BY <1>3, <1>4, <1>9
  <2>1. At("rmtree") /\ call.a = f /\ call.else = <<>>
    BY <1>0, <1>3, <1>5, <1>9 DEF At, Call, Clear
  <2>2. Frame /\ Does(TRUE, [dir EXCEPT ![f] = None])
    BY <1>1, <2>1, OnRemoveTree
  <2>3. CASE Goes /\ Quiet /\ dir' = [dir EXCEPT ![f] = None]
    <3>1. In(s, 3 + 1)' /\ calls' # <<>> /\ failing' = FALSE /\ (void' <=> void)
      BY <1>0, <2>0, <2>2, <2>3, UndoOnward
    <3>2. undos' = undos /\ announced' = announced
      BY <2>3 DEF Quiet
    <3>3. f \in Names /\ Is(f, undo.expect)
      BY <1>1, <1>2, <1>9 DEF RestoringOver
    <3>4. Recorded' /\ Directory' /\ (void' \/ Safe({})')
      BY <1>0, <1>1, <2>2, <2>3, <3>1, <3>3, UndoDrops
    <3>5. Undoes'
      BY <1>6, <3>1, <3>2 DEF In
    <3> QED BY <2>2, <3>1, <3>2, <3>4, <3>5, UndoNext
  <2>4. CASE Fails /\ (void => void')
    BY <1>0, <2>1, <2>2, <2>4, UndoFails
  <2> QED BY <1>1, <2>2, <2>3, <2>4 DEF Does, Breaks
<1>10. CASE k = 4
  <2>0. IsList(s) /\ In(s, 4) /\ 4 < Len(s)
    BY <1>3, <1>4, <1>10
  <2>1. At("sync") /\ call.else = <<>>
    BY <1>0, <1>3, <1>5, <1>10 DEF At, Call, Sync
  <2>2. Frame /\ Does(TRUE, dir)
    BY <1>1, <2>1, OnSyncDir
  <2>3. CASE Goes /\ dir' = dir /\ Quiet
    <3>1. undos' = undos /\ announced' = announced
      BY <2>3 DEF Quiet
    <3>2. /\ In(s, 4 + 1)' /\ calls' # <<>> /\ failing' = FALSE
          /\ Recorded' /\ Directory' /\ (void' \/ Safe({})')
      BY <2>0, <2>2, <2>3, <3>1, UndoSame
    <3>3. Undoes'
      BY <1>6, <2>2, <3>1, <3>2 DEF In
    <3> QED BY <2>2, <3>1, <3>2, <3>3, UndoNext
  <2>4. CASE Fails /\ (void => void')
    BY <1>0, <2>1, <2>2, <2>4, UndoFails
  <2> QED BY <1>1, <2>2, <2>3, <2>4 DEF Does, Breaks
<1>11. CASE k = 5
  <2>0. IsList(s) /\ In(s, 5) /\ 5 < Len(s)
    BY <1>3, <1>4, <1>11
  <2>1. At("unpend")
    BY <1>0, <1>3, <1>5, <1>11 DEF At, Call, unpend
  <2>2. Frame /\ Goes /\ dir' = dir /\ undos' = undos /\ announced' = announced
    BY <1>1, <2>1, OnPending
  <2>3. /\ In(s, 5 + 1)' /\ calls' # <<>> /\ failing' = FALSE
        /\ Recorded' /\ Directory' /\ (void' \/ Safe({})')
    BY <2>0, <2>2, UndoSame
  <2>4. Undoes'
    BY <1>6, <2>2, <2>3 DEF In
  <2> QED BY <2>2, <2>3, <2>4, UndoNext
<1>12. CASE k = 6
  <2>1. At("end")
    BY <1>0, <1>3, <1>5, <1>12 DEF At, Call, End
  <2> QED BY <2>1, OnEnd
<1> QED BY <1>7, <1>8, <1>9, <1>10, <1>11, <1>12

(* What the undo moved away is not what it expected: it is moved back.     *)
LEMMA PuttingBackStep ==
  ASSUME UndoingNow, failing = TRUE, System, PuttingBack
  PROVE  FilesInv'
<1>0. FilesInv /\ phase = "undoing" /\ undos # <<>> /\ calls # <<>>
  BY DEF UndoingNow
<1>1. /\ Numbers /\ Recorded /\ Directory /\ Shape /\ failing \in BOOLEAN /\ void \in BOOLEAN
      /\ Path \in Names /\ names \in Names /\ Done(Path) /\ Path <= names /\ names <= names
      /\ (void \/ Safe({}))
  BY <1>0, UndoHandy
<1>2. ASSUME Frame, Quiet, calls' = <<>>, failing' = TRUE, Recorded', Directory', Back({}), Forth({}),
             void => void'
      PROVE  FilesInv'
  <2>1. undos' = undos /\ announced' = announced
    BY <1>2 DEF Quiet
  <2>2. void' \/ Safe({})'
    BY <1>0, <1>2, <2>1, UndoLikewise
  <2> QED BY <1>0, <1>2, <2>1, <2>2, UndoGoes
<1>3. ASSUME Frame, Fails, Tail(calls) = <<>>, void => void' PROVE FilesInv'
  <2>1. /\ calls' = <<>> /\ failing' = TRUE /\ dir' = dir /\ Quiet
        /\ undos' = undos /\ announced' = announced
    BY <1>3 DEF Fails, Quiet
  <2>2. Recorded' /\ Directory' /\ Back({}) /\ Forth({})
    BY <1>1, <1>3, <2>1, TidySame, SameDir
  <2> QED BY <1>2, <1>3, <2>1, <2>2
<1>4. CASE /\ undo.op \in {"remove", "removetree"}
           /\ calls = <<Link(names, undo.at, <<>>)>> /\ Done(names)
  <2>0. PICK a : a = undo.at
    OBVIOUS
  <2>1. At("link") /\ call.a = names /\ call.b = a /\ Tail(calls) = <<>>
    BY <1>0, <1>4, <2>0 DEF At, call, Link, Call
  <2>2. a \in Names /\ a <= names
    BY <1>0, <1>4, <2>0, UndoHandy DEF UndoOK
  <2>3. /\ Frame
        /\ Does(dir[names] # None /\ dir[a] = None, [dir EXCEPT ![a] = dir[names], ![names] = None])
    BY <1>1, <2>1, OnRename
  <2>4. CASE /\ dir[names] # None /\ dir[a] = None /\ Goes /\ Quiet
             /\ dir' = [dir EXCEPT ![a] = dir[names], ![names] = None]
    <3>1. calls' = <<>> /\ failing' = TRUE /\ undos' = undos /\ announced' = announced /\ (void => void')
      BY <2>1, <2>4 DEF Goes, Quiet
    <3>2. names # a
      BY <2>4
    <3>3. Numbers /\ Recorded /\ Directory /\ Frame /\ Shape /\ dir[a] = None /\ Done(names)
      BY <1>1, <1>4, <2>3, <2>4
    <3>4. Recorded' /\ Directory'
      BY <1>1, <2>2, <2>4, <3>1, <3>2, <3>3, TidyMoved
    <3>5. Back({}) /\ Forth({})
      BY <1>1, <2>2, <2>4, <3>2, <3>3, MoveDir
    <3> QED BY <1>2, <2>3, <2>4, <3>1, <3>4, <3>5
  <2>5. CASE Fails /\ (void => void')
    BY <1>3, <2>1, <2>3, <2>5
  <2> QED BY <1>1, <2>3, <2>4, <2>5 DEF Does, Breaks
<1>5. CASE undo.op = "restore" /\ calls = <<Call("exchange", undo.from, Path, <<>>)>>
  <2>0. PICK f : f = undo.from
    OBVIOUS
  <2>1. At("exchange") /\ call.a = f /\ call.b = Path /\ Tail(calls) = <<>>
    BY <1>0, <1>5, <2>0 DEF At, call, Call
  <2>2. f \in Names /\ f <= names /\ f # Path /\ Done(f)
    BY <1>0, <1>5, <2>0, UndoHandy DEF UndoOK
  <2>3. /\ Frame
        /\ Does(dir[f] # None /\ dir[Path] # None, [dir EXCEPT ![Path] = dir[f], ![f] = dir[Path]])
    BY <1>1, <2>1, OnExchange
  <2>4. CASE Goes /\ Quiet /\ dir' = [dir EXCEPT ![Path] = dir[f], ![f] = dir[Path]]
    <3>1. calls' = <<>> /\ failing' = TRUE /\ undos' = undos /\ announced' = announced /\ (void => void')
      BY <2>1, <2>4 DEF Goes, Quiet
    <3>2. /\ Numbers /\ Recorded /\ Directory /\ Frame /\ Shape /\ Path \in Names /\ Path <= names
          /\ Done(Path)
      BY <1>1, <2>3
    <3>4. Recorded' /\ Directory'
      BY <2>2, <2>4, <3>1, <3>2, TidySwapped
    <3>5. Back({}) /\ Forth({})
      BY <2>2, <2>4, <3>2, SwapDir
    <3> QED BY <1>2, <2>3, <2>4, <3>1, <3>4, <3>5
  <2>5. CASE Fails /\ (void => void')
    BY <1>3, <2>1, <2>3, <2>5
  <2> QED BY <1>1, <2>3, <2>4, <2>5 DEF Does, Breaks
<1> QED BY <1>4, <1>5 DEF PuttingBack

(* Every call of an undo keeps the invariant.                              *)
LEMMA UndoingStep ==
  ASSUME FilesInv, phase = "undoing", calls # <<>>, System
  PROVE  FilesInv'
<1>1. Undoes
  BY DEF FilesInv, Calls
<1>2. UndoingNow
  BY <1>1 DEF UndoingNow, Undoes
<1>3. CASE ~failing
  BY <1>1, <1>2, <1>3, RemovingStep, RemovingTreeStep, RestoringStep, RestoringOverStep,
     ChangingBackStep, KeepingStep DEF Undoes
<1>4. CASE failing
  <2>1. failing = TRUE
    BY <1>4 DEF FilesInv, Numbers
  <2> QED BY <1>1, <1>2, <2>1, PuttingBackStep DEF Undoes
<1> QED BY <1>3, <1>4

(* Every system call keeps the invariant, whoever makes it and however it  *)
(* ends.                                                                   *)
LEMMA SystemStep ==
  ASSUME FilesInv, System
  PROVE  FilesInv'
<1>1. calls # <<>>
  BY DEF System, Check, Make, Finish, Copy, Rename, Exchange, Away, Doom, Holds, UnlinkNode,
         RemoveTree, InPlace, RemoveDir, Open, Chmod, SyncDir, Record, Pending, Fault, At
<1>2. phase \in {"acting", "undoing"}
  BY <1>1 DEF FilesInv, Numbers
<1>3. CASE phase = "acting"
  <2>1. PICK n, i : n = base /\ i = new
    OBVIOUS
  <2>2. InHandOf(n, i)
    BY <1>1, <1>3, <2>1 DEF InHandOf
  <2>3. Acting(n, i) \/ Failing(n, i)
    BY <1>1, <1>3, <2>1 DEF FilesInv, Calls
  <2> QED BY <2>2, <2>3, ActingStep, FailingStep
<1>4. CASE phase = "undoing"
  BY <1>1, <1>4, UndoingStep
<1> QED BY <1>2, <1>3, <1>4

-----------------------------------------------------------------------------
(* 11. The request: steps that leave the directory as it is.               *)

(* The identities and names in the record stay known.                      *)
Still == dir' = dir /\ living' = living /\ moves' = moves /\ (void' <=> void) /\ void' \in BOOLEAN

(* What is safe, caught or spared stays so.                                *)
LEMMA StillFacts ==
  ASSUME FilesInv, Still, undos' = undos
  PROVE  /\ Caught' <=> Caught
         /\ Spared' <=> Spared
         /\ \A R : Safe(R)' <=> Safe(R)
<1>1. \A m : Data(m)' = Data(m)
  BY DEF Still, Data
<1>2. \A R : Safe(R)' <=> Safe(R)
  BY SafeSame DEF Still
<1>3. Caught' <=> Caught
  BY <1>1 DEF Caught
<1>4. Spared' <=> Spared
  BY <1>1 DEF Spared, Clean, Still
<1> QED BY <1>2, <1>3, <1>4

(* The record and the directory stay in order.                             *)
LEMMA RecordStill ==
  ASSUME FilesInv, Still, undos' = undos, announced' = 0, names' = names, ids' = ids
  PROVE  Recorded' /\ Directory'
<1>1. Numbers /\ Recorded /\ Directory /\ Shape
  BY DEF FilesInv, Directory
<1>2. names \in Nat /\ ids \in Nat
  BY <1>1, Ints
<1>3. Recorded'
  <2>1. \A k \in DOMAIN undos : UndoOK(undos[k])' <=> UndoOK(undos[k])
    BY DEF UndoOK, Done, Kinds, Still
  <2> QED BY <1>1, <2>1 DEF Recorded
<1>4. Directory'
  BY <1>1 DEF Directory, Shape, NodeOK, Done, Still
<1> QED BY <1>3, <1>4

(* Of what the calls in hand keep safe, the record alone keeps it safe.    *)
LEMMA SafeAnyway ==
  ASSUME FilesInv
  PROVE  void \/ Safe({})
<1>1. CASE phase = "acting" /\ calls # <<>>
  <2>1. PICK n, i : n = base /\ i = new
    OBVIOUS
  <2>2. Acting(n, i) \/ Failing(n, i)
    BY <1>1, <2>1 DEF FilesInv, Calls
  <2>3. void \/ Safe(Hand(i)) \/ Safe({})
    <3>1. CASE Failing(n, i)
      BY <3>1 DEF Failing
    <3>2. CASE Acting(n, i)
      BY <3>2 DEF Acting, Creating, Putting, Aside, AsideByCopy, Reclaiming, ReclaimByCopy, ByCopy,
                  Looking, Changing, Discarding
    <3> QED BY <2>2, <3>1, <3>2
  <2>4. Safe(Hand(i)) => Safe({})
    BY SafeLess
  <2> QED BY <2>3, <2>4
<1>2. CASE ~(phase = "acting" /\ calls # <<>>)
  BY <1>2 DEF FilesInv, Calls
<1> QED BY <1>1, <1>2

(* Whatever the phase, the names the undos need are left.                  *)
LEMMA NamesLeft ==
  ASSUME Numbers, Recorded
  PROVE  phase # "over" =>
         /\ names + Len(undos) + (MaxCrashes - crashes) <= 6 * MaxActs + MaxCrashes + 1
         /\ phase = "acting" => names + Len(undos) + (MaxCrashes - crashes) <= 6 * MaxActs + MaxCrashes
         /\ undos # <<>> => names > 0
<1>1. /\ Len(undos) \in Nat /\ MaxActs \in Nat /\ MaxCrashes \in Nat /\ crashes \in 0..MaxCrashes
      /\ names \in Nat /\ announced \in 0..Len(undos)
  BY Ints, FilesAssumption DEF Recorded, Numbers
<1>2. undos # <<>> => Len(undos) > 0
  BY DEF Recorded
<1>3. CASE phase = "acting"
  <2>1. names = 4 * acts /\ acts \in 0..MaxActs /\ Len(undos) <= 2 * acts
    BY <1>1, <1>3 DEF Numbers, Older
  <2> QED BY <1>1, <1>2, <2>1
<1>4. CASE phase \in {"undoing", "committing", "down"}
  BY <1>1, <1>4 DEF Numbers, Left
<1> QED BY <1>3, <1>4 DEF Numbers

(* The request turns to its undos, having failed or not.                   *)
LEMMA RollbackStep ==
  ASSUME FilesInv, Rollback
  PROVE  FilesInv'
<1>0. Numbers /\ Recorded /\ phase = "acting" /\ calls = <<>>
  BY DEF FilesInv, Rollback, Idle
<1>1. /\ Still /\ undos' = undos /\ announced' = 0 /\ names' = names /\ ids' = ids
      /\ phase' = "undoing" /\ failing' = FALSE /\ calls' = <<>>
      /\ acts' = acts /\ crashes' = crashes /\ committed' = committed
  BY <1>0 DEF Rollback, Still, history, counters, Numbers, Idle
<1>2. Recorded' /\ Directory'
  BY <1>1, RecordStill
<1>3. Left'
  <2>1. names \in Nat /\ Len(undos) \in Nat /\ crashes \in Nat /\ MaxCrashes \in Nat /\ MaxActs \in Nat
    BY <1>0, Ints, FilesAssumption DEF Recorded, Numbers
  <2> QED BY <1>0, <1>1, <2>1, NamesLeft DEF Left
<1>4. Numbers'
  BY <1>0, <1>1, <1>3 DEF Numbers, Still, Names
<1>5. void' \/ Safe({})'
  BY <1>1, SafeAnyway, StillFacts DEF Still
<1>6. Calls'
  BY <1>1, <1>5 DEF Calls, Settled
<1> QED BY <1>2, <1>4, <1>6 DEF FilesInv

(* Committing goes on record.                                              *)
LEMMA CommitStep ==
  ASSUME FilesInv, Commit
  PROVE  FilesInv'
<1>0. Numbers /\ Recorded /\ phase = "acting" /\ calls = <<>> /\ ~failing
  BY DEF FilesInv, Commit, Idle
<1>1. announced = 0
  BY <1>0 DEF Numbers, Older, InHand
<1>2. /\ Still /\ undos' = undos /\ announced' = 0 /\ names' = names /\ ids' = ids
      /\ phase' = "committing" /\ ~failing' /\ failing' \in BOOLEAN /\ calls' = <<>>
      /\ acts' = acts /\ crashes' = crashes /\ committed' = TRUE /\ pending' = pending
  BY <1>0, <1>1 DEF Commit, Still, history, counters, Numbers, Idle
<1>3. Recorded' /\ Directory'
  BY <1>2, RecordStill
<1>4. Left'
  <2>1. names \in Nat /\ Len(undos) \in Nat /\ crashes \in Nat /\ MaxCrashes \in Nat /\ MaxActs \in Nat
    BY <1>0, Ints, FilesAssumption DEF Recorded, Numbers
  <2> QED BY <1>0, <1>2, <2>1, NamesLeft DEF Left
<1>5. Numbers'
  BY <1>0, <1>2, <1>4 DEF Numbers, Still, Names
<1>6. void' \/ Safe({})'
  BY <1>2, SafeAnyway, StillFacts DEF Still
<1>7. (void \/ ~Caught) /\ (Path \in pending => void \/ Spared)
  BY <1>0 DEF FilesInv, Calls, Settled
<1>8. (void' \/ ~Caught') /\ (Path \in pending' => void' \/ Spared')
  BY <1>2, <1>7, StillFacts DEF Still
<1>9. Calls'
  BY <1>2, <1>6, <1>8 DEF Calls
<1> QED BY <1>3, <1>5, <1>9 DEF FilesInv

(* The process dies between two calls: what it had in hand is in the       *)
(* record.                                                                 *)
LEMMA CrashStep ==
  ASSUME FilesInv, Crash
  PROVE  FilesInv'
<1>0. Numbers /\ Recorded /\ phase \in {"acting", "undoing", "committing"} /\ crashes < MaxCrashes
  BY DEF FilesInv, Crash, Numbers
<1>1. /\ Still /\ undos' = undos /\ announced' = 0 /\ names' = names /\ ids' = ids
      /\ phase' = "down" /\ failing' = FALSE /\ calls' = <<>>
      /\ acts' = acts /\ crashes' = crashes + 1 /\ committed' = committed /\ pending' = {}
  BY <1>0 DEF Crash, Still, history, counters, Numbers
<1>2. Recorded' /\ Directory'
  BY <1>1, RecordStill
<1>3. Left'
  <2>1. names \in Nat /\ Len(undos) \in Nat /\ crashes \in Nat /\ MaxCrashes \in Nat /\ MaxActs \in Nat
    BY <1>0, Ints, FilesAssumption DEF Recorded, Numbers
  <2> QED BY <1>0, <1>1, <2>1, NamesLeft DEF Left
<1>4. Numbers'
  <2>1. crashes' \in 0..MaxCrashes
    BY <1>0, <1>1, FilesAssumption DEF Numbers
  <2> QED BY <1>0, <1>1, <1>3, <2>1 DEF Numbers, Still, Names
<1>5. void' \/ Safe({})'
  BY <1>1, SafeAnyway, StillFacts DEF Still
<1>6. committed => void' \/ ~Caught'
  <2>1. committed => phase = "committing" /\ calls = <<>>
    BY <1>0 DEF Numbers
  <2>2. committed => void \/ ~Caught
    BY <2>1 DEF FilesInv, Calls, Settled
  <2> QED BY <1>1, <2>2, StillFacts DEF Still
<1>7. Calls'
  BY <1>1, <1>5, <1>6 DEF Calls, Settled
<1> QED BY <1>2, <1>4, <1>7 DEF FilesInv

(* Recovery finishes the commit on record, or begins the undos.            *)
LEMMA RecoverStep ==
  ASSUME FilesInv, Recover
  PROVE  FilesInv'
<1>0. Numbers /\ Recorded /\ phase = "down" /\ calls = <<>> /\ ~failing /\ Left
  BY DEF FilesInv, Recover, Numbers
<1>1. /\ Still /\ undos' = undos /\ announced' = 0 /\ names' = names /\ ids' = ids
      /\ ~failing' /\ failing' \in BOOLEAN /\ calls' = <<>>
      /\ acts' = acts /\ crashes' = crashes /\ committed' = committed
      /\ committed => phase' = "committing"
      /\ ~committed => phase' = "undoing"
      /\ committed => pending' = {undos[k].from : k \in {k \in DOMAIN undos : undos[k].op = "restore"}}
  BY <1>0 DEF Recover, Still, history, counters, record, Numbers, Left
<1>2. Recorded' /\ Directory'
  BY <1>1, RecordStill
<1>3. Left'
  BY <1>0, <1>1 DEF Left
<1>4. Numbers'
  BY <1>0, <1>1, <1>3 DEF Numbers, Still, Names
<1>5. void' \/ Safe({})'
  BY <1>1, SafeAnyway, StillFacts DEF Still
<1>6. committed => void' \/ ~Caught'
  <2>1. committed => void \/ ~Caught
    BY <1>0 DEF FilesInv, Calls, Settled
  <2> QED BY <1>1, <2>1, StillFacts DEF Still
<1>7. committed => Path \notin pending'
  <2>1. \A k \in DOMAIN undos : undos[k].op = "restore" => undos[k].from \in 1..names
    BY <1>0 DEF Recorded, UndoOK
  <2>2. Path = 0
    BY DEF Path
  <2> QED BY <1>1, <2>1, <2>2
<1>8. Calls'
  BY <1>0, <1>1, <1>5, <1>6, <1>7 DEF Calls, Settled, Numbers
<1> QED BY <1>2, <1>4, <1>8 DEF FilesInv

(* The request is over, undone or committed.                               *)
LEMMA OverStep ==
  ASSUME FilesInv, RolledBack \/ Committed
  PROVE  FilesInv'
<1>0. Numbers /\ Recorded /\ phase \in {"undoing", "committing"} /\ calls = <<>> /\ announced = 0
  BY DEF FilesInv, RolledBack, Committed, Numbers, Idle, Left
<1>1. /\ Still /\ undos' = undos /\ announced' = 0 /\ names' = names /\ ids' = ids
      /\ phase' = "over" /\ calls' = <<>> /\ failing' = failing
      /\ acts' = acts /\ crashes' = crashes /\ committed' = committed
  BY <1>0 DEF RolledBack, Committed, Still, history, counters, record, Numbers
<1>2. Recorded' /\ Directory'
  BY <1>1, RecordStill
<1>3. Numbers'
  BY <1>0, <1>1 DEF Numbers, Still, Names
<1>4. void' \/ Safe({})'
  BY <1>1, SafeAnyway, StillFacts DEF Still
<1>5. Calls'
  BY <1>1, <1>4 DEF Calls, Settled
<1> QED BY <1>2, <1>3, <1>5 DEF FilesInv

(* The record gets shorter.                                                *)
LEMMA TailIs ==
  ASSUME NEW S, NEW s \in Seq(S), s # <<>>
  PROVE  /\ Tail(s) \in Seq(S) /\ Len(Tail(s)) = Len(s) - 1 /\ Len(s) > 0
         /\ \A k \in DOMAIN Tail(s) : k + 1 \in DOMAIN s /\ Tail(s)[k] = s[k + 1]
  BY HeadTailProperties

(* An undo less on record endangers nothing more.                          *)
LEMMA ShorterRecord ==
  ASSUME FilesInv, Still, undos # <<>>, undos' = Tail(undos), announced' = 0, names' = names, ids' = ids
  PROVE  /\ Recorded' /\ Directory' /\ (void' \/ Safe({})') /\ Len(undos') = Len(undos) - 1
         /\ Len(undos) > 0
<1>1. Numbers /\ Recorded /\ Directory /\ Shape /\ undos \in Seq(UndoSet)
  BY DEF FilesInv, Directory, Recorded
<1>2. /\ undos' \in Seq(UndoSet) /\ Len(undos') = Len(undos) - 1 /\ Len(undos) > 0
      /\ \A k \in DOMAIN undos' : k + 1 \in DOMAIN undos /\ undos'[k] = undos[k + 1]
  BY <1>1, TailIs
<1>3. Recorded'
  <2>1. \A u : UndoOK(u)' <=> UndoOK(u)
    BY DEF UndoOK, Done, Kinds, Still
  <2>2. \A k \in DOMAIN undos' : UndoOK(undos'[k])
    BY <1>1, <1>2 DEF Recorded
  <2>3. ASSUME NEW k \in DOMAIN undos' PROVE UndoOK(undos[k])'
    BY <2>2 DEF UndoOK, Done, Kinds, Still
  <2>4. announced' \in 0..Len(undos')
    BY <1>1, <1>2
  <2> QED BY <1>2, <2>3, <2>4 DEF Recorded
<1>4. Directory'
  BY <1>1 DEF Directory, Shape, NodeOK, Done, Still
<1>5. Expects' \subseteq Expects
  BY <1>2 DEF Expects
<1>6. Safe({}) => Safe({})'
  BY <1>1, <1>5, SafeAnnounced DEF Still
<1> QED BY <1>2, <1>3, <1>4, <1>6, SafeAnyway DEF Still

(* An undo that is moot, conflicts or failed is struck from the record.    *)
LEMMA NotRevertedStep ==
  ASSUME FilesInv, NotReverted
  PROVE  FilesInv'
<1>0. Numbers /\ Recorded /\ phase = "undoing" /\ calls = <<>> /\ undos # <<>> /\ announced = 0 /\ Left
  BY DEF FilesInv, NotReverted, Undoing, Idle, Numbers, Left
<1>1. /\ Still /\ undos' = Tail(undos) /\ announced' = 0 /\ names' = names /\ ids' = ids
      /\ phase' = "undoing" /\ failing' = FALSE /\ calls' = <<>>
      /\ acts' = acts /\ crashes' = crashes /\ committed' = committed
  BY <1>0 DEF NotReverted, Still, history, Numbers
<1>2. Recorded' /\ Directory' /\ (void' \/ Safe({})') /\ Len(undos') = Len(undos) - 1
  BY <1>0, <1>1, ShorterRecord
<1>3. Left'
  <2>1. names \in Nat /\ Len(undos) \in Nat /\ crashes \in Nat /\ MaxCrashes \in Nat /\ MaxActs \in Nat
    BY <1>0, Ints, FilesAssumption DEF Recorded, Numbers
  <2> QED BY <1>0, <1>1, <1>2, <2>1, NamesLeft DEF Left
<1>4. Numbers'
  BY <1>0, <1>1, <1>3 DEF Numbers, Still, Names
<1>5. Calls'
  BY <1>1, <1>2 DEF Calls, Settled
<1> QED BY <1>2, <1>4, <1>5 DEF FilesInv

(* An undo has been performed.                                             *)
LEMMA RevertedStep ==
  ASSUME FilesInv, Succeeded, phase = "undoing"
  PROVE  FilesInv'
<1>0. Numbers /\ Recorded /\ calls # <<>> /\ undos # <<>> /\ announced = 0 /\ Left
  BY DEF FilesInv, Succeeded, At, Numbers, Left, Calls, Undoes
<1>1. /\ Still /\ undos' = Tail(undos) /\ announced' = 0 /\ names' = names /\ ids' = ids
      /\ phase' = "undoing" /\ failing' = failing /\ calls' = <<>>
      /\ acts' = acts /\ crashes' = crashes /\ committed' = committed
  BY <1>0 DEF Succeeded, Still, history, kept, Numbers
<1>2. Recorded' /\ Directory' /\ (void' \/ Safe({})') /\ Len(undos') = Len(undos) - 1
  BY <1>0, <1>1, ShorterRecord
<1>3. Left'
  <2>1. names \in Nat /\ Len(undos) \in Nat /\ crashes \in Nat /\ MaxCrashes \in Nat /\ MaxActs \in Nat
    BY <1>0, Ints, FilesAssumption DEF Recorded, Numbers
  <2> QED BY <1>0, <1>1, <1>2, <2>1, NamesLeft DEF Left
<1>4. Numbers'
  BY <1>0, <1>1, <1>3 DEF Numbers, Still, Names
<1>5. Calls'
  BY <1>1, <1>2 DEF Calls, Settled
<1> QED BY <1>2, <1>4, <1>5 DEF FilesInv

(* An action has been performed: none of its names holds data of others.   *)
LEMMA EndOnly ==
  ASSUME NEW s, IsList(s), NEW k, In(s, k), At("end"), s[k].sys # "end"
  PROVE  FALSE
  BY Stepping DEF At

(* That is so of every action, whichever way it went.                      *)
LEMMA ActedIsClean ==
  ASSUME NEW n, NEW i, InHandOf(n, i), At("end")
  PROVE  /\ ~failing /\ (void \/ (OlderClean(n) /\ \A m \in n..(n + 3) : Clean(m)))
<1>0. /\ n \in Nat /\ n > 0 /\ calls # <<>> /\ call.sys = "end" /\ failing \in BOOLEAN
      /\ \A m : dir[m] = None => Clean(m)
  BY Handy DEF InHandOf, At, Clean, Data
<1>1. Acting(n, i) \/ Failing(n, i)
  BY DEF InHandOf, FilesInv, Calls
<1>2. ~Failing(n, i)
  BY <1>0 DEF Failing, Unlinking, Clearing, ExchangingBack, LinkingBack, LinkingAsideBack, call, Call,
              Unlink, Clear, Link
<1>3. ~failing
  BY <1>1, <1>2 DEF Acting
<1>4. \A m \in n..(n + 3) : m = n \/ m = n + 1 \/ m = n + 2 \/ m = n + 3
  BY <1>0
<1>5. /\ n \in n..(n + 3) /\ \A m \in {n + 1, n + 2, n + 3} : m \in (n + 1)..(n + 3)
      /\ \A m \in {n + 2, n + 3} : m \in (n + 2)..(n + 3)
  BY <1>0
<1>6. ASSUME NEW kind \in {"file", "dir", "tree"}, NEW k \in 1..7, Creating(n, i, kind, k)
      PROVE  void \/ (OlderClean(n) /\ \A m \in n..(n + 3) : Clean(m))
  <2>1. PICK s : s = create(kind, n, i)
    OBVIOUS
  <2>2. IsList(s) /\ Len(s) = 7 /\ \A j \in 1..6 : s[j].sys # "end"
    BY <2>1, List7 DEF create, pin, write_new, finish_node, Announce, Link, Sync, Call
  <2>3. k = 7
    BY <1>6, <2>1, <2>2, EndOnly DEF Creating
  <2> QED BY <1>0, <1>4, <1>5, <1>6, <2>3 DEF Creating, Empty
<1>7. ASSUME NEW old \in 1..(i - 1), NEW k \in 1..9, Putting(n, i, old, k)
      PROVE  void \/ (OlderClean(n) /\ \A m \in n..(n + 3) : Clean(m))
  <2>1. PICK s : s = put_file(n, i, old)
    OBVIOUS
  <2>2. IsList(s) /\ Len(s) = 9 /\ \A j \in 1..8 : s[j].sys # "end"
    BY <2>1, List9 DEF put_file, pin, write_new, finish_node, Announce, Link, Sync, Call, holds, Pend
  <2>3. k = 9
    BY <1>7, <2>1, <2>2, EndOnly DEF Putting
  <2> QED BY <1>0, <1>4, <1>5, <1>7, <2>3 DEF Putting, Empty
<1>8. ASSUME NEW old \in 1..(i - 1), NEW k \in 1..7, Aside(n, i, old, k)
      PROVE  void \/ (OlderClean(n) /\ \A m \in n..(n + 3) : Clean(m))
  <2>1. PICK s, t : s = set_aside(n, i, old) /\ t = set_aside_by_copy(n + 1, n + 2, i, old)
    OBVIOUS
  <2>2. IsList(s) /\ Len(s) = 7 /\ \A j \in 1..6 : s[j].sys # "end"
    BY <2>1, List7 DEF set_aside, pin, Announce, Link, Sync, Call, holds, Pend
  <2>3. k = 7
    BY <1>8, <2>1, <2>2, EndOnly DEF Aside
  <2> QED BY <1>0, <1>4, <1>5, <1>8, <2>3 DEF Aside, Empty
<1>9. ASSUME NEW old \in 1..(i - 1), NEW k \in 1..9, Reclaiming(n, i, old, k)
      PROVE  void \/ (OlderClean(n) /\ \A m \in n..(n + 3) : Clean(m))
  <2>1. PICK s : s = reclaim(n, n + 1, i, old)
    OBVIOUS
  <2>2. IsList(s) /\ Len(s) = 9 /\ \A j \in 1..8 : s[j].sys # "end"
    BY <2>1, List9 DEF reclaim, pin, Announce, Link, Sync, Call, holds, Pend
  <2>3. k = 9
    BY <1>9, <2>1, <2>2, EndOnly DEF Reclaiming
  <2> QED BY <1>0, <1>4, <1>5, <1>9, <2>3 DEF Reclaiming, Empty
<1>10. ASSUME NEW old \in 1..(i - 1), NEW k \in 1..10, AsideByCopy(n, i, old, k)
       PROVE  void \/ (OlderClean(n) /\ \A m \in n..(n + 3) : Clean(m))
  <2>1. PICK s : AsideByCopyCalls(s, n + 1, n + 2, i, old)
    BY DEF AsideByCopyCalls
  <2>2. IsList(s) /\ Len(s) = 10 /\ \A j \in 1..9 : s[j].sys # "end"
    <3>1. IsList(s) /\ Len(s) = 10
      BY <2>1, AsideByCopyList
    <3>2. /\ s[1].sys = "copy" /\ s[2].sys = "announce" /\ s[3].sys = "link" /\ s[4].sys = "sync"
          /\ s[5].sys = "announce"
          /\ s[6].sys = "inplace" /\ s[7].sys = "rmdir" /\ s[8].sys = "sync" /\ s[9].sys = "pend"
      <4>1. /\ IsList(s) /\ Len(s) = 10
            /\ s[1] = Call("copy", n + 1, i, <<Clear(n + 1)>>)
            /\ s[2] = Announce(<<RemoveCreatedTree(n + 2, i)>>, <<Clear(n + 1)>>)
            /\ s[3] = Link(n + 1, n + 2, <<Clear(n + 1)>>)
            /\ s[4] = Sync
            /\ s[5] = Announce(<<Restore(n + 2, None)>>, <<>>)
            /\ s[6] = Call("inplace", old, None, <<>>)
            /\ s[7] = Call("rmdir", Path, None, <<>>)
            /\ s[8] = Sync
            /\ s[9] = Pend(n + 2)
            /\ s[10] = End
        BY <2>1, AsideByCopyList
      <4> QED BY <4>1 DEF Announce, Link, Sync, Call, Pend
    <3>3. \A j \in 1..9 : j = 1 \/ j = 2 \/ j = 3 \/ j = 4 \/ j = 5 \/ j = 6 \/ j = 7 \/ j = 8 \/ j = 9
      OBVIOUS
    <3> QED BY <3>1, <3>2, <3>3
  <2>3. k = 10
    BY <1>10, <2>1, <2>2, EndOnly DEF AsideByCopy, AsideByCopyCalls
  <2>4. /\ dir[n] = None /\ dir[n + 1] = None /\ dir[n + 3] = None
        /\ void \/ (OlderClean(n) /\ Clean(n + 2))
    BY <1>10, <2>3 DEF AsideByCopy, ByCopy
  <2> QED BY <1>0, <1>4, <2>4
<1>11. ASSUME NEW old \in 1..(i - 1), NEW k \in 1..13, ReclaimByCopy(n, i, old, k)
       PROVE  void \/ (OlderClean(n) /\ \A m \in n..(n + 3) : Clean(m))
  <2>1. PICK s : ReclaimByCopyCalls(s, n, n + 2, n + 3, i + 1, old)
    BY DEF ReclaimByCopyCalls
  <2>2. IsList(s) /\ Len(s) = 13 /\ \A j \in 1..12 : s[j].sys # "end"
    <3>1. IsList(s) /\ Len(s) = 13
      BY <2>1, ReclaimByCopyList
    <3>2. /\ s[1].sys = "rmtree" /\ s[2].sys = "copy" /\ s[3].sys = "announce" /\ s[4].sys = "link"
          /\ s[5].sys = "sync"
          /\ s[6].sys = "announce" /\ s[7].sys = "inplace" /\ s[8].sys = "rmdir"
          /\ s[9].sys = "sync" /\ s[10].sys = "link" /\ s[11].sys = "sync" /\ s[12].sys = "announce"
      <4>1. /\ IsList(s) /\ Len(s) = 13
            /\ s[1] = Clear(n)
            /\ s[2] = Call("copy", n + 2, i + 1, <<Clear(n + 2)>>)
            /\ s[3] = Announce(<<RemoveCreatedTree(n + 3, i + 1)>>, <<Clear(n + 2)>>)
            /\ s[4] = Link(n + 2, n + 3, <<Clear(n + 2)>>)
            /\ s[5] = Sync
            /\ s[6] = Announce(<<Restore(n + 3, None)>>, <<>>)
            /\ s[7] = Call("inplace", old, None, <<>>)
            /\ s[8] = Call("rmdir", Path, None, <<>>)
            /\ s[9] = Sync
            /\ s[10] = Link(n + 3, Path, <<>>)
            /\ s[11] = Sync
            /\ s[12] = Announce(<<>>, <<>>)
            /\ s[13] = End
        BY <2>1, ReclaimByCopyList
      <4> QED BY <4>1 DEF Announce, Link, Sync, Call, Clear
    <3>3. \A j \in 1..12 : j = 1 \/ j = 2 \/ j = 3 \/ j = 4 \/ j = 5 \/ j = 6 \/ j = 7 \/ j = 8
                           \/ j = 9 \/ j = 10 \/ j = 11 \/ j = 12
      OBVIOUS
    <3> QED BY <3>1, <3>2, <3>3
  <2>3. k = 13
    BY <1>11, <2>1, <2>2, EndOnly DEF ReclaimByCopy, ReclaimByCopyCalls
  <2>4. /\ dir[n] = None /\ dir[n + 1] = None /\ dir[n + 2] = None /\ dir[n + 3] = None
        /\ void \/ OlderClean(n)
    BY <1>11, <2>3 DEF ReclaimByCopy, ByCopy
  <2> QED BY <1>0, <1>4, <2>4
<1>12. ASSUME NEW old \in Int, NEW k \in 1..2, Looking(n, i, old, k)
       PROVE  void \/ (OlderClean(n) /\ \A m \in n..(n + 3) : Clean(m))
  BY <1>0, <1>12 DEF Looking, Empty
<1>13. ASSUME NEW x \in Int, NEW k \in 1..3, Changing(n, i, x, k)
       PROVE  void \/ (OlderClean(n) /\ \A m \in n..(n + 3) : Clean(m))
  BY <1>0, <1>13 DEF Changing, Empty
<1>14. ASSUME NEW old \in Int, NEW k \in 1..4, Discarding(n, i, old, k)
       PROVE  void \/ (OlderClean(n) /\ \A m \in n..(n + 3) : Clean(m))
  BY <1>0, <1>14 DEF Discarding, Empty
<1>15. void \/ (OlderClean(n) /\ \A m \in n..(n + 3) : Clean(m))
  BY <1>1, <1>2, <1>6, <1>7, <1>8, <1>9, <1>10, <1>11, <1>12, <1>13, <1>14 DEF Acting
<1> QED BY <1>3, <1>15

(* The undos of a successful action, marked as such, are the same undos.   *)
LEMMA SureIs ==
  ASSUME Recorded, undos' = [k \in DOMAIN undos |->
                               IF k <= announced THEN [undos[k] EXCEPT !.sure = TRUE] ELSE undos[k]]
  PROVE  /\ undos' \in Seq(UndoSet) /\ Len(undos') = Len(undos) /\ DOMAIN undos' = DOMAIN undos
         /\ \A k \in DOMAIN undos : /\ undos'[k].op = undos[k].op /\ undos'[k].at = undos[k].at
                                    /\ undos'[k].from = undos[k].from
                                    /\ undos'[k].expect = undos[k].expect
<1>1. undos \in Seq(UndoSet) /\ DOMAIN undos = 1..Len(undos) /\ Len(undos) \in Nat
  BY DEF Recorded
<1>2. ASSUME NEW k \in 1..Len(undos)
      PROVE  /\ undos'[k] \in UndoSet /\ undos'[k].op = undos[k].op /\ undos'[k].at = undos[k].at
             /\ undos'[k].from = undos[k].from /\ undos'[k].expect = undos[k].expect
  <2>1. undos[k] \in UndoSet /\ undos'[k] = IF k <= announced THEN [undos[k] EXCEPT !.sure = TRUE]
                                            ELSE undos[k]
    BY <1>1
  <2>2. PICK u \in UndoSet : u = undos[k]
    BY <2>1
  <2>3. LET v == [u EXCEPT !.sure = TRUE] IN
        v \in UndoSet /\ v.op = u.op /\ v.at = u.at /\ v.from = u.from /\ v.expect = u.expect
    BY DEF UndoSet
  <2> QED BY <2>1, <2>2, <2>3
<1>3. DOMAIN undos' = 1..Len(undos) /\ undos' = [k \in 1..Len(undos) |-> undos'[k]]
  BY <1>1
<1>4. undos' \in [1..Len(undos) -> UndoSet]
  BY <1>2, <1>3
<1>5. undos' \in Seq(UndoSet) /\ Len(undos') = Len(undos)
  BY <1>1, <1>4
<1> QED BY <1>1, <1>2, <1>3, <1>5

(* Done goes on record.                                                    *)
LEMMA ActedStep ==
  ASSUME FilesInv, Succeeded, phase = "acting"
  PROVE  FilesInv'
<1>0. Numbers /\ Recorded /\ Directory /\ Shape /\ calls # <<>> /\ At("end") /\ void \in BOOLEAN
  BY DEF FilesInv, Succeeded, At, Numbers, Directory
<1>1. PICK n, i : n = base /\ i = new
  OBVIOUS
<1>2. InHandOf(n, i)
  BY <1>0, <1>1 DEF InHandOf
<1>3. ~failing /\ (void \/ (OlderClean(n) /\ \A m \in n..(n + 3) : Clean(m)))
  BY <1>0, <1>2, ActedIsClean
<1>4. /\ Still /\ announced' = 0 /\ names' = names /\ ids' = ids
      /\ phase' = "acting" /\ failing' = failing /\ calls' = <<>>
      /\ acts' = acts /\ crashes' = crashes /\ committed' = committed /\ pending' = pending
      /\ undos' = [k \in DOMAIN undos |->
                     IF k <= announced THEN [undos[k] EXCEPT !.sure = TRUE] ELSE undos[k]]
  BY <1>0 DEF Succeeded, Still, history, kept
<1>5. /\ undos' \in Seq(UndoSet) /\ Len(undos') = Len(undos) /\ DOMAIN undos' = DOMAIN undos
      /\ \A k \in DOMAIN undos : /\ undos'[k].op = undos[k].op /\ undos'[k].at = undos[k].at
                                 /\ undos'[k].from = undos[k].from
                                 /\ undos'[k].expect = undos[k].expect
  BY <1>0, <1>4, SureIs
<1>6. Recorded'
  <2>1. ASSUME NEW k \in DOMAIN undos PROVE UndoOK(undos[k])'
    <3>1. UndoOK(undos[k])
      BY <1>0 DEF Recorded
    <3> QED BY <1>4, <1>5, <3>1 DEF UndoOK, Done, Kinds, Still
  <2>2. announced' \in 0..Len(undos')
    BY <1>0, <1>4, <1>5 DEF Recorded
  <2> QED BY <1>5, <2>1, <2>2 DEF Recorded
<1>7. Directory'
  BY <1>0, <1>4 DEF Directory, Shape, NodeOK, Done, Still
<1>8. Older'
  <2>1. Older /\ InHand /\ Len(undos) \in Nat /\ announced \in Nat
    BY <1>0 DEF Numbers, InHand, Recorded
  <2>2. ~InHand'
    BY <1>3, <1>4 DEF InHand
  <2>3. acts \in Nat /\ Len(undos) <= 2 * acts
    BY <2>1 DEF Older
  <2> QED BY <1>4, <1>5, <2>1, <2>2, <2>3 DEF Older
<1>9. Numbers'
  BY <1>0, <1>4, <1>8 DEF Numbers, Still, Names
<1>10. void' \/ Safe({})'
  <2>1. Expects' = Expects
    BY <1>5 DEF Expects
  <2>2. Safe({}) => Safe({})'
    BY <1>0, <1>4, <2>1, SafeAnnounced DEF Still
  <2> QED BY <1>4, <2>2, SafeAnyway DEF Still
<1>11. void' \/ ~Caught'
  <2> SUFFICES ASSUME ~void, NEW m \in Names \ {Path} PROVE Clean(m)
    BY <1>4 DEF Caught, Clean, Still, Data
  <2>1. /\ n \in Nat /\ n > 0 /\ n + 3 = names /\ m \in Nat /\ m # 0
    BY <1>0, <1>2, Handy, Ints DEF Path
  <2>2. CASE m < n
    BY <1>3, <2>1, <2>2 DEF OlderClean
  <2>3. CASE m \in n..(n + 3)
    BY <1>3, <2>3
  <2>4. CASE m > names
    BY <1>0, <2>4 DEF Directory, Clean, Data
  <2> QED BY <2>1, <2>2, <2>3, <2>4
<1>12. Path \in pending' => void' \/ Spared'
  <2>1. Path \in pending => void \/ Spared
    BY DEF FilesInv, Calls
  <2> QED BY <1>4, <2>1 DEF Still, Spared, Clean, Data
<1>13. Calls'
  BY <1>4, <1>10, <1>11, <1>12 DEF Calls
<1> QED BY <1>6, <1>7, <1>9, <1>13 DEF FilesInv

(* An action or an undo has succeeded.                                     *)
LEMMA SucceededStep ==
  ASSUME FilesInv, Succeeded
  PROVE  FilesInv'
<1>1. phase \in {"acting", "undoing"}
  BY DEF Succeeded, At, FilesInv, Numbers
<1> QED BY <1>1, ActedStep, RevertedStep

(* The commit gives up what was there before; nothing of others goes.      *)
LEMMA DeleteStep ==
  ASSUME FilesInv, NEW n \in Names, Delete(n)
  PROVE  FilesInv'
<1>0. /\ Numbers /\ Recorded /\ Directory /\ Shape /\ calls = <<>> /\ phase = "committing"
      /\ void \in BOOLEAN /\ n \in pending /\ names \in Nat /\ ids \in Nat /\ moves \in Nat
      /\ names \in Names /\ announced \in 0..Len(undos)
  BY Ints DEF FilesInv, Delete, Numbers, Directory, Recorded
<1>1. /\ living' = living \ {0} /\ moves' = moves /\ void' = void /\ undos' = undos
      /\ announced' = announced /\ names' = names /\ ids' = ids
      /\ phase' = phase /\ failing' = failing /\ calls' = calls
      /\ acts' = acts /\ crashes' = crashes /\ committed' = committed /\ pending' = pending \ {n}
  BY DEF Delete, record, counters
<1>2. Numbers'
  BY <1>0, <1>1 DEF Numbers, Left, Names
<1>3. (void \/ ~Caught) /\ (Path \in pending => void \/ Spared) /\ (void \/ Safe({}))
  BY <1>0 DEF FilesInv, Calls, Settled
<1>4. dir' = dir \/ (dir' = [dir EXCEPT ![n] = None] /\ ~(dir[n] # None /\ dir[n].owner # "mix"))
  BY DEF Delete
<1>5. Shape' /\ Back({}) /\ DoneKept /\ \A m \in Names : m # n => dir'[m] = dir[m]
  <2>1. CASE dir' = dir
    BY <1>0, <2>1, SameDir
  <2>2. CASE dir' = [dir EXCEPT ![n] = None]
    BY <1>0, <2>2, PutDir
  <2> QED BY <1>4, <2>1, <2>2
<1>6. Recorded'
  <2>1. ASSUME NEW k \in DOMAIN undos PROVE Fits(undos[k], {}) /\ Whole(undos[k])
    <3>1. UndoOK(undos[k])
      BY <1>0 DEF Recorded
    <3>2. Whole(undos[k])
      BY <1>0, <1>5, <3>1, WholeKept
    <3> QED BY <3>2 DEF Fits
  <2> QED BY <1>0, <1>1, <1>5, <2>1, RecordedKept
<1>7. Directory'
  <2>1. NodesOK'
    <3>1. NodesOK
      BY <1>0 DEF Directory, NodesOK
    <3> QED BY <1>0, <1>1, <1>5, <3>1, NodesKept
  <2>2. Done(Path)'
    BY <1>0, <1>5, Ints DEF Directory, DoneKept
  <2>3. \A m \in Names : m > names => dir'[m] = None
    BY <1>0, <1>4, <1>5 DEF Directory, Shape
  <2>4. living' \subseteq (-moves)..0
    BY <1>0, <1>1 DEF Directory
  <2> QED BY <1>1, <1>5, <2>1, <2>2, <2>3, <2>4 DEF Directory, NodesOK
<1>8. ASSUME ~void, dir' # dir PROVE Clean(n) /\ dir' = [dir EXCEPT ![n] = None]
  <2>1. dir' = [dir EXCEPT ![n] = None] /\ ~(dir[n] # None /\ dir[n].owner # "mix")
    BY <1>4, <1>8
  <2>2. CASE n = Path
    BY <1>0, <1>3, <1>8, <2>1, <2>2 DEF Spared, Clean, Data
  <2>3. CASE n # Path
    <3>1. ~Caught
      BY <1>3, <1>8
    <3>2. n \in Names \ {Path}
      BY <2>3
    <3>3. \A d \in Data(n) : ~Theirs(d)
      BY <3>1, <3>2 DEF Caught
    <3> QED BY <2>1, <3>3 DEF Clean
  <2> QED BY <2>1, <2>2, <2>3
<1>9. ASSUME ~void PROVE Safe({})'
  <2>1. living \subseteq (-moves)..0
    BY <1>0 DEF Directory
  <2>2. Expects' = Expects
    BY <1>1 DEF Expects
  <2>3. ASSUME NEW d \in living' PROVE \E m \in Names : Keeps(m, d, {})'
    <3>1. d \in living /\ Theirs(d) /\ d # None
      BY <1>0, <1>1, <2>1, <2>3, FilesAssumption DEF Theirs
    <3>2. PICK m \in Names : Keeps(m, d, {})
      BY <1>3, <1>9, <3>1 DEF Safe
    <3>3. dir'[m] = dir[m]
      <4>1. d \in Data(m)
        BY <3>1, <3>2 DEF Keeps, Data
      <4>2. dir' # dir => m # n
        BY <1>8, <1>9, <3>1, <4>1 DEF Clean
      <4> QED BY <1>5, <4>2
    <3> QED BY <2>2, <3>2, <3>3 DEF Keeps
  <2>4. ASSUME NEW m \in Names, NEW d \in Data(m)', Theirs(d) PROVE d \in living'
    <3>1. dir'[m] # None
      BY <2>4 DEF Data
    <3>2. PICK l \in Names : dir[l] # None /\ Like(dir'[m], dir[l])
      BY <1>5, <3>1 DEF Back
    <3>3. d \in Data(l)
      BY <2>4, <3>1, <3>2 DEF Data, Like
    <3>4. d \in living
      BY <1>3, <1>9, <2>4, <3>3 DEF Safe
    <3>5. d # 0
      BY <2>4 DEF Theirs
    <3> QED BY <1>1, <3>4, <3>5
  <2> QED BY <2>3, <2>4 DEF Safe, Theirs
<1>10. void' \/ ~Caught'
  <2> SUFFICES ASSUME ~void, NEW m \in Names \ {Path}, NEW d \in Data(m)', Theirs(d) PROVE FALSE
    BY <1>1 DEF Caught, Theirs
  <2>1. m # n => dir'[m] = dir[m]
    BY <1>5
  <2>2. dir'[m] = dir[m]
    BY <1>0, <1>4, <2>1 DEF Data, Shape
  <2>3. d \in Data(m)
    BY <2>2 DEF Data
  <2> QED BY <1>3, <2>3 DEF Caught
<1>11. Path \in pending' => void' \/ Spared'
  <2>1. Path \in pending' => Path # n /\ Path \in pending
    BY <1>1
  <2>2. Path \in pending' => dir'[Path] = dir[Path]
    BY <1>0, <1>5, <2>1, Ints
  <2> QED BY <1>1, <1>3, <2>1, <2>2 DEF Spared, Clean, Data
<1>12. Calls'
  BY <1>0, <1>1, <1>9, <1>10, <1>11 DEF Calls
<1> QED BY <1>2, <1>6, <1>7, <1>12 DEF FilesInv

(* A new action, or a new undo: the names and the identities grow.         *)
LEMMA MoreNames ==
  ASSUME FilesInv, Still, undos' = undos, announced' = announced, names' \in Nat, names <= names',
         ids' \in Nat, ids <= ids'
  PROVE  Recorded' /\ Directory'
<1>1. /\ Numbers /\ Recorded /\ Directory /\ Shape /\ names \in Nat /\ ids \in Nat /\ moves \in Nat
      /\ names \in Names /\ announced \in 0..Len(undos) /\ \A m \in Names : m \in Nat
  BY Ints DEF FilesInv, Directory, Numbers, Recorded
<1>2. Shape' /\ Back({}) /\ DoneKept
  BY <1>1, SameDir DEF Still
<1>3. \A k \in DOMAIN undos : Fits(undos[k], {}) /\ Whole(undos[k])
  <2>1. ASSUME NEW k \in DOMAIN undos PROVE Fits(undos[k], {}) /\ Whole(undos[k])
    <3>1. UndoOK(undos[k])
      BY <1>1 DEF Recorded
    <3>2. Whole(undos[k])
      BY <1>1, <1>2, <3>1, WholeKept
    <3> QED BY <3>2 DEF Fits
  <2> QED BY <2>1
<1>4. Recorded'
  BY <1>1, <1>2, <1>3, RecordedKept
<1>5. NodesOK'
  <2>1. NodesOK
    BY <1>1 DEF Directory, NodesOK
  <2>2. moves' = moves
    BY DEF Still
  <2> QED BY <1>1, <1>2, <2>1, <2>2, NodesKept
<1>6. \A m \in Names : m > names' => dir'[m] = None
  BY <1>1 DEF Directory, Still
<1>7. Done(Path)' /\ living' \subseteq (-moves')..0
  BY <1>1 DEF Directory, Done, Still
<1> QED BY <1>2, <1>4, <1>5, <1>6, <1>7 DEF Directory, NodesOK

(* The identities of a new action are nobody's.                            *)
LEMMA FreshHand ==
  ASSUME FilesInv, phase = "acting", calls = <<>>, ~failing,
         NEW i, i = ids + 1
  PROVE  /\ Unused(i) /\ Unused(i + 1) /\ (void \/ Safe(Hand(i)))
<1>1. Numbers /\ Directory /\ ids \in Nat /\ (void \/ Safe({}))
  BY Ints, SafeAnyway DEF FilesInv
<1>2. \A m \in Names : dir[m] # None => dir[m].id \in Int /\ dir[m].id <= ids
  BY <1>1, Ints DEF Directory, NodeOK
<1>3. Unused(i) /\ Unused(i + 1)
  BY <1>1, <1>2 DEF Unused
<1>4. \A m \in Names : \A d : Keeps(m, d, {}) => Keeps(m, d, Hand(i))
  BY <1>3 DEF Keeps, Hand, Unused
<1>5. Safe({}) => Safe(Hand(i))
  BY <1>4 DEF Safe
<1> QED BY <1>1, <1>3, <1>5

ActIs(n, i) ==
    /\ Still /\ undos' = undos /\ announced = 0 /\ announced' = 0 /\ pending' = pending
    /\ failing' = FALSE /\ phase' = "acting" /\ acts' = acts + 1 /\ crashes' = crashes
    /\ committed' = committed /\ names' = names + 4 /\ ids' = ids + 2
    /\ n = names + 1 /\ i = ids + 1 /\ n \in Nat /\ i \in Nat /\ n > 0 /\ i > 0
    /\ Path \notin pending

(* The counters are in order after a new action.                           *)
LEMMA ActNumbers ==
  ASSUME FilesInv, phase = "acting", calls = <<>>, acts < MaxActs, NEW n, NEW i, ActIs(n, i), calls' # <<>>
  PROVE  Numbers' /\ base' = n /\ new' = i
<1>2. /\ Numbers /\ Recorded /\ names \in Nat /\ ids \in Nat /\ acts \in Nat /\ MaxActs \in Nat
      /\ MaxCrashes \in Nat /\ Len(undos) \in Nat
  BY Ints, FilesAssumption DEF FilesInv, Numbers, Recorded
<1>3. names = 4 * acts /\ ids = 1 + 2 * acts /\ Len(undos) <= 2 * acts
  BY <1>2 DEF Numbers, Older, ActIs
<1>4. \A k \in 1..Len(undos) : Earlier(undos[k], n, i)
  BY <1>2 DEF Earlier, Recorded, UndoOK, ActIs
<1>5. base' = n /\ new' = i
  BY <1>2 DEF ActIs, base, new
<1>6. acts' > 0 /\ acts' \in 0..MaxActs /\ names' = 4 * acts' /\ ids' = 1 + 2 * acts'
  BY <1>2, <1>3 DEF ActIs
<1>7. Older'
  <2>1. InHand'
    BY DEF InHand, ActIs
  <2>2. Len(undos') - announced' <= 2 * (acts' - 1) /\ announced' <= 2
    BY <1>2, <1>3 DEF ActIs
  <2>3. \A k \in (announced' + 1)..Len(undos') : Earlier(undos'[k], n, i)
    BY <1>2, <1>4 DEF ActIs
  <2>4. \A k \in (announced' + 1)..Len(undos') : Earlier(undos[k], base, new)'
    BY <1>5, <2>3 DEF Earlier
  <2> QED BY <1>6, <2>1, <2>2, <2>4 DEF Older
<1>8. names' \in Names
  <2>1. PICK a : a = acts' /\ a \in 0..MaxActs /\ names' = 4 * a
    BY <1>6
  <2>2. a \in Nat /\ a <= MaxActs /\ MaxActs \in Nat /\ MaxCrashes \in Nat
    BY <1>2, <2>1
  <2>3. 4 * a \in 0..(6 * MaxActs + MaxCrashes)
    BY ONLY <2>2
  <2> QED BY <2>1, <2>3 DEF Names
<1>9. ids' \in Nat /\ acts' \in Nat
  BY <1>2 DEF ActIs
<1>10. /\ moves' \in Nat /\ crashes' \in 0..MaxCrashes /\ void' \in BOOLEAN /\ failing' \in BOOLEAN
       /\ committed' \in BOOLEAN /\ phase' = "acting" /\ ~committed'
  BY <1>2 DEF Numbers, ActIs, Still
<1>11. Numbers'
  BY <1>7, <1>8, <1>9, <1>10 DEF Numbers
<1> QED BY <1>5, <1>11

(* A list of calls begins with its first.                                  *)
LEMMA FirstCall ==
  ASSUME NEW s, IsList(s), Len(s) > 0, calls' = s
  PROVE  In(s, 1)'
<1>1. From(s, 1) = s /\ 1 \in 1..Len(s)
  BY Starting
<1> QED BY <1>1 DEF In

(* perform: an action made from what is seen at the path now.              *)
LEMMA ActStep ==
  ASSUME FilesInv, NEW op \in Ops, Act(op)
  PROVE  FilesInv'
<1>0. /\ Numbers /\ Recorded /\ Directory /\ Shape /\ phase = "acting" /\ calls = <<>> /\ ~failing
      /\ acts < MaxActs /\ Path \notin pending /\ Clean(Path) /\ Ready(op) /\ calls' = Script(op)
      /\ announced = 0 /\ failing \in BOOLEAN /\ void \in BOOLEAN
  BY DEF FilesInv, Act, Idle, Numbers, Directory, Clean, Older, InHand
<1>1. PICK n, i : n = names + 1 /\ i = ids + 1
  OBVIOUS
<1>2. /\ names \in Nat /\ ids \in Nat /\ Path \in Names /\ Path = 0 /\ \A m \in Names : m \in Nat
  BY <1>0, Ints
<1>3. ActIs(n, i)
  BY <1>0, <1>1, <1>2 DEF Act, ActIs, Still, record, history
<1>4. Recorded' /\ Directory'
  BY <1>2, <1>3, MoreNames DEF ActIs
<1>5. Unused(i)' /\ Unused(i + 1)' /\ (void' \/ Safe(Hand(i))')
  <2>1. Unused(i) /\ Unused(i + 1) /\ (void \/ Safe(Hand(i)))
    BY <1>0, <1>1, FreshHand
  <2>2. dir' = dir /\ (void' <=> void)
    BY <1>3 DEF ActIs, Still
  <2>3. Safe(Hand(i)) => Safe(Hand(i))'
    BY <1>3, StillFacts DEF ActIs
  <2> QED BY <2>1, <2>2, <2>3 DEF Unused
<1>6. Empty(n..(n + 3))'
  <2>1. \A m \in n..(n + 3) : m \in Names => dir[m] = None
    BY <1>0, <1>1, <1>2 DEF Directory
  <2>2. \A m \in n..(n + 3) : m \in Names
    <3>1. names = 4 * acts /\ acts \in 0..MaxActs /\ MaxActs \in Nat /\ MaxCrashes \in Nat
      BY <1>0, FilesAssumption DEF Numbers, Older
    <3> QED BY <1>0, <1>1, <1>2, <3>1 DEF Names
  <2> QED BY <1>3, <2>1, <2>2 DEF Empty, ActIs, Still
<1>7. void' \/ (OlderClean(n)' /\ OwnClean(i)')
  <2> SUFFICES ASSUME ~void PROVE OlderClean(n)' /\ OwnClean(i)'
    BY <1>3 DEF ActIs, Still
  <2>1. \A m \in Names : Clean(m)
    <3>1. ~Caught
      BY <1>0 DEF FilesInv, Calls, Settled
    <3>2. \A m \in Names : m # Path => Clean(m)
      BY <3>1 DEF Caught, Clean
    <3> QED BY <1>0, <3>2
  <2>2. \A m \in Names : Clean(m)'
    BY <1>3, <2>1 DEF ActIs, Still, Clean, Data
  <2>3. \A m \in 1..(n - 1) : m \in Names
    BY <1>0, <1>1, Ints
  <2> QED BY <2>2, <2>3 DEF OlderClean, OwnClean
<1>8. PICK old : old = Id(Path)
  OBVIOUS
<1>9. dir[Path] # None => old = dir[Path].id /\ old \in 1..(i - 1)
  <2> SUFFICES ASSUME dir[Path] # None PROVE old \in 1..(i - 1) /\ old = dir[Path].id
    OBVIOUS
  <2>1. old = dir[Path].id /\ NodeOK(dir[Path])
    BY <1>0, <1>2, <1>8 DEF Id, Directory
  <2>2. ~(old < 0)
    <3> SUFFICES ASSUME old < 0 PROVE FALSE
      OBVIOUS
    <3>1. dir[Path].data = old
      BY <2>1 DEF NodeOK
    <3>2. old # None
      BY <1>0, <1>2, <2>1, FilesAssumption DEF Shape, Nodes
    <3>3. old \in Data(Path)
      BY <3>1, <3>2 DEF Data
    <3> QED BY <1>0, <3>3 DEF Clean, Theirs
  <2> QED BY <1>1, <1>2, <2>1, <2>2, Ints DEF NodeOK
<1>10. dir'[Path] = dir[Path] /\ announced' = 0 /\ (void' <=> void) /\ Path \notin pending'
       /\ failing' = FALSE
  BY <1>3 DEF ActIs, Still
<1>11. dir'[n] = None /\ dir'[n + 1] = None /\ Empty((n + 1)..(n + 3))' /\ Empty((n + 2)..(n + 3))'
  <2>1. n \in n..(n + 3) /\ (n + 1) \in n..(n + 3)
    BY <1>1, <1>2
  <2> QED BY <1>1, <1>2, <1>6, <2>1 DEF Empty
<1>12. Acting(n, i)' /\ calls' # <<>>
  <2>1. CASE op \in {"file", "dir", "tree"}
    <3>1. PICK s : s = create(op, n, i)
      OBVIOUS
    <3>2. IsList(s) /\ Len(s) = 7 /\ calls' = s /\ s # <<>>
      BY <1>0, <1>1, <2>1, <3>1, List7 DEF Script, create
    <3>3. In(s, 1)'
      BY <3>2, FirstCall
    <3>4. Creating(n, i, op, 1)'
      BY <1>5, <1>7, <1>10, <1>11, <3>1, <3>3 DEF Creating
    <3> QED BY <1>10, <2>1, <3>2, <3>4 DEF Acting
  <2>2. CASE op = "put"
    <3>1. PICK s : s = put_file(n, i, old)
      OBVIOUS
    <3>2. IsList(s) /\ Len(s) = 9 /\ calls' = s /\ s # <<>>
      BY <1>0, <1>1, <1>8, <2>2, <3>1, List9 DEF Script, put_file
    <3>3. In(s, 1)'
      BY <3>2, FirstCall
    <3>4. Since(old, {"file"})' /\ old \in 1..(i - 1)
      BY <1>0, <1>9, <1>10, <2>2 DEF Since, Ready
    <3>5. Putting(n, i, old, 1)'
      BY <1>5, <1>7, <1>10, <1>11, <3>1, <3>3, <3>4 DEF Putting
    <3> QED BY <1>10, <2>2, <3>2, <3>4, <3>5 DEF Acting
  <2>3. CASE op = "aside"
    <3>1. PICK s : s = set_aside(n, i, old)
      OBVIOUS
    <3>2. IsList(s) /\ Len(s) = 7 /\ calls' = s /\ s # <<>>
      BY <1>0, <1>1, <1>8, <2>3, <3>1, List7 DEF Script, set_aside
    <3>3. In(s, 1)'
      BY <3>2, FirstCall
    <3>4. Since(old, AllKinds)' /\ old \in 1..(i - 1)
      BY <1>0, <1>2, <1>9, <1>10, <2>3 DEF Since, Ready, AllKinds, Shape, Nodes
    <3>5. Aside(n, i, old, 1)'
      BY <1>5, <1>7, <1>10, <1>11, <3>1, <3>3, <3>4 DEF Aside
    <3> QED BY <1>10, <2>3, <3>2, <3>4, <3>5 DEF Acting
  <2>4. CASE op = "reclaim"
    <3>1. PICK s : s = reclaim(n, n + 1, i, old)
      OBVIOUS
    <3>2. IsList(s) /\ Len(s) = 9 /\ calls' = s /\ s # <<>>
      BY <1>0, <1>1, <1>8, <2>4, <3>1, List9 DEF Script, reclaim
    <3>3. In(s, 1)'
      BY <3>2, FirstCall
    <3>4. Since(old, AllKinds)' /\ old \in 1..(i - 1)
      BY <1>0, <1>2, <1>9, <1>10, <2>4 DEF Since, Ready, AllKinds, Shape, Nodes
    <3>5. Reclaiming(n, i, old, 1)'
      BY <1>5, <1>7, <1>10, <1>11, <3>1, <3>3, <3>4 DEF Reclaiming
    <3> QED BY <1>10, <2>4, <3>2, <3>4, <3>5 DEF Acting
  <2>5. CASE op = "mode"
    <3>1. PICK s : s = <<pin(old), set_mode(1, 2)>>
      OBVIOUS
    <3>2. IsList(s) /\ Len(s) = 2 /\ calls' = s /\ s # <<>>
      BY <1>0, <1>1, <1>8, <2>5, <3>1, List2 DEF Script
    <3>3. In(s, 1)'
      BY <3>2, FirstCall
    <3>4. old \in Int
      BY <1>0, <1>2, <1>9, <2>5, <1>1 DEF Ready
    <3>5. Looking(n, i, old, 1)'
      BY <1>5, <1>6, <1>7, <1>10, <3>1, <3>3 DEF Looking
    <3> QED BY <1>10, <3>2, <3>4, <3>5 DEF Acting
  <2>6. CASE op = "discard"
    <3>1. PICK s : s = discard(old)
      OBVIOUS
    <3>2. IsList(s) /\ Len(s) = 4 /\ calls' = s /\ s # <<>>
      BY <1>0, <1>1, <1>8, <2>6, <3>1, List4 DEF Script, discard
    <3>3. In(s, 1)'
      BY <3>2, FirstCall
    <3>4. old \in Int /\ Spared'
      <4>1. old \in Int
        BY <1>0, <1>2, <1>9, <2>6, <1>1 DEF Ready
      <4> QED BY <1>0, <1>10, <4>1 DEF Spared, Clean, Data
    <3>5. Discarding(n, i, old, 1)'
      BY <1>5, <1>6, <1>7, <1>10, <3>1, <3>3, <3>4 DEF Discarding
    <3> QED BY <1>10, <3>2, <3>4, <3>5 DEF Acting
  <2> QED BY <2>1, <2>2, <2>3, <2>4, <2>5, <2>6, FilesAssumption
<1>13. Numbers' /\ base' = n /\ new' = i
  BY <1>0, <1>3, <1>12, ActNumbers
<1>14. Calls'
  <2>1. Acting(base, new)'
    BY <1>12, <1>13 DEF Acting
  <2> QED BY <1>3, <1>12, <2>1 DEF Calls, ActIs
<1> QED BY <1>4, <1>13, <1>14 DEF FilesInv

(* The next undo whose precondition holds.                                 *)
LEMMA RevertStep ==
  ASSUME FilesInv, Revert
  PROVE  FilesInv'
<1>0. /\ Numbers /\ Recorded /\ Directory /\ Shape /\ phase = "undoing" /\ calls = <<>> /\ ~failing
      /\ undos # <<>> /\ announced = 0 /\ Left /\ Applies /\ calls' = Reverts
  BY DEF FilesInv, Revert, Undoing, Idle, Numbers, Left, Directory
<1>1. /\ Still /\ undos' = undos /\ announced' = 0 /\ announced' = announced /\ names' = names + 1
      /\ ids' = ids /\ phase' = "undoing" /\ failing' = FALSE
      /\ acts' = acts /\ crashes' = crashes /\ committed' = committed
  BY <1>0 DEF Revert, Still, history, counters, record, Numbers
<1>2. /\ names \in Nat /\ ids \in Nat /\ Len(undos) \in Nat /\ Len(undos) > 0 /\ crashes \in 0..MaxCrashes
      /\ MaxCrashes \in Nat /\ MaxActs \in Nat /\ \A m \in Names : m \in Nat
  BY <1>0, Ints, FilesAssumption DEF Recorded, Numbers
<1>3. Recorded' /\ Directory'
  BY <1>1, <1>2, MoreNames
<1>4. names + Len(undos) + (MaxCrashes - crashes) <= 6 * MaxActs + MaxCrashes
  BY <1>0, <1>2 DEF Left
<1>5. names' \in Names
  <2>1. names + 1 \in 0..(6 * MaxActs + MaxCrashes)
    BY <1>2, <1>4
  <2> QED BY <1>1, <2>1 DEF Names
<1>6. undo' = undo /\ UndoOK(undo) /\ undo \in UndoSet
  BY <1>0, <1>1, UndoHandy DEF undo
<1>7. PICK n : n = names + 1
  OBVIOUS
<1>8. dir'[n] = None /\ names' = n /\ Done(names)'
  BY <1>0, <1>1, <1>2, <1>5, <1>7 DEF Directory, Still, Done
<1>9. undo.op \in {"remove", "removetree", "restore", "mode", "keep"}
  BY <1>6 DEF UndoSet
<1>10. Undoes' /\ calls' # <<>>
  <2>1. CASE undo.op = "remove"
    <3>1. PICK s : s = remove_created(Path, n, undo.expect)
      OBVIOUS
    <3>2. IsList(s) /\ Len(s) = 5 /\ calls' = s /\ s # <<>>
      BY <1>0, <1>7, <2>1, <3>1, List5 DEF Reverts, remove_created
    <3>3. In(s, 1)'
      BY <3>2, FirstCall
    <3>4. Removing(1)'
      BY <1>6, <1>8, <2>1, <3>1, <3>3 DEF Removing
    <3> QED BY <1>0, <1>1, <3>2, <3>4 DEF Undoes
  <2>2. CASE undo.op = "removetree"
    <3>1. PICK s : s = remove_created_tree(undo.at, n, undo.expect)
      OBVIOUS
    <3>2. IsList(s) /\ Len(s) = 5 /\ calls' = s /\ s # <<>>
      BY <1>0, <1>7, <2>2, <3>1, List5 DEF Reverts, remove_created_tree
    <3>3. In(s, 1)'
      BY <3>2, FirstCall
    <3>4. RemovingTree(1)'
      BY <1>6, <1>8, <2>2, <3>1, <3>3 DEF RemovingTree
    <3> QED BY <1>0, <1>1, <3>2, <3>4 DEF Undoes
  <2>3. CASE undo.op = "restore" /\ undo.expect = None
    <3>1. PICK s : s = restore(undo.from, None)
      OBVIOUS
    <3>2. IsList(s) /\ Len(s) = 4 /\ calls' = s /\ s # <<>>
      BY <1>0, <2>3, <3>1, List4 DEF Reverts, restore
    <3>3. In(s, 1)'
      BY <3>2, FirstCall
    <3>4. Restoring(1)'
      BY <1>6, <2>3, <3>1, <3>3 DEF Restoring
    <3> QED BY <1>0, <1>1, <3>2, <3>4 DEF Undoes
  <2>4. CASE undo.op = "restore" /\ undo.expect # None
    <3>1. PICK s : s = restore(undo.from, undo.expect)
      OBVIOUS
    <3>2. IsList(s) /\ Len(s) = 6 /\ calls' = s /\ s # <<>>
      BY <1>0, <2>4, <3>1, List6 DEF Reverts, restore
    <3>3. In(s, 1)'
      BY <3>2, FirstCall
    <3>4. RestoringOver(1)'
      BY <1>6, <2>4, <3>1, <3>3 DEF RestoringOver
    <3> QED BY <1>0, <1>1, <3>2, <3>4 DEF Undoes
  <2>5. CASE undo.op = "mode"
    <3>1. PICK s : s = <<set_mode(undo.expect, undo.from)>>
      OBVIOUS
    <3>2. IsList(s) /\ Len(s) = 1 /\ calls' = s /\ s # <<>>
      BY <1>0, <2>5, <3>1, List1 DEF Reverts
    <3>3. In(s, 1)'
      BY <3>2, FirstCall
    <3>4. ChangingBack'
      BY <1>6, <2>5, <3>1, <3>3 DEF ChangingBack
    <3> QED BY <1>0, <1>1, <3>2, <3>4 DEF Undoes
  <2>6. CASE undo.op = "keep"
    <3>1. PICK s : s = <<unpend(Path), End>>
      OBVIOUS
    <3>2. IsList(s) /\ Len(s) = 2 /\ calls' = s /\ s # <<>>
      BY <1>0, <2>6, <3>1, List2 DEF Reverts
    <3>3. In(s, 1)'
      BY <3>2, FirstCall
    <3>4. Keeping'
      BY <1>6, <2>6, <3>1, <3>3 DEF Keeping
    <3> QED BY <1>0, <1>1, <3>2, <3>4 DEF Undoes
  <2> QED BY <1>9, <2>1, <2>2, <2>3, <2>4, <2>5, <2>6
<1>11. Left'
  BY <1>1, <1>2, <1>4, <1>10 DEF Left
<1>12. Numbers'
  BY <1>0, <1>1, <1>2, <1>5, <1>10, <1>11 DEF Numbers, Still
<1>13. void' \/ Safe({})'
  BY <1>1, SafeAnyway, StillFacts DEF Still
<1>14. Calls'
  BY <1>1, <1>10, <1>13 DEF Calls, Settled
<1> QED BY <1>3, <1>12, <1>14 DEF FilesInv

-----------------------------------------------------------------------------
(* 12. The others act: only the node at the path changes.                  *)

(* They remove what is there, put a file there, or fill the directory that *)
(* mix made.                                                               *)
Removes(p, now) == p = None /\ now = {}
Puts(p, now) == /\ p # None /\ p.id = theirs /\ p.data = theirs /\ p.inside = None /\ p.kind = "file"
                /\ p.done /\ now = {theirs}
                /\ (GivenUp /\ p.owner = "mix" => void')
Fills(p, now) == /\ dir[Path] # None /\ dir[Path].kind = "dir" /\ dir[Path].data # None
                 /\ dir[Path].data > 0
                 /\ p # None /\ p.id = dir[Path].id /\ p.data = dir[Path].data /\ p.kind = "dir"
                 /\ p.inside = theirs /\ p.done /\ now = {theirs}
                 /\ (GivenUp \/ GoesWhole => void')

Acted(p, now) ==
    /\ p \in Nodes \cup {None} /\ dir' = [dir EXCEPT ![Path] = p]
    /\ living' = (living \ Data(Path)) \cup now
    /\ moves' = moves + 1 /\ names' = names /\ ids' = ids /\ calls' = calls /\ failing' = failing
    /\ undos' = undos /\ announced' = announced /\ committed' = committed /\ pending' = pending
    /\ phase' = phase /\ acts' = acts /\ crashes' = crashes
    /\ void' \in BOOLEAN /\ (void \/ Caught => void')
    /\ (Removes(p, now) \/ Puts(p, now) \/ Fills(p, now))

(* Whichever they do, it is one of the three.                              *)
LEMMA OthersAct ==
  ASSUME FilesInv, Others
  PROVE  \E p, now : Acted(p, now)
<1>0. /\ Numbers /\ Directory /\ Shape /\ Path \in Names /\ moves \in Nat /\ void \in BOOLEAN
      /\ theirs \in Int /\ Done(Path)
  BY Ints DEF FilesInv, Numbers, Directory, theirs
<1>1. ASSUME NEW owner \in {"mix", "other"}, OthersPut(owner) PROVE \E p, now : Acted(p, now)
  <2>1. PICK p : p = Node(theirs, theirs, "file", owner)
    OBVIOUS
  <2>2. /\ p \in Nodes /\ p.id = theirs /\ p.data = theirs /\ p.kind = "file" /\ p.owner = owner
        /\ p.inside = None /\ p.done /\ p # None
    BY <1>0, <2>1, NewNode, NodesAreNot
  <2>3. Acted(p, {theirs})
    BY <1>0, <1>1, <2>1, <2>2 DEF OthersPut, Move, Acted, Puts, counters, record
  <2> QED BY <2>3
<1>2. ASSUME OthersRemove PROVE \E p, now : Acted(p, now)
  <2>1. Acted(None, {})
    BY <1>0, <1>2 DEF OthersRemove, Move, Acted, Removes, counters, record
  <2> QED BY <2>1
<1>3. ASSUME OthersFill PROVE \E p, now : Acted(p, now)
  <2>0. dir[Path] \in Nodes /\ dir[Path] # None /\ dir[Path].done
    BY <1>0, <1>3 DEF OthersFill, Shape, Done
  <2>1. PICK p : p = [dir[Path] EXCEPT !.inside = theirs]
    OBVIOUS
  <2>2. /\ p \in Nodes /\ p.id = dir[Path].id /\ p.data = dir[Path].data /\ p.kind = dir[Path].kind
        /\ p.inside = theirs /\ p.done /\ p # None
    BY <1>0, <2>0, <2>1, Filled, NodesAreNot
  <2>3. Acted(p, {theirs})
    BY <1>0, <1>3, <2>0, <2>1, <2>2 DEF OthersFill, Move, Acted, Fills, counters, record
  <2> QED BY <2>3
<1> QED BY <1>1, <1>2, <1>3 DEF Others

(* What it does to the directory.                                          *)
LEMMA OthersDir ==
  ASSUME FilesInv, NEW p, NEW now, Acted(p, now)
  PROVE  /\ Shape' /\ dir'[Path] = p /\ (\A m \in Names : m # Path => dir'[m] = dir[m])
         /\ Back({Path}) /\ DoneKept /\ (p # None => p.done)
         /\ theirs \in Int /\ theirs < 0 /\ theirs = -moves' /\ moves \in Nat /\ Path \in Names
<1>0. Shape /\ Path \in Names /\ moves \in Nat
  BY Ints DEF FilesInv, Directory
<1>1. p \in Nodes \cup {None} /\ dir' = [dir EXCEPT ![Path] = p] /\ (p # None => p.done)
  BY DEF Acted, Removes, Puts, Fills
<1>2. /\ Shape' /\ dir'[Path] = p /\ (\A m \in Names : m # Path => dir'[m] = dir[m])
      /\ Back({Path}) /\ DoneKept
  BY <1>0, <1>1, PutDir
<1>3. theirs \in Int /\ theirs < 0 /\ theirs = -moves'
  BY <1>0 DEF theirs, Acted
<1> QED BY <1>0, <1>1, <1>2, <1>3

(* What holds of mix's own nodes still does.                               *)
LEMMA OthersKeep ==
  ASSUME FilesInv, NEW p, NEW now, Acted(p, now)
  PROVE  /\ \A x \in Nat : Unused(x) => Unused(x)'
         /\ \A x \in Nat : \A kinds : Kinds(x, kinds) => Kinds(x, kinds)'
         /\ \A old, kinds : Since(old, kinds) => Since(old, kinds)'
         /\ Taken => Taken'
         /\ (dir[Path] # None => dir[Path].kind = "file") => (dir'[Path] # None => dir'[Path].kind = "file")
<1>1. /\ Shape' /\ dir'[Path] = p /\ Back({Path}) /\ theirs \in Int /\ theirs < 0 /\ Path \in Names
  BY OthersDir
<1>2. \/ p = None
      \/ p # None /\ p.id = theirs /\ p.kind = "file"
      \/ p # None /\ dir[Path] # None /\ p.id = dir[Path].id /\ p.kind = dir[Path].kind /\ p.kind = "dir"
  BY DEF Acted, Removes, Puts, Fills
<1>3. ASSUME NEW x \in Nat, Unused(x) PROVE Unused(x)'
  <2>1. p # None => p.id # x
    BY <1>1, <1>2, <1>3 DEF Unused
  <2> QED BY <1>1, <1>3, <2>1, UnusedKept
<1>4. ASSUME NEW x \in Nat, NEW kinds, Kinds(x, kinds) PROVE Kinds(x, kinds)'
  <2>1. p # None /\ p.id = x => p.kind \in kinds
    BY <1>1, <1>2, <1>4 DEF Kinds
  <2> QED BY <1>1, <1>4, <2>1, KindsKept
<1>5. \A old, kinds : Since(old, kinds) => Since(old, kinds)'
  BY <1>1, <1>2 DEF Since
<1>6. Taken => Taken'
  BY <1>1, <1>2 DEF Taken
<1> QED BY <1>1, <1>2, <1>3, <1>4, <1>5, <1>6

(* The counters, the record and the directory stay in order.               *)
LEMMA OthersTidy ==
  ASSUME FilesInv, NEW p, NEW now, Acted(p, now)
  PROVE  Numbers' /\ Recorded' /\ Directory'
<1>0. /\ Numbers /\ Recorded /\ Directory /\ names \in Nat /\ ids \in Nat /\ moves \in Nat
      /\ names \in Names /\ announced \in 0..Len(undos)
  BY Ints DEF FilesInv, Numbers, Recorded
<1>1. /\ Shape' /\ dir'[Path] = p /\ (\A m \in Names : m # Path => dir'[m] = dir[m])
      /\ Back({Path}) /\ DoneKept /\ (p # None => p.done)
      /\ theirs \in Int /\ theirs < 0 /\ theirs = -moves' /\ Path \in Names
  BY OthersDir
<1>2. /\ moves' = moves + 1 /\ names' = names /\ ids' = ids /\ calls' = calls /\ failing' = failing
      /\ undos' = undos /\ announced' = announced /\ committed' = committed
      /\ phase' = phase /\ acts' = acts /\ crashes' = crashes /\ void' \in BOOLEAN
  BY DEF Acted
<1>3. Numbers'
  <2>1. /\ Older' <=> Older
        /\ Left' <=> Left
    BY <1>2 DEF Older, Left, InHand, Earlier, base, new
  <2> QED BY <1>0, <1>2, <2>1 DEF Numbers
<1>4. Recorded'
  <2>1. ASSUME NEW k \in DOMAIN undos PROVE Fits(undos[k], {Path}) /\ Whole(undos[k])
    <3>1. PICK u : u = undos[k]
      OBVIOUS
    <3>2. UndoOK(u)
      BY <1>0, <3>1 DEF Recorded
    <3>3. Whole(u)
      BY <1>0, <1>1, <3>2, WholeKept
    <3>4. Fits(u, {Path})
      <4> SUFFICES ASSUME u.op \in {"removetree", "restore"}, u.expect # None, p # None, p.id = u.expect
                   PROVE  p.kind \in {"file", "tree"}
        BY <1>1 DEF Fits
      <4>1. u.expect \in Nat /\ Kinds(u.expect, {"file", "tree"})
        BY <1>0, <3>2 DEF UndoOK, IdOps
      <4>2. Kinds(u.expect, {"file", "tree"})'
        BY <4>1, OthersKeep
      <4> QED BY <1>1, <4>2 DEF Kinds
    <3> QED BY <3>1, <3>3, <3>4
  <2>2. \A k \in DOMAIN undos : Fits(undos[k], {Path}) /\ Whole(undos[k])
    BY <2>1
  <2>3. /\ Recorded /\ undos' = undos /\ announced' \in 0..Len(undos) /\ Back({Path})
        /\ names' \in Nat /\ names <= names' /\ ids' \in Nat /\ ids <= ids'
    BY <1>0, <1>1, <1>2
  <2> QED BY <1>0, <2>2, <2>3, RecordedKept
<1>5. NodesOK'
  <2>1. NodesOK
    BY <1>0 DEF Directory, NodesOK
  <2>2. p # None => NodeOK(dir[Path])'
    <3>1. CASE p = None
      BY <3>1
    <3>2. CASE Puts(p, now)
      BY <1>0, <1>1, <1>2, <3>2, FilesAssumption DEF Puts, NodeOK
    <3>3. CASE Fills(p, now)
      <4>1. NodeOK(dir[Path]) /\ dir[Path].id = p.id /\ dir[Path].data = p.data /\ p.kind = "dir"
            /\ p.inside = theirs
        BY <1>0, <1>1, <3>3 DEF Fills, Directory
      <4>2. ~(p.id < 0)
        BY <3>3, <4>1 DEF NodeOK, Fills
      <4> QED BY <1>0, <1>1, <1>2, <4>1, <4>2 DEF NodeOK
    <3> QED BY <3>1, <3>2, <3>3 DEF Acted, Removes
  <2> QED BY <1>0, <1>1, <1>2, <2>1, <2>2, NodesKept
<1>6. \A m \in Names : m > names' => dir'[m] = None
  BY <1>0, <1>1, <1>2, Ints DEF Directory
<1>7. Done(Path)'
  BY <1>1 DEF Done
<1>8. living' \subseteq (-moves')..0
  <2>1. now \subseteq {theirs}
    BY DEF Acted, Removes, Puts, Fills
  <2>2. living' \subseteq living \cup {theirs}
    BY <2>1 DEF Acted
  <2>3. living \subseteq (-moves)..0
    BY <1>0 DEF Directory
  <2> QED BY <1>0, <1>1, <1>2, <2>2, <2>3
<1>9. Directory'
  BY <1>1, <1>5, <1>6, <1>7, <1>8 DEF Directory, NodesOK
<1> QED BY <1>3, <1>4, <1>9

(* Nothing of theirs is held, so what they do now is all there is of them. *)
LEMMA OthersSafe ==
  ASSUME FilesInv, NEW p, NEW now, Acted(p, now), ~void', NEW R \in SUBSET Nat, Safe(R)
  PROVE  Safe(R)'
<1>1. /\ Shape' /\ dir'[Path] = p /\ (\A m \in Names : m # Path => dir'[m] = dir[m])
      /\ theirs \in Int /\ theirs < 0 /\ Path \in Names
  BY OthersDir
<1>2. ~Caught /\ living' = (living \ Data(Path)) \cup now /\ undos' = undos
  BY DEF Acted
<1>3. Expects' = Expects
  BY <1>2 DEF Expects
<1>4. theirs \notin Expects \cup R
  <2>1. \A x \in Expects : x = None \/ x \in Nat
    BY Ints DEF FilesInv, Recorded, UndoOK, Expects
  <2> QED BY <1>1, <2>1, FilesAssumption
<1>5. living \subseteq Int /\ None \notin living
  <2>1. moves \in Nat /\ living \subseteq (-moves)..0
    BY Ints DEF FilesInv, Directory
  <2>2. living \subseteq Int
    BY <2>1
  <2> QED BY <2>2, FilesAssumption
<1>6. ASSUME NEW d \in living' PROVE \E m \in Names : Keeps(m, d, R)'
  <2>1. CASE d \in living \ Data(Path)
    <3>1. PICK m \in Names : Keeps(m, d, R)
      BY <2>1 DEF Safe
    <3>2. m # Path
      BY <1>5, <2>1, <3>1 DEF Keeps, Data
    <3>3. dir'[m] = dir[m]
      BY <1>1, <3>2
    <3>4. Keeps(m, d, R)'
      BY <1>3, <3>1, <3>3 DEF Keeps
    <3> QED BY <3>4
  <2>2. CASE d \in now
    <3>1. d = theirs /\ p # None /\ (\/ p.data = d /\ p.id = theirs
                                     \/ p.inside = d /\ p.kind = "dir")
      BY <2>2 DEF Acted, Removes, Puts, Fills
    <3>2. Keeps(Path, d, R)'
      BY <1>1, <1>3, <1>4, <3>1 DEF Keeps
    <3> QED BY <1>1, <3>2
  <2> QED BY <1>2, <1>6, <2>1, <2>2
<1>7. ASSUME NEW m \in Names, NEW d \in Data(m)', Theirs(d) PROVE d \in living'
  <2>1. CASE m # Path
    <3>1. d \in Data(m) /\ m \in Names \ {Path}
      BY <1>1, <1>7, <2>1 DEF Data
    <3> QED BY <1>2, <1>7, <3>1 DEF Caught
  <2>2. CASE m = Path
    <3>1. p # None /\ d \in {p.data, p.inside} /\ d # None
      BY <1>1, <1>7, <2>2 DEF Data
    <3>2. CASE Puts(p, now)
      BY <1>2, <3>1, <3>2 DEF Puts
    <3>3. CASE Fills(p, now)
      <4>1. ~Theirs(p.data)
        <5>1. p.data > 0 /\ p.data \in Int
          <6>1. dir[Path] # None /\ dir[Path].data > 0 /\ p.data = dir[Path].data
            BY <3>3 DEF Fills
          <6>2. dir[Path].data = None \/ dir[Path].data \in Int
            BY <1>1, <6>1 DEF FilesInv, Directory, Shape, Nodes
          <6>3. p.data # None
            BY <3>3, <6>1 DEF Fills
          <6> QED BY <6>1, <6>2, <6>3
        <5> QED BY <5>1 DEF Theirs
      <4> QED BY <1>2, <1>7, <3>1, <3>3, <4>1 DEF Fills
    <3> QED BY <3>1, <3>2, <3>3 DEF Acted, Removes
  <2> QED BY <2>1, <2>2
<1> QED BY <1>6, <1>7 DEF Safe, Theirs

(* A directory of mix is filled only while the action in hand leaves it.   *)
LEMMA OthersOwn ==
  ASSUME FilesInv, NEW p, NEW now, Acted(p, now), ~Fills(p, now), NEW i \in Nat, OwnClean(i)
  PROVE  OwnClean(i)'
<1>1. dir'[Path] = p /\ Back({Path}) /\ theirs \in Int /\ theirs < 0
  BY OthersDir
<1>2. p # None => p.id = theirs
  BY DEF Acted, Removes, Puts
<1>3. \A m \in {Path} : dir'[m] # None /\ dir'[m].id \in 1..(i - 1) => Clean(m)'
  BY <1>1, <1>2
<1> QED BY <1>1, <1>3, OwnCleanKept

(* Where a lower directory, a file or nothing of mix is, they fill         *)
(* nothing.                                                                *)
LEMMA NotFilled ==
  ASSUME FilesInv, NEW p, NEW now, Acted(p, now),
         \/ Taken
         \/ \E old : Since(old, {"lower"}) \/ Since(old, {"file"})
         \/ dir[Path] # None => dir[Path].kind = "file"
  PROVE  ~Fills(p, now)
<1> SUFFICES ASSUME Fills(p, now) PROVE FALSE
  OBVIOUS
<1>1. dir[Path] # None /\ dir[Path].kind = "dir"
  BY DEF Fills
<1>2. Path \in Names
  BY Ints DEF FilesInv
<1>3. NodeOK(dir[Path])
  BY <1>1, <1>2 DEF FilesInv, Directory
<1>4. ~(dir[Path].id < 0)
  BY <1>1, <1>3 DEF NodeOK
<1> QED BY <1>1, <1>4 DEF Taken, Since

OthersLeave(n, i) ==
    /\ dir'[n] = dir[n] /\ dir'[n + 1] = dir[n + 1] /\ dir'[n + 2] = dir[n + 2] /\ dir'[n + 3] = dir[n + 3]
    /\ \A m \in n..(n + 3) : dir'[m] = dir[m]
    /\ Unused(i) => Unused(i)'
    /\ Unused(i + 1) => Unused(i + 1)'
    /\ \A kinds : Kinds(i, kinds) => Kinds(i, kinds)'
    /\ \A kinds : Kinds(i + 1, kinds) => Kinds(i + 1, kinds)'
    /\ \A old, kinds : Since(old, kinds) => Since(old, kinds)'
    /\ Taken => Taken'
    /\ OlderClean(n) => OlderClean(n)'
    /\ calls' = calls /\ announced' = announced /\ pending' = pending /\ failing' = failing
    /\ undos' = undos
    /\ void' \/ (~void /\ ~Caught)
    /\ void' \/ (Safe(Hand(i)) => Safe(Hand(i))')
    /\ void' \/ (Safe({}) => Safe({})')

(* What they leave to the action in hand.                                  *)
LEMMA OthersHand ==
  ASSUME NEW n, NEW i, InHandOf(n, i), NEW p, NEW now, Acted(p, now)
  PROVE  OthersLeave(n, i)
<1>0. FilesInv
  BY DEF InHandOf
<1>1. \A m \in Names : m # Path => dir'[m] = dir[m]
  BY <1>0, OthersDir
<1>2. /\ n \in Nat /\ n > 0 /\ i \in Nat /\ n \in Names /\ (n + 1) \in Names /\ (n + 2) \in Names
      /\ (n + 3) \in Names /\ Path = 0 /\ \A m \in 1..(n - 1) : m \in Names
  BY Handy
<1>3. dir'[n] = dir[n] /\ dir'[n + 1] = dir[n + 1] /\ dir'[n + 2] = dir[n + 2] /\ dir'[n + 3] = dir[n + 3]
  BY <1>1, <1>2
<1>4. \A m \in n..(n + 3) : dir'[m] = dir[m]
  <2>1. \A m \in n..(n + 3) : m = n \/ m = n + 1 \/ m = n + 2 \/ m = n + 3
    BY <1>2
  <2> QED BY <1>3, <2>1
<1>5. OlderClean(n) => OlderClean(n)'
  <2>1. \A m \in 1..(n - 1) : dir'[m] = dir[m]
    BY <1>1, <1>2
  <2> QED BY <2>1, OlderKept
<1>6. Hand(i) \in SUBSET Nat /\ {} \in SUBSET Nat
  BY <1>2 DEF Hand
<1>7. void' \/ (Safe(Hand(i)) => Safe(Hand(i))')
  BY <1>0, <1>6, OthersSafe
<1>8. void' \/ (Safe({}) => Safe({})')
  BY <1>0, <1>6, OthersSafe
<1>9. i + 1 \in Nat
  BY <1>2
<1>10. /\ Unused(i) => Unused(i)'
       /\ Unused(i + 1) => Unused(i + 1)'
       /\ \A kinds : Kinds(i, kinds) => Kinds(i, kinds)'
       /\ \A kinds : Kinds(i + 1, kinds) => Kinds(i + 1, kinds)'
  BY <1>0, <1>2, <1>9, OthersKeep
<1>11. /\ \A old, kinds : Since(old, kinds) => Since(old, kinds)'
       /\ Taken => Taken'
  BY <1>0, OthersKeep
<1>12. /\ calls' = calls /\ announced' = announced /\ pending' = pending /\ failing' = failing
       /\ undos' = undos /\ (void' \/ (~void /\ ~Caught))
  BY DEF Acted
<1> QED BY <1>3, <1>4, <1>5, <1>7, <1>8, <1>10, <1>11, <1>12 DEF OthersLeave

(* Its free names stay free.                                               *)
LEMMA EmptyKept ==
  ASSUME NEW n \in Nat, \A m \in n..(n + 3) : dir'[m] = dir[m]
  PROVE  /\ Empty(n..(n + 3)) => Empty(n..(n + 3))'
         /\ Empty((n + 1)..(n + 3)) => Empty((n + 1)..(n + 3))'
         /\ Empty((n + 2)..(n + 3)) => Empty((n + 2)..(n + 3))'
  BY DEF Empty

(* A node nobody else made is clean only if it is not theirs.              *)
LEMMA NotTheirs ==
  ASSUME FilesInv, ~Caught, NEW m \in Names, m # Path, dir[m] # None
  PROVE  ~(dir[m].id < 0)
<1> SUFFICES ASSUME dir[m].id < 0 PROVE FALSE
  OBVIOUS
<1>1. dir[m].data = dir[m].id /\ dir[m].id \in Int
  BY Ints DEF FilesInv, Directory, NodeOK, Shape, Nodes
<1>2. dir[m].id \in Data(m)
  BY <1>1, FilesAssumption DEF Data
<1> QED BY <1>2 DEF Caught, Theirs

(* The stages of the actions, after what the others did.                   *)

(* One lemma for each action.                                              *)
LEMMA OthersCreating ==
  ASSUME NEW n, NEW i, InHandOf(n, i), NEW p, NEW now, Acted(p, now), NEW kind, NEW k \in 1..7,
         Creating(n, i, kind, k)
  PROVE  (Creating(n, i, kind, k))'
<1>0. FilesInv /\ n \in Nat /\ n > 0 /\ i \in Nat /\ n \in Names /\ (n + 1) \in Names /\ n # Path
      /\ n + 1 # Path
  BY Handy DEF InHandOf
<1>1. OthersLeave(n, i)
  BY OthersHand
<1>2. /\ Empty(n..(n + 3)) => Empty(n..(n + 3))'
      /\ Empty((n + 1)..(n + 3)) => Empty((n + 1)..(n + 3))'
      /\ Empty((n + 2)..(n + 3)) => Empty((n + 2)..(n + 3))'
  BY <1>0, <1>1, EmptyKept DEF OthersLeave
<1>3. calls' = calls /\ announced' = announced /\ pending' = pending /\ dir'[n] = dir[n] /\ undos' = undos
  BY <1>1 DEF OthersLeave
<1>4. void' \/ (~void /\ ~Caught)
  BY <1>1 DEF OthersLeave
<1>5. /\ OlderClean(n) => OlderClean(n)'
      /\ void' \/ (Safe(Hand(i)) => Safe(Hand(i))')
      /\ void' \/ (Safe({}) => Safe({})')
  BY <1>1 DEF OthersLeave
<1>6. In(create(kind, n, i), k)'
  BY <1>3 DEF Creating, In
<1>7. /\ Unused(i) => Unused(i)'
      /\ \A kinds : Kinds(i, kinds) => Kinds(i, kinds)'
  BY <1>1 DEF OthersLeave
<1>8. void' \/ (Safe(Hand(i))' /\ OlderClean(n)')
  BY <1>4, <1>5 DEF Creating
<1> QED BY <1>2, <1>3, <1>6, <1>7, <1>8 DEF Creating, Is

LEMMA OthersPutting ==
  ASSUME NEW n, NEW i, InHandOf(n, i), NEW p, NEW now, Acted(p, now), NEW old \in 1..(i - 1),
         NEW k \in 1..9,
         Putting(n, i, old, k)
  PROVE  (Putting(n, i, old, k))'
<1>0. FilesInv /\ n \in Nat /\ n > 0 /\ i \in Nat /\ n \in Names /\ (n + 1) \in Names /\ n # Path
      /\ n + 1 # Path
  BY Handy DEF InHandOf
<1>1. OthersLeave(n, i)
  BY OthersHand
<1>2. /\ Empty(n..(n + 3)) => Empty(n..(n + 3))'
      /\ Empty((n + 1)..(n + 3)) => Empty((n + 1)..(n + 3))'
      /\ Empty((n + 2)..(n + 3)) => Empty((n + 2)..(n + 3))'
  BY <1>0, <1>1, EmptyKept DEF OthersLeave
<1>3. calls' = calls /\ announced' = announced /\ pending' = pending /\ dir'[n] = dir[n] /\ undos' = undos
  BY <1>1 DEF OthersLeave
<1>4. void' \/ (~void /\ ~Caught)
  BY <1>1 DEF OthersLeave
<1>5. /\ OlderClean(n) => OlderClean(n)'
      /\ void' \/ (Safe(Hand(i)) => Safe(Hand(i))')
      /\ void' \/ (Safe({}) => Safe({})')
  BY <1>1 DEF OthersLeave
<1>6. In(put_file(n, i, old), k)'
  BY <1>3 DEF Putting, In
<1>7. /\ Unused(i) => Unused(i)'
      /\ \A kinds : Kinds(i, kinds) => Kinds(i, kinds)'
      /\ Since(old, {"file"}) => Since(old, {"file"})'
  BY <1>1 DEF OthersLeave
<1>8. (dir[Path] # None => dir[Path].kind = "file") => (dir'[Path] # None => dir'[Path].kind = "file")
  BY <1>0, OthersKeep
<1>9. CaughtOr(n, old) => CaughtOr(n, old)'
  BY <1>3 DEF CaughtOr
<1>10. Clean(n) => Clean(n)'
  BY <1>3, CleanKept
<1>11. void' \/ (k <= 6 => OwnClean(i)')
  <2> SUFFICES ASSUME ~void', k <= 6 PROVE OwnClean(i)'
    OBVIOUS
  <2>1. Since(old, {"file"}) \/ (dir[Path] # None => dir[Path].kind = "file")
    BY DEF Putting
  <2>2. ~Fills(p, now)
    BY <1>0, <2>1, NotFilled
  <2>3. OwnClean(i)
    BY <1>4 DEF Putting
  <2> QED BY <1>0, <2>2, <2>3, OthersOwn
<1>12. void' \/ (k = 6 => Is(n, old)')
  <2> SUFFICES ASSUME ~void', k = 6 PROVE Is(n, old)'
    OBVIOUS
  <2>1. CaughtOr(n, old) /\ ~Caught
    BY <1>4 DEF Putting
  <2>2. dir[n] # None /\ ~(dir[n].id < 0)
    BY <1>0, <2>1, NotTheirs DEF CaughtOr
  <2> QED BY <1>3, <2>1, <2>2 DEF CaughtOr, Is
<1>13. \/ void'
       \/ /\ Safe(Hand(i))' /\ OlderClean(n)'
          /\ k <= 6 => OwnClean(i)'
          /\ k = 6 => Is(n, old)' \/ Is(Path, i)'
          /\ k >= 7 => Clean(n)'
  BY <1>4, <1>5, <1>10, <1>11, <1>12 DEF Putting
<1> QED BY <1>2, <1>3, <1>6, <1>7, <1>8, <1>9, <1>13 DEF Putting, Is

LEMMA OthersAside ==
  ASSUME NEW n, NEW i, InHandOf(n, i), NEW p, NEW now, Acted(p, now), NEW old \in 1..(i - 1),
         NEW k \in 1..7,
         Aside(n, i, old, k)
  PROVE  (Aside(n, i, old, k))'
<1>0. FilesInv /\ n \in Nat /\ n > 0 /\ i \in Nat /\ n \in Names /\ (n + 1) \in Names /\ n # Path
      /\ n + 1 # Path
  BY Handy DEF InHandOf
<1>1. OthersLeave(n, i)
  BY OthersHand
<1>2. /\ Empty(n..(n + 3)) => Empty(n..(n + 3))'
      /\ Empty((n + 1)..(n + 3)) => Empty((n + 1)..(n + 3))'
      /\ Empty((n + 2)..(n + 3)) => Empty((n + 2)..(n + 3))'
  BY <1>0, <1>1, EmptyKept DEF OthersLeave
<1>3. calls' = calls /\ announced' = announced /\ pending' = pending /\ dir'[n] = dir[n] /\ undos' = undos
  BY <1>1 DEF OthersLeave
<1>4. void' \/ (~void /\ ~Caught)
  BY <1>1 DEF OthersLeave
<1>5. /\ OlderClean(n) => OlderClean(n)'
      /\ void' \/ (Safe(Hand(i)) => Safe(Hand(i))')
      /\ void' \/ (Safe({}) => Safe({})')
  BY <1>1 DEF OthersLeave
<1>6. In(set_aside(n, i, old), k)'
  BY <1>3 DEF Aside, In
<1>7. /\ Unused(i) => Unused(i)'
      /\ Taken => Taken'
      /\ Since(old, AllKinds) => Since(old, AllKinds)'
  BY <1>1 DEF OthersLeave
<1>8. CaughtOr(n, old) => CaughtOr(n, old)'
  BY <1>3 DEF CaughtOr
<1>9. Clean(n) => Clean(n)'
  BY <1>3, CleanKept
<1>10. void' \/ (k <= 4 => OwnClean(i)')
  <2> SUFFICES ASSUME ~void', k <= 4 PROVE OwnClean(i)'
    OBVIOUS
  <2>1. ~Fills(p, now)
    <3>1. CASE k = 4
      <4>1. Taken
        BY <3>1 DEF Aside
      <4> QED BY <1>0, <4>1, NotFilled
    <3>2. CASE k <= 3
      <4>1. PICK s, t : s = set_aside(n, i, old) /\ t = set_aside_by_copy(n + 1, n + 2, i, old)
        OBVIOUS
      <4>2. IsList(s) /\ Len(s) = 7 /\ s[3] = Call("away", n, t, <<>>)
        BY <4>1, List7 DEF set_aside
      <4>3. In(s, k) /\ 3 \in k..Len(s)
        BY <3>2, <4>1, <4>2 DEF Aside
      <4>4. \E l \in DOMAIN calls : calls[l] = s[3]
        BY <4>2, <4>3, AheadIs
      <4>5. GoesWhole
        BY <4>2, <4>4 DEF GoesWhole, Call
      <4> QED BY <4>5 DEF Fills
    <3> QED BY <3>1, <3>2
  <2>2. OwnClean(i)
    BY <1>4 DEF Aside
  <2> QED BY <1>0, <2>1, <2>2, OthersOwn
<1>11. \/ void'
       \/ /\ Safe(Hand(i))' /\ OlderClean(n)'
          /\ k <= 4 => OwnClean(i)'
          /\ k >= 5 => Clean(n)'
  BY <1>4, <1>5, <1>9, <1>10 DEF Aside
<1> QED BY <1>2, <1>3, <1>6, <1>7, <1>8, <1>11 DEF Aside

LEMMA OthersReclaiming ==
  ASSUME NEW n, NEW i, InHandOf(n, i), NEW p, NEW now, Acted(p, now), NEW old \in 1..(i - 1),
         NEW k \in 1..9,
         Reclaiming(n, i, old, k)
  PROVE  (Reclaiming(n, i, old, k))'
<1>0. FilesInv /\ n \in Nat /\ n > 0 /\ i \in Nat /\ n \in Names /\ (n + 1) \in Names /\ n # Path
      /\ n + 1 # Path
  BY Handy DEF InHandOf
<1>1. OthersLeave(n, i)
  BY OthersHand
<1>2. /\ Empty(n..(n + 3)) => Empty(n..(n + 3))'
      /\ Empty((n + 1)..(n + 3)) => Empty((n + 1)..(n + 3))'
      /\ Empty((n + 2)..(n + 3)) => Empty((n + 2)..(n + 3))'
  BY <1>0, <1>1, EmptyKept DEF OthersLeave
<1>3. calls' = calls /\ announced' = announced /\ pending' = pending /\ dir'[n] = dir[n] /\ undos' = undos
  BY <1>1 DEF OthersLeave
<1>4. void' \/ (~void /\ ~Caught)
  BY <1>1 DEF OthersLeave
<1>5. /\ OlderClean(n) => OlderClean(n)'
      /\ void' \/ (Safe(Hand(i)) => Safe(Hand(i))')
      /\ void' \/ (Safe({}) => Safe({})')
  BY <1>1 DEF OthersLeave
<1>6. In(reclaim(n, n + 1, i, old), k)' /\ dir'[n + 1] = dir[n + 1]
  <2>1. dir'[n + 1] = dir[n + 1]
    BY <1>1 DEF OthersLeave
  <2> QED BY <1>3, <2>1 DEF Reclaiming, In
<1>7. /\ Unused(i) => Unused(i)'
      /\ Unused(i + 1) => Unused(i + 1)'
      /\ \A kinds : Kinds(i, kinds) => Kinds(i, kinds)'
      /\ Taken => Taken'
      /\ Since(old, AllKinds) => Since(old, AllKinds)'
  BY <1>1 DEF OthersLeave
<1>8. CaughtOr(n + 1, old) => CaughtOr(n + 1, old)'
  BY <1>6 DEF CaughtOr
<1>9. Clean(n + 1) => Clean(n + 1)'
  BY <1>6, CleanKept
<1>10. void' \/ (k <= 5 => OwnClean(i)')
  <2> SUFFICES ASSUME ~void', k <= 5 PROVE OwnClean(i)'
    OBVIOUS
  <2>1. ~Fills(p, now)
    <3>1. CASE k = 5
      <4>1. Taken
        BY <3>1 DEF Reclaiming
      <4> QED BY <1>0, <4>1, NotFilled
    <3>2. CASE k <= 4
      <4>1. PICK s, t : s = reclaim(n, n + 1, i, old) /\ t = reclaim_by_copy(n, n + 2, n + 3, i + 1, old)
        OBVIOUS
      <4>2. IsList(s) /\ Len(s) = 9 /\ s[4] = Call("away", n + 1, t, <<Clear(n)>>)
        BY <1>0, <4>1, List9 DEF reclaim
      <4>3. In(s, k) /\ 4 \in k..Len(s)
        BY <3>2, <4>1, <4>2 DEF Reclaiming
      <4>4. \E l \in DOMAIN calls : calls[l] = s[4]
        BY <4>2, <4>3, AheadIs
      <4>5. GoesWhole
        BY <4>2, <4>4 DEF GoesWhole, Call
      <4> QED BY <4>5 DEF Fills
    <3> QED BY <3>1, <3>2
  <2>2. OwnClean(i)
    BY <1>4 DEF Reclaiming
  <2> QED BY <1>0, <2>1, <2>2, OthersOwn
<1>11. \/ void'
       \/ /\ Safe(Hand(i))' /\ OlderClean(n)'
          /\ k <= 5 => OwnClean(i)'
          /\ k >= 6 => Clean(n + 1)'
  BY <1>4, <1>5, <1>9, <1>10 DEF Reclaiming
<1>12. k \in 3..6 => (Is(n, i) /\ dir[n].done)'
  BY <1>3 DEF Reclaiming, Is
<1> QED BY <1>2, <1>3, <1>6, <1>7, <1>8, <1>11, <1>12 DEF Reclaiming

LEMMA OthersByCopy ==
  ASSUME NEW n, NEW i, InHandOf(n, i), NEW p, NEW now, Acted(p, now),
         NEW staged \in n..(n + 3), NEW to \in n..(n + 3), NEW x \in Hand(i), NEW old \in 1..(i - 1),
         NEW j \in 0..12,
         ByCopy(n, i, staged, to, x, old, j)
  PROVE  (ByCopy(n, i, staged, to, x, old, j))'
<1>0. FilesInv /\ n \in Nat /\ n > 0 /\ i \in Nat /\ n \in Names /\ (n + 1) \in Names /\ n # Path
      /\ n + 1 # Path
  BY Handy DEF InHandOf
<1>1. OthersLeave(n, i)
  BY OthersHand
<1>2. /\ Empty(n..(n + 3)) => Empty(n..(n + 3))'
      /\ Empty((n + 1)..(n + 3)) => Empty((n + 1)..(n + 3))'
      /\ Empty((n + 2)..(n + 3)) => Empty((n + 2)..(n + 3))'
  BY <1>0, <1>1, EmptyKept DEF OthersLeave
<1>3. calls' = calls /\ announced' = announced /\ pending' = pending /\ dir'[n] = dir[n] /\ undos' = undos
  BY <1>1 DEF OthersLeave
<1>4. void' \/ (~void /\ ~Caught)
  BY <1>1 DEF OthersLeave
<1>5. /\ OlderClean(n) => OlderClean(n)'
      /\ void' \/ (Safe(Hand(i)) => Safe(Hand(i))')
      /\ void' \/ (Safe({}) => Safe({})')
  BY <1>1 DEF OthersLeave
<1>6. dir'[staged] = dir[staged] /\ dir'[to] = dir[to]
  BY <1>1 DEF OthersLeave
<1>7. /\ Unused(x) => Unused(x)'
      /\ Kinds(x, {"tree"}) => Kinds(x, {"tree"})'
      /\ Since(old, {"lower"}) => Since(old, {"lower"})'
  <2>1. x = i \/ x = i + 1
    BY DEF Hand
  <2> QED BY <1>1, <2>1 DEF OthersLeave
<1>8. x \notin Expects => x \notin Expects'
  BY <1>3 DEF Expects
<1>9. (Clean(staged) => Clean(staged)') /\ (Clean(to) => Clean(to)')
  BY <1>6, CleanKept
<1>10. j <= 7 => ~Fills(p, now)
  <2>1. CASE j <= 6
    <3>1. Since(old, {"lower"})
      BY <2>1 DEF ByCopy
    <3> QED BY <1>0, <3>1, NotFilled
  <2>2. CASE j = 7
    <3> SUFFICES ASSUME Fills(p, now) PROVE FALSE
      OBVIOUS
    <3>1. /\ dir[Path] # None /\ dir[Path].data # None /\ (dir[Path].id < 0 \/ Data(Path) = {})
      BY <2>2 DEF ByCopy, Fills
    <3>2. Data(Path) # {}
      BY <3>1 DEF Data
    <3>3. Taken
      BY <3>1, <3>2 DEF Taken
    <3> QED BY <1>0, <3>3, NotFilled
  <2> QED BY <2>1, <2>2
<1>11. dir'[Path] = p /\ theirs \in Int /\ theirs < 0
  BY <1>0, OthersDir
<1>12. j <= 7 => (p # None => p.id < 0)
  BY <1>10, <1>11 DEF Acted, Removes, Puts
<1>13. j <= 7 => ~Is(Path, old)'
  BY <1>11, <1>12 DEF Is
<1>14. j = 7 => (dir'[Path] # None => dir'[Path].id < 0)
  BY <1>11, <1>12
<1>15. void' \/ (j <= 1 => OwnClean(i)')
  <2> SUFFICES ASSUME ~void', j <= 1 PROVE OwnClean(i)'
    OBVIOUS
  <2>1. OwnClean(i)
    BY <1>4 DEF ByCopy
  <2> QED BY <1>0, <1>10, <2>1, OthersOwn
<1>16. void' \/ (Safe(IF j <= 5 THEN Hand(i) ELSE {})' /\ OlderClean(n)')
  <2>1. void' \/ (OlderClean(n) /\ Safe(IF j <= 5 THEN Hand(i) ELSE {}))
    BY <1>4 DEF ByCopy
  <2>2. CASE j <= 5
    BY <1>5, <2>1, <2>2
  <2>3. CASE ~(j <= 5)
    BY <1>5, <2>1, <2>3
  <2> QED BY <2>2, <2>3
<1>17. \/ void'
       \/ /\ Safe(IF j <= 5 THEN Hand(i) ELSE {})' /\ OlderClean(n)'
          /\ j <= 1 => OwnClean(i)'
          /\ j >= 7 => Clean(to)'
  <2>1. void' \/ (j >= 7 => Clean(to))
    BY <1>4 DEF ByCopy
  <2> QED BY <1>9, <1>15, <1>16, <2>1
<1>18. /\ j <= 1 => Unused(x)' /\ dir'[staged] = None /\ dir'[to] = None
       /\ j >= 2 => Kinds(x, {"tree"})'
       /\ j \in 2..3 => (Is(staged, x) /\ dir[staged].done /\ dir[to] = None)'
       /\ j >= 4 => dir'[staged] = None
       /\ j \in 4..9 => (Is(to, x) /\ dir[to].done)'
       /\ j <= 6 => Since(old, {"lower"})'
       /\ j >= 6 => x \notin Expects'
  BY <1>6, <1>7, <1>8 DEF ByCopy, Is
<1>19. j \in 2..6 => j <= 7
  OBVIOUS
<1> QED BY <1>13, <1>14, <1>17, <1>18, <1>19 DEF ByCopy

LEMMA OthersAsideByCopy ==
  ASSUME NEW n, NEW i, InHandOf(n, i), NEW p, NEW now, Acted(p, now), NEW old \in 1..(i - 1),
         NEW k \in 1..10,
         AsideByCopy(n, i, old, k)
  PROVE  (AsideByCopy(n, i, old, k))'
<1>0. FilesInv /\ n \in Nat /\ n > 0 /\ i \in Nat /\ n \in Names /\ (n + 1) \in Names /\ n # Path
      /\ n + 1 # Path
  BY Handy DEF InHandOf
<1>1. OthersLeave(n, i)
  BY OthersHand
<1>2. /\ Empty(n..(n + 3)) => Empty(n..(n + 3))'
      /\ Empty((n + 1)..(n + 3)) => Empty((n + 1)..(n + 3))'
      /\ Empty((n + 2)..(n + 3)) => Empty((n + 2)..(n + 3))'
  BY <1>0, <1>1, EmptyKept DEF OthersLeave
<1>3. calls' = calls /\ announced' = announced /\ pending' = pending /\ dir'[n] = dir[n] /\ undos' = undos
  BY <1>1 DEF OthersLeave
<1>4. void' \/ (~void /\ ~Caught)
  BY <1>1 DEF OthersLeave
<1>5. /\ OlderClean(n) => OlderClean(n)'
      /\ void' \/ (Safe(Hand(i)) => Safe(Hand(i))')
      /\ void' \/ (Safe({}) => Safe({})')
  BY <1>1 DEF OthersLeave
<1>6. In(set_aside_by_copy(n + 1, n + 2, i, old), k)'
  BY <1>3 DEF AsideByCopy, In
<1>7. /\ dir'[n + 3] = dir[n + 3] /\ dir'[n + 2] = dir[n + 2]
  BY <1>1 DEF OthersLeave
<1>8. ByCopy(n, i, n + 1, n + 2, i, old, k)'
  <2>1. n + 1 \in n..(n + 3) /\ n + 2 \in n..(n + 3) /\ i \in Hand(i) /\ k \in 0..12
    BY <1>0 DEF Hand
  <2>2. ByCopy(n, i, n + 1, n + 2, i, old, k)
    BY DEF AsideByCopy
  <2> QED BY <2>1, <2>2, OthersByCopy
<1>9. k = 10 => (Is(n + 2, i) /\ dir[n + 2].done)'
  BY <1>7 DEF AsideByCopy, Is
<1> QED BY <1>3, <1>6, <1>7, <1>8, <1>9 DEF AsideByCopy

LEMMA OthersReclaimByCopy ==
  ASSUME NEW n, NEW i, InHandOf(n, i), NEW p, NEW now, Acted(p, now), NEW old \in 1..(i - 1),
         NEW k \in 1..13,
         ReclaimByCopy(n, i, old, k)
  PROVE  (ReclaimByCopy(n, i, old, k))'
<1>0. FilesInv /\ n \in Nat /\ n > 0 /\ i \in Nat /\ n \in Names /\ (n + 1) \in Names /\ n # Path
      /\ n + 1 # Path
  BY Handy DEF InHandOf
<1>1. OthersLeave(n, i)
  BY OthersHand
<1>2. /\ Empty(n..(n + 3)) => Empty(n..(n + 3))'
      /\ Empty((n + 1)..(n + 3)) => Empty((n + 1)..(n + 3))'
      /\ Empty((n + 2)..(n + 3)) => Empty((n + 2)..(n + 3))'
  BY <1>0, <1>1, EmptyKept DEF OthersLeave
<1>3. calls' = calls /\ announced' = announced /\ pending' = pending /\ dir'[n] = dir[n] /\ undos' = undos
  BY <1>1 DEF OthersLeave
<1>4. void' \/ (~void /\ ~Caught)
  BY <1>1 DEF OthersLeave
<1>5. /\ OlderClean(n) => OlderClean(n)'
      /\ void' \/ (Safe(Hand(i)) => Safe(Hand(i))')
      /\ void' \/ (Safe({}) => Safe({})')
  BY <1>1 DEF OthersLeave
<1>6. In(reclaim_by_copy(n, n + 2, n + 3, i + 1, old), k)'
  BY <1>3 DEF ReclaimByCopy, In
<1>7. /\ dir'[n + 3] = dir[n + 3] /\ dir'[n + 1] = dir[n + 1]
  BY <1>1 DEF OthersLeave
<1>8. ByCopy(n, i, n + 2, n + 3, i + 1, old, k - 1)'
  <2>1. n + 2 \in n..(n + 3) /\ n + 3 \in n..(n + 3) /\ i + 1 \in Hand(i) /\ k - 1 \in 0..12
    BY <1>0 DEF Hand
  <2>2. ByCopy(n, i, n + 2, n + 3, i + 1, old, k - 1)
    BY DEF ReclaimByCopy
  <2> QED BY <2>1, <2>2, OthersByCopy
<1>9. k = 1 => (Is(n, i) /\ dir[n].kind = "tree")'
  BY <1>3 DEF ReclaimByCopy, Is
<1> QED BY <1>3, <1>6, <1>7, <1>8, <1>9 DEF ReclaimByCopy

LEMMA OthersLooking ==
  ASSUME NEW n, NEW i, InHandOf(n, i), NEW p, NEW now, Acted(p, now), NEW old, NEW k \in 1..2,
         Looking(n, i, old, k)
  PROVE  (Looking(n, i, old, k))'
<1>0. FilesInv /\ n \in Nat /\ n > 0 /\ i \in Nat /\ n \in Names /\ (n + 1) \in Names /\ n # Path
      /\ n + 1 # Path
  BY Handy DEF InHandOf
<1>1. OthersLeave(n, i)
  BY OthersHand
<1>2. /\ Empty(n..(n + 3)) => Empty(n..(n + 3))'
      /\ Empty((n + 1)..(n + 3)) => Empty((n + 1)..(n + 3))'
      /\ Empty((n + 2)..(n + 3)) => Empty((n + 2)..(n + 3))'
  BY <1>0, <1>1, EmptyKept DEF OthersLeave
<1>3. calls' = calls /\ announced' = announced /\ pending' = pending /\ dir'[n] = dir[n] /\ undos' = undos
  BY <1>1 DEF OthersLeave
<1>4. void' \/ (~void /\ ~Caught)
  BY <1>1 DEF OthersLeave
<1>5. /\ OlderClean(n) => OlderClean(n)'
      /\ void' \/ (Safe(Hand(i)) => Safe(Hand(i))')
      /\ void' \/ (Safe({}) => Safe({})')
  BY <1>1 DEF OthersLeave
<1>6. In(<<pin(old), set_mode(1, 2)>>, k)'
  BY <1>3 DEF Looking, In
<1>7. void' \/ (Safe(Hand(i))' /\ OlderClean(n)')
  BY <1>4, <1>5 DEF Looking
<1> QED BY <1>2, <1>3, <1>6, <1>7 DEF Looking

LEMMA OthersChanging ==
  ASSUME NEW n, NEW i, InHandOf(n, i), NEW p, NEW now, Acted(p, now), NEW x, NEW k \in 1..3,
         Changing(n, i, x, k)
  PROVE  (Changing(n, i, x, k))'
<1>0. FilesInv /\ n \in Nat /\ n > 0 /\ i \in Nat /\ n \in Names /\ (n + 1) \in Names /\ n # Path
      /\ n + 1 # Path
  BY Handy DEF InHandOf
<1>1. OthersLeave(n, i)
  BY OthersHand
<1>2. /\ Empty(n..(n + 3)) => Empty(n..(n + 3))'
      /\ Empty((n + 1)..(n + 3)) => Empty((n + 1)..(n + 3))'
      /\ Empty((n + 2)..(n + 3)) => Empty((n + 2)..(n + 3))'
  BY <1>0, <1>1, EmptyKept DEF OthersLeave
<1>3. calls' = calls /\ announced' = announced /\ pending' = pending /\ dir'[n] = dir[n] /\ undos' = undos
  BY <1>1 DEF OthersLeave
<1>4. void' \/ (~void /\ ~Caught)
  BY <1>1 DEF OthersLeave
<1>5. /\ OlderClean(n) => OlderClean(n)'
      /\ void' \/ (Safe(Hand(i)) => Safe(Hand(i))')
      /\ void' \/ (Safe({}) => Safe({})')
  BY <1>1 DEF OthersLeave
<1>6. In(change(x, 1, 2), k)'
  BY <1>3 DEF Changing, In
<1>7. void' \/ (Safe(Hand(i))' /\ OlderClean(n)')
  BY <1>4, <1>5 DEF Changing
<1> QED BY <1>2, <1>3, <1>6, <1>7 DEF Changing

(* What the commit will delete at the path is not of others.               *)
LEMMA OthersSpared ==
  ASSUME FilesInv, NEW p, NEW now, Acted(p, now), GivenUp, ~void'
  PROVE  Spared'
<1>1. dir'[Path] = p
  BY OthersDir
<1>2. p = None \/ p.owner # "mix"
  BY DEF Acted, Removes, Puts, Fills
<1> QED BY <1>1, <1>2 DEF Spared

LEMMA OthersDiscarding ==
  ASSUME NEW n, NEW i, InHandOf(n, i), NEW p, NEW now, Acted(p, now), NEW old, NEW k \in 1..4,
         Discarding(n, i, old, k)
  PROVE  (Discarding(n, i, old, k))'
<1>0. FilesInv /\ n \in Nat /\ n > 0 /\ i \in Nat /\ n \in Names /\ (n + 1) \in Names /\ n # Path
      /\ n + 1 # Path
  BY Handy DEF InHandOf
<1>1. OthersLeave(n, i)
  BY OthersHand
<1>2. /\ Empty(n..(n + 3)) => Empty(n..(n + 3))'
      /\ Empty((n + 1)..(n + 3)) => Empty((n + 1)..(n + 3))'
      /\ Empty((n + 2)..(n + 3)) => Empty((n + 2)..(n + 3))'
  BY <1>0, <1>1, EmptyKept DEF OthersLeave
<1>3. calls' = calls /\ announced' = announced /\ pending' = pending /\ dir'[n] = dir[n] /\ undos' = undos
  BY <1>1 DEF OthersLeave
<1>4. void' \/ (~void /\ ~Caught)
  BY <1>1 DEF OthersLeave
<1>5. /\ OlderClean(n) => OlderClean(n)'
      /\ void' \/ (Safe(Hand(i)) => Safe(Hand(i))')
      /\ void' \/ (Safe({}) => Safe({})')
  BY <1>1 DEF OthersLeave
<1>6. In(discard(old), k)'
  BY <1>3 DEF Discarding, In
<1>7. GivenUp
  <2>1. CASE k = 4
    BY <2>1 DEF Discarding, GivenUp
  <2>2. CASE k <= 3
    <3>1. PICK s : s = discard(old)
      OBVIOUS
    <3>2. IsList(s) /\ Len(s) = 4 /\ s[3] = Pend(Path)
      BY <3>1, List4 DEF discard
    <3>3. In(s, k) /\ 3 \in k..Len(s)
      BY <2>2, <3>1, <3>2 DEF Discarding
    <3>4. \E l \in DOMAIN calls : calls[l] = s[3]
      BY <3>2, <3>3, AheadIs
    <3> QED BY <3>2, <3>4 DEF GivenUp
  <2> QED BY <2>1, <2>2
<1>8. void' \/ (Safe(Hand(i))' /\ OlderClean(n)' /\ Spared')
  <2>1. void' \/ Spared'
    BY <1>0, <1>7, OthersSpared
  <2> QED BY <1>4, <1>5, <2>1 DEF Discarding
<1> QED BY <1>2, <1>3, <1>6, <1>8 DEF Discarding

(* So an action stays at its stage, whatever it is.                        *)
LEMMA OthersActing ==
  ASSUME NEW n, NEW i, InHandOf(n, i), NEW p, NEW now, Acted(p, now), Acting(n, i)
  PROVE  Acting(n, i)'
<1>1. (failing' <=> failing) /\ pending' = pending
  BY DEF Acted
<1>2. ASSUME NEW kind \in {"file", "dir", "tree"}, NEW k \in 1..7, Creating(n, i, kind, k)
      PROVE  (Creating(n, i, kind, k))'
  BY <1>2, OthersCreating
<1>3. ASSUME NEW old \in 1..(i - 1)
      PROVE  /\ \A k \in 1..9 : Putting(n, i, old, k) => (Putting(n, i, old, k))'
             /\ \A k \in 1..7 : Aside(n, i, old, k) => (Aside(n, i, old, k))'
             /\ \A k \in 1..10 : AsideByCopy(n, i, old, k) => (AsideByCopy(n, i, old, k))'
             /\ \A k \in 1..9 : Reclaiming(n, i, old, k) => (Reclaiming(n, i, old, k))'
             /\ \A k \in 1..13 : ReclaimByCopy(n, i, old, k) => (ReclaimByCopy(n, i, old, k))'
  BY OthersPutting, OthersAside, OthersAsideByCopy, OthersReclaiming, OthersReclaimByCopy
<1>4. \A old \in Int, k \in 1..2 : Looking(n, i, old, k) => (Looking(n, i, old, k))'
  BY OthersLooking
<1>5. \A x \in Int, k \in 1..3 : Changing(n, i, x, k) => (Changing(n, i, x, k))'
  BY OthersChanging
<1>6. \A old \in Int, k \in 1..4 : Discarding(n, i, old, k) => (Discarding(n, i, old, k))'
  BY OthersDiscarding
<1> QED BY <1>1, <1>2, <1>3, <1>4, <1>5, <1>6 DEF Acting

(* So does an action that cleans up.                                       *)
LEMMA OthersFailing ==
  ASSUME NEW n, NEW i, InHandOf(n, i), NEW p, NEW now, Acted(p, now), Failing(n, i)
  PROVE  Failing(n, i)'
<1>0. FilesInv /\ n \in Nat /\ n > 0 /\ i \in Nat /\ n \in Names /\ (n + 1) \in Names /\ n # Path
  BY Handy DEF InHandOf
<1>1. OthersLeave(n, i)
  BY OthersHand
<1>2. /\ \A m \in n..(n + 3) : dir'[m] = dir[m]
      /\ dir'[n] = dir[n] /\ dir'[n + 1] = dir[n + 1]
      /\ calls' = calls /\ pending' = pending /\ (failing' <=> failing) /\ (void' \/ (~void /\ ~Caught))
      /\ void' \/ (Safe(Hand(i)) => Safe(Hand(i))')
  BY <1>1 DEF OthersLeave
<1>3. failing' /\ Path \notin pending' /\ (void' \/ Safe(Hand(i))')
  BY <1>2 DEF Failing
<1>4. \A m \in n..(n + 3) : /\ Unlinking(n, i, m) => (Unlinking(n, i, m))'
                            /\ Clearing(n, i, m) => (Clearing(n, i, m))'
  BY <1>2 DEF Unlinking, Clearing
<1>5. ExchangingBack(n, i) => ExchangingBack(n, i)'
  <2> SUFFICES ASSUME ExchangingBack(n, i) PROVE ExchangingBack(n, i)'
    OBVIOUS
  <2>1. void'
    BY <1>0, <1>2, NotTheirs DEF ExchangingBack
  <2> QED BY <1>2, <2>1 DEF ExchangingBack
<1>6. LinkingBack(n, i) => LinkingBack(n, i)'
  BY <1>2 DEF LinkingBack, Done
<1>7. LinkingAsideBack(n, i) => LinkingAsideBack(n, i)'
  BY <1>2 DEF LinkingAsideBack, Done
<1> QED BY <1>3, <1>4, <1>5, <1>6, <1>7 DEF Failing

(* So does an undo.                                                        *)
LEMMA OthersUndoes ==
  ASSUME FilesInv, phase = "undoing", calls # <<>>, NEW p, NEW now, Acted(p, now), Undoes
  PROVE  Undoes'
<1>0. undos # <<>>
  BY DEF Undoes
<1>1. /\ calls' = calls /\ undos' = undos /\ undo' = undo /\ names' = names /\ (failing' <=> failing)
  BY DEF Acted, undo
<1>2. names \in Names /\ Path = 0 /\ names # Path
  BY <1>0, UndoHandy DEF Numbers, Left
<1>3. dir'[names] = dir[names]
  BY <1>2, OthersDir
<1>4. undo.op = "restore" => dir'[undo.from] = dir[undo.from]
  BY <1>0, UndoHandy, OthersDir
<1>5. \A s, k : In(s, k)' <=> In(s, k)
  BY <1>1 DEF In
<1>6. \A k \in 1..5 : /\ Removing(k) => Removing(k)'
                      /\ RemovingTree(k) => RemovingTree(k)'
  BY <1>1, <1>3 DEF Removing, RemovingTree, In, Done, Is
<1>7. \A k \in 1..4 : Restoring(k) => Restoring(k)'
  BY <1>1 DEF Restoring, In
<1>8. \A k \in 1..6 : RestoringOver(k) => RestoringOver(k)'
  BY <1>1, <1>4 DEF RestoringOver, In, Is
<1>9. ChangingBack => ChangingBack'
  BY <1>1 DEF ChangingBack, In
<1>10. Keeping => Keeping'
  BY <1>1 DEF Keeping, In
<1>11. PuttingBack => PuttingBack'
  BY <1>1, <1>3 DEF PuttingBack, Done
<1> QED BY <1>1, <1>6, <1>7, <1>8, <1>9, <1>10, <1>11 DEF Undoes

(* The others act, between any two calls: the invariant holds.             *)
LEMMA OthersStep ==
  ASSUME FilesInv, Others
  PROVE  FilesInv'
<1>1. PICK p, now : Acted(p, now)
  BY OthersAct
<1>2. Numbers' /\ Recorded' /\ Directory'
  BY <1>1, OthersTidy
<1>3. /\ calls' = calls /\ undos' = undos /\ names' = names /\ ids' = ids /\ failing' = failing
      /\ phase' = phase /\ pending' = pending /\ committed' = committed
      /\ void' \/ (~void /\ ~Caught)
  BY <1>1 DEF Acted
<1>4. phase = "acting" /\ calls # <<>> => Acting(base, new)' \/ Failing(base, new)'
  <2> SUFFICES ASSUME phase = "acting", calls # <<>>
               PROVE  Acting(base, new)' \/ Failing(base, new)'
    OBVIOUS
  <2>1. PICK n, i : n = base /\ i = new
    OBVIOUS
  <2>2. base' = n /\ new' = i
    BY <1>3, <2>1 DEF base, new
  <2>3. InHandOf(n, i) /\ (Acting(n, i) \/ Failing(n, i))
    BY <2>1 DEF InHandOf, FilesInv, Calls
  <2>4. Acting(n, i)' \/ Failing(n, i)'
    BY <1>1, <2>3, OthersActing, OthersFailing
  <2> QED BY <2>2, <2>4
<1>5. phase = "undoing" /\ calls # <<>> => Undoes'
  BY <1>1, OthersUndoes DEF FilesInv, Calls
<1>6. void' \/ Safe({})'
  <2>1. {} \in SUBSET Nat
    OBVIOUS
  <2> QED BY <1>1, <1>3, <2>1, SafeAnyway, OthersSafe
<1>7. void' \/ ~Caught'
  <2>1. \A m \in Names : m # Path => dir'[m] = dir[m]
    BY <1>1, OthersDir
  <2> QED BY <1>3, <2>1 DEF Caught, Data
<1>8. Path \in pending => void' \/ Spared'
  BY <1>1, OthersSpared DEF GivenUp, Acted
<1>9. Calls'
  BY <1>3, <1>4, <1>5, <1>6, <1>7, <1>8 DEF Calls, Settled
<1> QED BY <1>2, <1>9 DEF FilesInv

-----------------------------------------------------------------------------
(* 13. The whole.                                                          *)

(* It holds at the beginning, and nothing of others is at the path.        *)
LEMMA InitIs ==
  ASSUME Init
  PROVE  FilesInv /\ at \in {"ours", "nothing"} /\ moves = 0
<1>1. PICK kind \in Starts :
         dir = [m \in Names |-> IF m = Path /\ kind # None THEN Node(1, 0, kind, "mix") ELSE None]
  BY DEF Init
<1>2. /\ names = 0 /\ ids = 1 /\ calls = <<>> /\ failing = FALSE /\ undos = <<>> /\ announced = 0
      /\ committed = FALSE /\ pending = {} /\ phase = "acting" /\ acts = 0 /\ moves = 0
      /\ crashes = 0 /\ living = Data(Path) /\ void = FALSE
  BY DEF Init
<1>3. MaxActs \in Nat /\ MaxCrashes \in Nat /\ Path \in Names /\ Path = 0 /\ (\A m \in Names : m \in Nat)
  BY FilesAssumption DEF Names, Path
<1>4. PICK q : q = Node(1, 0, kind, "mix")
  OBVIOUS
<1>5. kind # None => /\ q \in Nodes /\ q # None /\ q.id = 1 /\ q.data = 0 /\ q.inside = None /\ q.done
                     /\ q.kind = kind /\ q.kind \in {"file", "dir", "lower"}
  <2> SUFFICES ASSUME kind # None
               PROVE  /\ q \in Nodes /\ q # None /\ q.id = 1 /\ q.data = 0 /\ q.inside = None /\ q.done
                      /\ q.kind = kind /\ q.kind \in {"file", "dir", "lower"}
    OBVIOUS
  <2>1. kind \in {"file", "dir", "lower"}
    BY FilesAssumption
  <2>2. 1 \in Int /\ 0 \in Int /\ kind \in {"file", "dir", "tree", "lower"} /\ "mix" \in {"mix", "other"}
    BY <2>1
  <2>3. /\ q \in Nodes /\ q.id = 1 /\ q.data = 0 /\ q.inside = None /\ q.done /\ q.kind = kind
    BY <1>4, <2>2, NewNode
  <2> QED BY <2>1, <2>3, NodesAreNot
<1>6. /\ \A m \in Names : m # Path => dir[m] = None
      /\ dir[Path] = IF kind # None THEN q ELSE None
      /\ Shape
  BY <1>1, <1>3, <1>4, <1>5 DEF Shape
<1>7. Numbers
  <2>1. Older
    BY <1>2, <1>3 DEF Older, InHand
  <2>2. crashes \in 0..MaxCrashes /\ names \in Names /\ ids \in Nat /\ moves \in Nat /\ acts \in Nat
    BY <1>2, <1>3
  <2>3. void \in BOOLEAN /\ failing \in BOOLEAN /\ committed \in BOOLEAN
    BY <1>2
  <2> QED BY <1>2, <2>1, <2>2, <2>3 DEF Numbers
<1>8. Recorded
  <2>1. undos \in Seq(UndoSet) /\ Len(undos) = 0 /\ DOMAIN undos = {}
    BY <1>2
  <2> QED BY <1>2, <2>1 DEF Recorded
<1>9. Data(Path) \subseteq {0} /\ (dir[Path] # None => Data(Path) = {0} /\ dir[Path].data = 0)
  BY <1>5, <1>6, FilesAssumption DEF Data
<1>10. Directory
  <2>1. Done(Path)
    BY <1>5, <1>6 DEF Done
  <2>2. dir[Path] # None => NodeOK(dir[Path])
    BY <1>2, <1>5, <1>6, FilesAssumption DEF NodeOK
  <2>3. \A m \in Names : dir[m] # None => NodeOK(dir[m])
    BY <1>6, <2>2
  <2> QED BY <1>2, <1>3, <1>6, <1>9, <2>1, <2>3 DEF Directory
<1>11. Safe({})
  <2>1. Expects = {}
    BY <1>2 DEF Expects
  <2>2. \A d \in living : Keeps(Path, d, {})
    BY <1>2, <1>6, <1>9, <2>1 DEF Keeps, Data
  <2>3. \A m \in Names : \A d \in Data(m) : ~Theirs(d)
    BY <1>6, <1>9 DEF Data, Theirs
  <2> QED BY <1>3, <2>2, <2>3 DEF Safe
<1>12. ~Caught /\ ~(\E d \in Data(Path) : Theirs(d))
  <2>1. \A m \in Names \ {Path} : Data(m) = {}
    BY <1>6 DEF Data
  <2> QED BY <1>9, <2>1 DEF Caught, Theirs
<1>13. Calls
  BY <1>2, <1>11, <1>12 DEF Calls
<1>14. at \in {"ours", "nothing"}
  BY <1>2, <1>12 DEF at
<1> QED BY <1>2, <1>7, <1>8, <1>10, <1>13, <1>14 DEF FilesInv

(* It holds while nothing happens.                                         *)
LEMMA StutterStep ==
  ASSUME FilesInv, UNCHANGED vars
  PROVE  FilesInv'
<1>1. /\ dir' = dir /\ names' = names /\ ids' = ids /\ calls' = calls /\ failing' = failing
      /\ undos' = undos /\ announced' = announced /\ committed' = committed /\ pending' = pending
      /\ phase' = phase /\ acts' = acts /\ crashes' = crashes /\ moves' = moves /\ living' = living
      /\ void' = void
  BY DEF vars, counters, record, history
<1>2. Numbers'
  BY <1>1 DEF FilesInv, Numbers, Older, Left, InHand, Earlier, base, new
<1>3. Recorded'
  BY <1>1 DEF FilesInv, Recorded, UndoOK, Done, Kinds
<1>4. Directory'
  BY <1>1 DEF FilesInv, Directory, Shape, NodeOK, Done
<1>5. /\ \A n, i : Acting(n, i)' <=> Acting(n, i)
      /\ \A n, i : Failing(n, i)' <=> Failing(n, i)
  BY <1>1 DEF Acting, Failing, Creating, Putting, Aside, AsideByCopy, Reclaiming, ReclaimByCopy, ByCopy,
     Looking, Changing, Discarding, Spared, Unlinking, Clearing, ExchangingBack, LinkingBack,
     LinkingAsideBack, In, Unused, Kinds, Is, Since, Taken, CaughtOr, Empty, Done, Clean, Data,
     OlderClean, OwnClean, Safe, Keeps, Expects
<1>6. Undoes' <=> Undoes
  BY <1>1 DEF Undoes, Removing, RemovingTree, Restoring, RestoringOver, ChangingBack, Keeping, PuttingBack,
     In, Done, Is, undo
<1>7. /\ Caught' <=> Caught
      /\ Spared' <=> Spared
      /\ Safe({})' <=> Safe({})
  BY <1>1 DEF Caught, Spared, Clean, Data, Safe, Keeps, Expects
<1>8. base' = base /\ new' = new
  BY <1>1 DEF base, new
<1>9. Calls'
  BY <1>1, <1>5, <1>6, <1>7, <1>8 DEF FilesInv, Calls, Settled
<1> QED BY <1>2, <1>3, <1>4, <1>9 DEF FilesInv

(* Every step keeps it.                                                    *)
LEMMA NextStep ==
  ASSUME FilesInv, [Next]_vars
  PROVE  FilesInv'
<1>1. CASE Over \/ UNCHANGED vars
  BY <1>1, StutterStep DEF Over
<1>2. CASE \E op \in Ops : Act(op)
  BY <1>2, ActStep
<1>3. CASE \E n \in Names : Delete(n)
  BY <1>3, DeleteStep
<1>4. CASE System \/ Succeeded \/ Rollback \/ Revert \/ NotReverted \/ RolledBack \/ Commit
           \/ Committed \/ Crash \/ Recover \/ Others
  BY <1>4, SystemStep, SucceededStep, RollbackStep, RevertStep, NotRevertedStep, OverStep, CommitStep,
     CrashStep, RecoverStep, OthersStep
<1> QED BY <1>1, <1>2, <1>3, <1>4 DEF Next

(* At every moment of a request, between any two system calls, after any   *)
(* crash and whatever other programs do: the action or undo in hand is at  *)
(* a stage of its own list of calls, what that stage relies on is still    *)
(* so, every undo on record fits the directory, and the data of others is  *)
(* where no undo and no cleaning up will remove it (crates/fs/src/lib.rs). *)
THEOREM FilesAreInOrder == Spec => []FilesInv
<1>1. Init => FilesInv
  BY InitIs
<1>2. FilesInv /\ [Next]_vars => FilesInv'
  BY NextStep
<1> QED BY <1>1, <1>2, PTL DEF Spec

(* Data that is safe is somewhere.                                         *)
LEMMA InvIsEnough ==
  ASSUME FilesInv
  PROVE  NothingIsLost
<1>1. living \subseteq Int /\ None \notin living
  <2>1. moves \in Nat /\ living \subseteq (-moves)..0
    BY Ints DEF FilesInv, Directory
  <2>2. living \subseteq Int
    BY <2>1
  <2> QED BY <2>2, FilesAssumption
<1>2. ASSUME Safe({}), NEW d \in living PROVE d \in UNION {Data(m) : m \in Names}
  <2>1. PICK m \in Names : Keeps(m, d, {})
    BY <1>2 DEF Safe
  <2>2. d \in Data(m)
    BY <1>1, <1>2, <2>1 DEF Keeps, Data
  <2> QED BY <2>2
<1>3. void \/ living \subseteq UNION {Data(m) : m \in Names}
  BY <1>2, SafeAnyway
<1>4. dir[Path] # None => dir[Path].done
  BY DEF FilesInv, Directory, Done
<1> QED BY <1>3, <1>4 DEF NothingIsLost

(* No file action, undo, crash or recovery loses the data of another       *)
(* program, or what was at the path before the request gave it up, and a   *)
(* reader of the path never finds a file that is still being written       *)
(* (write_new, finish_node and the renames of crates/fs/src/lib.rs).       *)
THEOREM NothingOfOthersIsLost == Spec => []NothingIsLost
<1>1. FilesInv => NothingIsLost
  BY InvIsEnough
<1> QED BY <1>1, FilesAreInOrder, PTL

-----------------------------------------------------------------------------
(* 14. The refinement of Slot.                                             *)

(* While nothing was voided, somebody's file is held if it is alive.       *)
Held == \E d \in living : Theirs(d)

(* What mix caught or left at the path is what is alive of theirs.         *)
LEMMA HeldIs ==
  ASSUME FilesInv, ~void
  PROVE  (Caught \/ \E d \in Data(Path) : Theirs(d)) <=> Held
<1>1. Safe({}) /\ Path \in Names
  BY SafeAnyway, Ints DEF FilesInv
<1>2. living \subseteq UNION {Data(m) : m \in Names}
  BY InvIsEnough DEF NothingIsLost
<1>3. ASSUME Held PROVE Caught \/ \E d \in Data(Path) : Theirs(d)
  <2>1. PICK d \in living : Theirs(d)
    BY <1>3 DEF Held
  <2>2. PICK m \in Names : d \in Data(m)
    BY <1>2
  <2> QED BY <2>1, <2>2 DEF Caught
<1>4. ASSUME NEW m \in Names, NEW d \in Data(m), Theirs(d) PROVE Held
  BY <1>1, <1>4 DEF Safe, Held
<1> QED BY <1>1, <1>3, <1>4 DEF Caught

Seen ==
    /\ void => at = "void"
    /\ ~void /\ Held => at = "theirs"
    /\ ~void /\ ~Held => at = IF dir[Path] = None THEN "nothing" ELSE "ours"

(* What Slot sees, by the data that is alive.                              *)
LEMMA AtIs == FilesInv => Seen
  BY HeldIs DEF at, Seen

(* What mix does about the others: nothing, unless it has to give up.      *)
Leaves ==
    /\ moves' = moves /\ (living' = living \/ living' = living \ {0})
    /\ void => void'
    /\ void' => void \/ Caught

(* Every step of mix but a fault leaves what the others did alone.         *)
LEMMA MixLeaves ==
  ASSUME FilesInv, [Next]_vars, ~Others
  PROVE  Leaves
<1>0. void \in BOOLEAN
  BY DEF FilesInv, Numbers
<1>1. CASE UNCHANGED vars \/ Over
  BY <1>0, <1>1 DEF Leaves, Over, vars, history
<1>2. CASE \E op \in Ops : Act(op)
  BY <1>0, <1>2 DEF Leaves, Act, history
<1>3. CASE System
  <2>1. CASE Fault
    BY <1>0, <2>1 DEF Leaves, Fault
  <2>2. CASE ~Fault
    <3>1. UNCHANGED history
      BY <1>3, <2>2 DEF System, Check, Make, Finish, Copy, Rename, Exchange, Away, Doom, Holds, UnlinkNode,
         RemoveTree, InPlace, RemoveDir, Open, Chmod, SyncDir, Record, Pending, Changes, kept
    <3> QED BY <1>0, <3>1 DEF Leaves, history
  <2> QED BY <2>1, <2>2
<1>4. CASE \E n \in Names : Delete(n)
  BY <1>0, <1>4 DEF Leaves, Delete
<1>5. CASE Succeeded \/ Rollback \/ Revert \/ NotReverted \/ RolledBack \/ Commit \/ Committed
           \/ Crash \/ Recover
  <2>1. UNCHANGED history
    BY <1>5 DEF Succeeded, Rollback, Revert, NotReverted, RolledBack, Commit, Committed, Crash,
       Recover, kept
  <2> QED BY <1>0, <2>1 DEF Leaves, history
<1> QED BY <1>1, <1>2, <1>3, <1>4, <1>5 DEF Next

(* Such a step is a step of mix in Slot, or none, or it gives up.          *)
LEMMA MixKeepsPromise ==
  ASSUME FilesInv, FilesInv', Leaves
  PROVE  Promise!Mix \/ Promise!GivesUp \/ UNCHANGED <<at, moves>>
<1>0. void \in BOOLEAN /\ void' \in BOOLEAN
  BY DEF FilesInv, Numbers
<1>1. Held' <=> Held
  BY DEF Leaves, Held, Theirs
<1>2. ~void /\ Caught => Held
  BY HeldIs
<1>3. Seen
  BY AtIs
<1>4. Seen'
  BY AtIs, PTL
<1>5. moves' = moves /\ (void => void') /\ (void' => void \/ Caught)
  BY DEF Leaves
<1>6. CASE void
  BY <1>3, <1>4, <1>5, <1>6 DEF Seen
<1>7. CASE ~void /\ Held
  BY <1>1, <1>3, <1>4, <1>5, <1>7 DEF Promise!GivesUp, Seen
<1>8. CASE ~void /\ ~Held
  BY <1>1, <1>2, <1>3, <1>4, <1>5, <1>8 DEF Promise!Mix, Seen
<1> QED BY <1>6, <1>7, <1>8

(* What the others do is what they do in Slot.                             *)
LEMMA OthersKeepPromise ==
  ASSUME FilesInv, FilesInv', Others
  PROVE  Promise!Others
<1>0. void \in BOOLEAN /\ void' \in BOOLEAN /\ Path \in Names
  BY Ints DEF FilesInv, Numbers
<1>1. PICK p, now : Acted(p, now)
  BY OthersAct
<1>2. Seen /\ Seen'
  BY AtIs, PTL
<1>3. moves' = moves + 1 /\ (void => void') /\ dir'[Path] = p /\ theirs \in Int /\ theirs < 0
  BY <1>1, OthersDir DEF Acted
<1>4. p = None \/ Held'
  <2>1. p = None \/ theirs \in living'
    BY <1>1 DEF Acted, Removes, Puts, Fills
  <2> QED BY <1>3, <2>1 DEF Held, Theirs
<1>5. CASE void
  BY <1>2, <1>3, <1>5 DEF Promise!Others, Seen
<1>6. CASE ~void
  <2>1. at # "void"
    BY <1>2, <1>6 DEF Seen
  <2>2. at' \in {"theirs", "nothing", "void"}
    BY <1>2, <1>3, <1>4 DEF Seen
  <2> QED BY <1>3, <2>1, <2>2 DEF Promise!Others
<1> QED BY <1>0, <1>5, <1>6

(* The actions, the undos, the crashes and recovery implement Slot: the    *)
(* file of another program is never taken away from the path and none is   *)
(* put there, unless somebody acts on the path, or a call fails, before    *)
(* what a rename caught is given back (crates/fs/src/lib.rs).              *)
THEOREM PathIsLeftToOthers == Spec => PathIsTheirs
<1>1. Init => Promise!Init
  BY InitIs DEF Promise!Init
<1>2. FilesInv /\ FilesInv'
      /\ [Next]_vars => [Promise!Mix \/ Promise!GivesUp \/ Promise!Others]_<<at, moves>>
  BY MixLeaves, MixKeepsPromise, OthersKeepPromise
<1> QED BY <1>1, <1>2, FilesAreInOrder, PTL DEF Spec, PathIsTheirs, Promise!Spec
=============================================================================
