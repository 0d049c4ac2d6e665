----------------------------- MODULE DriveProofs -----------------------------
(***************************************************************************)
(* What drive() and the recovery after it are proved to do, whatever the   *)
(* request, the crashes and the faults.                                    *)
(*                                                                         *)
(* 1. The loops of the journal (Journal.tla): what they return is made of  *)
(*    what they were given, by induction over their length.                *)
(* 2. The driver is one of the drivers Runner.tla allows: what drive()     *)
(*    feeds the runner is among the answers the runner is proved for, so   *)
(*    what RunnerProofs says of the runner holds of every request.         *)
(* 3. The types of the driver, the journal, the machine and recovery.      *)
(* 4. Until the commit is on record, everything can be put back.           *)
(***************************************************************************)
EXTENDS Drive, RunnerProofs
LOCAL INSTANCE SequencesExt
Founded == INSTANCE WellFoundedInduction

-----------------------------------------------------------------------------
(* Induction and recursion over 0..n without an operator to instantiate:   *)
(* the property is a family of sets A, the step a family of functions G.   *)
(* What a loop of the code computes (a Fold of Journal.tla) is proved with *)
(* these three.                                                            *)

(* A set of numbers has a least one.                                       *)
LEMMA Least ==
  ASSUME NEW T, T \subseteq Nat, T # {}
  PROVE  \E m \in T : \A k \in T : m <= k
<1>1. PICK m \in T : \A k \in T : ~(<<k, m>> \in Founded!OpToRel(<, Nat))
  BY Founded!NatLessThanWellFounded, Founded!WFMin
<1>2. \A k \in T : ~(k < m)
  BY <1>1 DEF Founded!OpToRel
<1> QED BY <1>2

(* Induction: what begins in A and stays there ends there.                 *)
LEMMA Stays ==
  ASSUME NEW n \in Nat, NEW A, NEW f, f[0] \in A[0],
         \A i \in 1..n : f[i - 1] \in A[i - 1] => f[i] \in A[i]
  PROVE  \A i \in 0..n : f[i] \in A[i]
<1> DEFINE Bad == {k \in Nat : k <= n /\ f[k] \notin A[k]}
<1> SUFFICES ASSUME Bad # {} PROVE FALSE
  OBVIOUS
<1>1. PICK m \in Bad : \A k \in Bad : m <= k
  BY Least
<1>2. m # 0
  BY <1>1
<1>3. m - 1 \in Nat /\ m - 1 \notin Bad /\ m - 1 <= n /\ m \in 1..n
  BY <1>1, <1>2
<1>4. f[m - 1] \in A[m - 1]
  BY <1>3
<1> QED BY <1>1, <1>3, <1>4

(* f is computed from base by the steps G.                                 *)
Computes(f, n, base, G) == f = [i \in 0..n |-> IF i = 0 THEN base ELSE G[i][f[i - 1]]]

(* Recursion: a value for every number, from the one before.               *)
LEMMA Recursion ==
  ASSUME NEW n \in Nat, NEW A, NEW G, NEW base, base \in A[0],
         \A i \in 1..n : \A a \in A[i - 1] : G[i][a] \in A[i]
  PROVE  \E f : Computes(f, n, base, G) /\ \A i \in 0..n : f[i] \in A[i]
<1> DEFINE Is(f, k) == Computes(f, k, base, G)
           Bad == {k \in Nat : k <= n /\ ~\E f : Is(f, k)}
<1> USE DEF Computes
<1>1. \E f : Is(f, 0)
  <2> DEFINE f == [i \in 0..0 |-> base]
  <2>1. f = [i \in 0..0 |-> IF i = 0 THEN base ELSE G[i][f[i - 1]]]
    OBVIOUS
  <2> HIDE DEF f
  <2> QED BY <2>1
<1>2. ASSUME NEW k \in Nat, NEW f, Is(f, k) PROVE \E g : Is(g, k + 1)
  <2> DEFINE g == [i \in 0..(k + 1) |-> IF i = k + 1 THEN G[i][f[k]] ELSE f[i]]
  <2>1. f[0] = base /\ \A i \in 1..k : f[i] = G[i][f[i - 1]]
    BY <1>2
  <2>2. \A i \in 0..(k + 1) : g[i] = IF i = 0 THEN base ELSE G[i][g[i - 1]]
    <3>1. g[0] = base
      BY <2>1
    <3>2. \A i \in 1..k : g[i] = G[i][g[i - 1]]
      BY <2>1
    <3>3. g[k + 1] = G[k + 1][g[k]]
      OBVIOUS
    <3>4. \A i \in 0..(k + 1) : i = 0 \/ i \in 1..k \/ (i = k + 1 /\ i # 0 /\ i - 1 = k)
      OBVIOUS
    <3> HIDE DEF g
    <3> QED BY <3>1, <3>2, <3>3, <3>4
  <2>3. g = [i \in 0..(k + 1) |-> g[i]]
    OBVIOUS
  <2> HIDE DEF g
  <2>4. Is(g, k + 1)
    BY <2>2, <2>3
  <2> QED BY <2>4
<1> HIDE DEF Is, Computes
<1>3. Bad = {}
  <2> SUFFICES ASSUME Bad # {} PROVE FALSE
    OBVIOUS
  <2>1. PICK m \in Bad : \A k \in Bad : m <= k
    BY Least
  <2>2. m # 0
    BY <1>1, <2>1
  <2>3. m - 1 \in Nat /\ m - 1 \notin Bad /\ m - 1 <= n /\ (m - 1) + 1 = m
    BY <2>1, <2>2
  <2>4. PICK f : Is(f, m - 1)
    BY <2>3
  <2>5. \E g : Is(g, (m - 1) + 1)
    BY <1>2, <2>3, <2>4
  <2> QED BY <2>1, <2>3, <2>5
<1>4. PICK f : Is(f, n)
  BY <1>3
<1>5. f[0] = base /\ \A i \in 1..n : f[i] = G[i][f[i - 1]]
  BY <1>4 DEF Is, Computes
<1>6. f[0] \in A[0] /\ \A i \in 1..n : f[i - 1] \in A[i - 1] => f[i] \in A[i]
  BY <1>5
<1>7. \A i \in 0..n : f[i] \in A[i]
  BY ONLY <1>6, Stays, n \in Nat
<1> QED BY <1>4, <1>7 DEF Is

-----------------------------------------------------------------------------
(* 1. The loops of the journal.  A loop is a Fold: if it begins in A[0]    *)
(* and its step i leads from A[i - 1] to A[i], it ends in the last of      *)
(* these sets.  The provers instantiate no operator, so this is said once  *)
(* for every operator that is folded, by the same argument: there is a     *)
(* function the loop computes (Recursion), so the one Fold chooses is one, *)
(* and it stays in A (Stays).                                              *)

LEMMA OrderFold ==
  ASSUME NEW s, Len(s) \in Nat, NEW A, NEW base, base \in A[0],
         \A i \in 1..Len(s) : \A a \in A[i - 1] : Order(a, s[i]) \in A[i]
  PROVE  Fold(Order, base, s) \in A[Len(s)]
<1> DEFINE n == Len(s)
           G == [i \in 1..n |-> [a \in A[i - 1] |-> Order(a, s[i])]]
           Is(h) == h = [i \in 0..n |-> IF i = 0 THEN base ELSE Order(h[i - 1], s[i])]
<1>1. \A i \in 1..n : \A a \in A[i - 1] : G[i][a] = Order(a, s[i]) /\ G[i][a] \in A[i]
  OBVIOUS
<1> HIDE DEF n, G
<1>2. n \in Nat
  BY DEF n
<1>3. PICK f : Computes(f, n, base, G) /\ \A i \in 0..n : f[i] \in A[i]
  BY <1>1, <1>2, Recursion
<1>4. Is(f)
  <2>1. \A i \in 0..n : i # 0 => i \in 1..n /\ f[i - 1] \in A[i - 1]
    BY <1>2, <1>3
  <2>2. \A i \in 0..n : i # 0 => G[i][f[i - 1]] = Order(f[i - 1], s[i])
    BY <1>1, <2>1
  <2> QED BY <1>3, <2>2 DEF Computes
<1> DEFINE g == CHOOSE h : Is(h)
<1>5. Is(g)
  BY <1>4
<1>6. g[n] = Fold(Order, base, s)
  BY DEF Fold, n
<1> HIDE DEF g
<1>7. g[0] \in A[0] /\ \A i \in 1..n : g[i - 1] \in A[i - 1] => g[i] \in A[i]
  <2>1. g[0] = base /\ \A i \in 1..n : g[i] = Order(g[i - 1], s[i])
    BY <1>2, <1>5
  <2> QED BY <2>1 DEF n
<1>8. g[n] \in A[n]
  BY ONLY <1>2, <1>7, Stays
<1> QED BY <1>6, <1>8 DEF n

LEMMA ConfirmFold ==
  ASSUME NEW s, Len(s) \in Nat, NEW A, NEW base, base \in A[0],
         \A i \in 1..Len(s) : \A a \in A[i - 1] : Confirm(a, s[i]) \in A[i]
  PROVE  Fold(Confirm, base, s) \in A[Len(s)]
<1> DEFINE n == Len(s)
           G == [i \in 1..n |-> [a \in A[i - 1] |-> Confirm(a, s[i])]]
           Is(h) == h = [i \in 0..n |-> IF i = 0 THEN base ELSE Confirm(h[i - 1], s[i])]
<1>1. \A i \in 1..n : \A a \in A[i - 1] : G[i][a] = Confirm(a, s[i]) /\ G[i][a] \in A[i]
  OBVIOUS
<1> HIDE DEF n, G
<1>2. n \in Nat
  BY DEF n
<1>3. PICK f : Computes(f, n, base, G) /\ \A i \in 0..n : f[i] \in A[i]
  BY <1>1, <1>2, Recursion
<1>4. Is(f)
  <2>1. \A i \in 0..n : i # 0 => i \in 1..n /\ f[i - 1] \in A[i - 1]
    BY <1>2, <1>3
  <2>2. \A i \in 0..n : i # 0 => G[i][f[i - 1]] = Confirm(f[i - 1], s[i])
    BY <1>1, <2>1
  <2> QED BY <1>3, <2>2 DEF Computes
<1> DEFINE g == CHOOSE h : Is(h)
<1>5. Is(g)
  BY <1>4
<1>6. g[n] = Fold(Confirm, base, s)
  BY DEF Fold, n
<1> HIDE DEF g
<1>7. g[0] \in A[0] /\ \A i \in 1..n : g[i - 1] \in A[i - 1] => g[i] \in A[i]
  <2>1. g[0] = base /\ \A i \in 1..n : g[i] = Confirm(g[i - 1], s[i])
    BY <1>2, <1>5
  <2> QED BY <2>1 DEF n
<1>8. g[n] \in A[n]
  BY ONLY <1>2, <1>7, Stays
<1> QED BY <1>6, <1>8 DEF n

LEMMA AnnounceFold ==
  ASSUME NEW s, Len(s) \in Nat, NEW A, NEW base, base \in A[0],
         \A i \in 1..Len(s) : \A a \in A[i - 1] : Announce(a, s[i]) \in A[i]
  PROVE  Fold(Announce, base, s) \in A[Len(s)]
<1> DEFINE n == Len(s)
           G == [i \in 1..n |-> [a \in A[i - 1] |-> Announce(a, s[i])]]
           Is(h) == h = [i \in 0..n |-> IF i = 0 THEN base ELSE Announce(h[i - 1], s[i])]
<1>1. \A i \in 1..n : \A a \in A[i - 1] : G[i][a] = Announce(a, s[i]) /\ G[i][a] \in A[i]
  OBVIOUS
<1> HIDE DEF n, G
<1>2. n \in Nat
  BY DEF n
<1>3. PICK f : Computes(f, n, base, G) /\ \A i \in 0..n : f[i] \in A[i]
  BY <1>1, <1>2, Recursion
<1>4. Is(f)
  <2>1. \A i \in 0..n : i # 0 => i \in 1..n /\ f[i - 1] \in A[i - 1]
    BY <1>2, <1>3
  <2>2. \A i \in 0..n : i # 0 => G[i][f[i - 1]] = Announce(f[i - 1], s[i])
    BY <1>1, <2>1
  <2> QED BY <1>3, <2>2 DEF Computes
<1> DEFINE g == CHOOSE h : Is(h)
<1>5. Is(g)
  BY <1>4
<1>6. g[n] = Fold(Announce, base, s)
  BY DEF Fold, n
<1> HIDE DEF g
<1>7. g[0] \in A[0] /\ \A i \in 1..n : g[i - 1] \in A[i - 1] => g[i] \in A[i]
  <2>1. g[0] = base /\ \A i \in 1..n : g[i] = Announce(g[i - 1], s[i])
    BY <1>2, <1>5
  <2> QED BY <2>1 DEF n
<1>8. g[n] \in A[n]
  BY ONLY <1>2, <1>7, Stays
<1> QED BY <1>6, <1>8 DEF n

LEMMA CancelFold ==
  ASSUME NEW s, Len(s) \in Nat, NEW A, NEW base, base \in A[0],
         \A i \in 1..Len(s) : \A a \in A[i - 1] : Cancel(a, s[i]) \in A[i]
  PROVE  Fold(Cancel, base, s) \in A[Len(s)]
<1> DEFINE n == Len(s)
           G == [i \in 1..n |-> [a \in A[i - 1] |-> Cancel(a, s[i])]]
           Is(h) == h = [i \in 0..n |-> IF i = 0 THEN base ELSE Cancel(h[i - 1], s[i])]
<1>1. \A i \in 1..n : \A a \in A[i - 1] : G[i][a] = Cancel(a, s[i]) /\ G[i][a] \in A[i]
  OBVIOUS
<1> HIDE DEF n, G
<1>2. n \in Nat
  BY DEF n
<1>3. PICK f : Computes(f, n, base, G) /\ \A i \in 0..n : f[i] \in A[i]
  BY <1>1, <1>2, Recursion
<1>4. Is(f)
  <2>1. \A i \in 0..n : i # 0 => i \in 1..n /\ f[i - 1] \in A[i - 1]
    BY <1>2, <1>3
  <2>2. \A i \in 0..n : i # 0 => G[i][f[i - 1]] = Cancel(f[i - 1], s[i])
    BY <1>1, <2>1
  <2> QED BY <1>3, <2>2 DEF Computes
<1> DEFINE g == CHOOSE h : Is(h)
<1>5. Is(g)
  BY <1>4
<1>6. g[n] = Fold(Cancel, base, s)
  BY DEF Fold, n
<1> HIDE DEF g
<1>7. g[0] \in A[0] /\ \A i \in 1..n : g[i - 1] \in A[i - 1] => g[i] \in A[i]
  <2>1. g[0] = base /\ \A i \in 1..n : g[i] = Cancel(g[i - 1], s[i])
    BY <1>2, <1>5
  <2> QED BY <2>1 DEF n
<1>8. g[n] \in A[n]
  BY ONLY <1>2, <1>7, Stays
<1> QED BY <1>6, <1>8 DEF n

LEMMA StillFold ==
  ASSUME NEW s, Len(s) \in Nat, NEW A, NEW base, base \in A[0],
         \A i \in 1..Len(s) : \A a \in A[i - 1] : Still(a, s[i]) \in A[i]
  PROVE  Fold(Still, base, s) \in A[Len(s)]
<1> DEFINE n == Len(s)
           G == [i \in 1..n |-> [a \in A[i - 1] |-> Still(a, s[i])]]
           Is(h) == h = [i \in 0..n |-> IF i = 0 THEN base ELSE Still(h[i - 1], s[i])]
<1>1. \A i \in 1..n : \A a \in A[i - 1] : G[i][a] = Still(a, s[i]) /\ G[i][a] \in A[i]
  OBVIOUS
<1> HIDE DEF n, G
<1>2. n \in Nat
  BY DEF n
<1>3. PICK f : Computes(f, n, base, G) /\ \A i \in 0..n : f[i] \in A[i]
  BY <1>1, <1>2, Recursion
<1>4. Is(f)
  <2>1. \A i \in 0..n : i # 0 => i \in 1..n /\ f[i - 1] \in A[i - 1]
    BY <1>2, <1>3
  <2>2. \A i \in 0..n : i # 0 => G[i][f[i - 1]] = Still(f[i - 1], s[i])
    BY <1>1, <2>1
  <2> QED BY <1>3, <2>2 DEF Computes
<1> DEFINE g == CHOOSE h : Is(h)
<1>5. Is(g)
  BY <1>4
<1>6. g[n] = Fold(Still, base, s)
  BY DEF Fold, n
<1> HIDE DEF g
<1>7. g[0] \in A[0] /\ \A i \in 1..n : g[i - 1] \in A[i - 1] => g[i] \in A[i]
  <2>1. g[0] = base /\ \A i \in 1..n : g[i] = Still(g[i - 1], s[i])
    BY <1>2, <1>5
  <2> QED BY <2>1 DEF n
<1>8. g[n] \in A[n]
  BY ONLY <1>2, <1>7, Stays
<1> QED BY <1>6, <1>8 DEF n

(* The steps of the filters of Journal.tla.                                *)
OfRec(acc, r, kind) == IF r.rec = kind THEN Append(acc, r) ELSE acc
Unknown(acc, r, known) == IF r.seq \notin known THEN Append(acc, r) ELSE acc
Put(acc, a) == IF from[a] # NoPath THEN Append(acc, a) ELSE acc
Restores(s) == Filter(s, LAMBDA a : from[a] # NoPath)
Opened(s, known) == Filter(s, LAMBDA r : r.seq \notin known)

LEMMA KindFold ==
  ASSUME NEW s, Len(s) \in Nat, NEW kind, NEW A, <<>> \in A[0],
         \A i \in 1..Len(s) : \A a \in A[i - 1] : OfRec(a, s[i], kind) \in A[i]
  PROVE  OfKind(s, kind) \in A[Len(s)]
<1> DEFINE n == Len(s)
           G == [i \in 1..n |-> [a \in A[i - 1] |-> OfRec(a, s[i], kind)]]
           Is(h) == h = [i \in 0..n |-> IF i = 0 THEN <<>> ELSE OfRec(h[i - 1], s[i], kind)]
<1>1. \A i \in 1..n : \A a \in A[i - 1] : G[i][a] = OfRec(a, s[i], kind) /\ G[i][a] \in A[i]
  OBVIOUS
<1> HIDE DEF n, G
<1>2. n \in Nat
  BY DEF n
<1>3. PICK f : Computes(f, n, <<>>, G) /\ \A i \in 0..n : f[i] \in A[i]
  BY <1>1, <1>2, Recursion
<1>4. Is(f)
  <2>1. \A i \in 0..n : i # 0 => i \in 1..n /\ f[i - 1] \in A[i - 1]
    BY <1>2, <1>3
  <2>2. \A i \in 0..n : i # 0 => G[i][f[i - 1]] = OfRec(f[i - 1], s[i], kind)
    BY <1>1, <2>1
  <2> QED BY <1>3, <2>2 DEF Computes
<1> DEFINE g == CHOOSE h : Is(h)
<1>5. Is(g)
  BY <1>4
<1>6. g[n] = OfKind(s, kind)
  BY DEF OfRec, OfKind, Filter, Fold, n
<1> HIDE DEF g
<1>7. g[0] \in A[0] /\ \A i \in 1..n : g[i - 1] \in A[i - 1] => g[i] \in A[i]
  <2>1. g[0] = <<>> /\ \A i \in 1..n : g[i] = OfRec(g[i - 1], s[i], kind)
    BY <1>2, <1>5
  <2> QED BY <2>1 DEF n
<1>8. g[n] \in A[n]
  BY ONLY <1>2, <1>7, Stays
<1> QED BY <1>6, <1>8 DEF n

LEMMA OpenFold ==
  ASSUME NEW s, Len(s) \in Nat, NEW known, NEW A, <<>> \in A[0],
         \A i \in 1..Len(s) : \A a \in A[i - 1] : Unknown(a, s[i], known) \in A[i]
  PROVE  Opened(s, known) \in A[Len(s)]
<1> DEFINE n == Len(s)
           G == [i \in 1..n |-> [a \in A[i - 1] |-> Unknown(a, s[i], known)]]
           Is(h) == h = [i \in 0..n |-> IF i = 0 THEN <<>> ELSE Unknown(h[i - 1], s[i], known)]
<1>1. \A i \in 1..n : \A a \in A[i - 1] : G[i][a] = Unknown(a, s[i], known) /\ G[i][a] \in A[i]
  OBVIOUS
<1> HIDE DEF n, G
<1>2. n \in Nat
  BY DEF n
<1>3. PICK f : Computes(f, n, <<>>, G) /\ \A i \in 0..n : f[i] \in A[i]
  BY <1>1, <1>2, Recursion
<1>4. Is(f)
  <2>1. \A i \in 0..n : i # 0 => i \in 1..n /\ f[i - 1] \in A[i - 1]
    BY <1>2, <1>3
  <2>2. \A i \in 0..n : i # 0 => G[i][f[i - 1]] = Unknown(f[i - 1], s[i], known)
    BY <1>1, <2>1
  <2> QED BY <1>3, <2>2 DEF Computes
<1> DEFINE g == CHOOSE h : Is(h)
<1>5. Is(g)
  BY <1>4
<1>6. g[n] = Opened(s, known)
  BY DEF Unknown, Opened, Filter, Fold, n
<1> HIDE DEF g
<1>7. g[0] \in A[0] /\ \A i \in 1..n : g[i - 1] \in A[i - 1] => g[i] \in A[i]
  <2>1. g[0] = <<>> /\ \A i \in 1..n : g[i] = Unknown(g[i - 1], s[i], known)
    BY <1>2, <1>5
  <2> QED BY <2>1 DEF n
<1>8. g[n] \in A[n]
  BY ONLY <1>2, <1>7, Stays
<1> QED BY <1>6, <1>8 DEF n

LEMMA RestoreFold ==
  ASSUME NEW s, Len(s) \in Nat, NEW A, <<>> \in A[0],
         \A i \in 1..Len(s) : \A a \in A[i - 1] : Put(a, s[i]) \in A[i]
  PROVE  Restores(s) \in A[Len(s)]
<1> DEFINE n == Len(s)
           G == [i \in 1..n |-> [a \in A[i - 1] |-> Put(a, s[i])]]
           Is(h) == h = [i \in 0..n |-> IF i = 0 THEN <<>> ELSE Put(h[i - 1], s[i])]
<1>1. \A i \in 1..n : \A a \in A[i - 1] : G[i][a] = Put(a, s[i]) /\ G[i][a] \in A[i]
  OBVIOUS
<1> HIDE DEF n, G
<1>2. n \in Nat
  BY DEF n
<1>3. PICK f : Computes(f, n, <<>>, G) /\ \A i \in 0..n : f[i] \in A[i]
  BY <1>1, <1>2, Recursion
<1>4. Is(f)
  <2>1. \A i \in 0..n : i # 0 => i \in 1..n /\ f[i - 1] \in A[i - 1]
    BY <1>2, <1>3
  <2>2. \A i \in 0..n : i # 0 => G[i][f[i - 1]] = Put(f[i - 1], s[i])
    BY <1>1, <2>1
  <2> QED BY <1>3, <2>2 DEF Computes
<1> DEFINE g == CHOOSE h : Is(h)
<1>5. Is(g)
  BY <1>4
<1>6. g[n] = Restores(s)
  BY DEF Put, Restores, Filter, Fold, n
<1> HIDE DEF g
<1>7. g[0] \in A[0] /\ \A i \in 1..n : g[i - 1] \in A[i - 1] => g[i] \in A[i]
  <2>1. g[0] = <<>> /\ \A i \in 1..n : g[i] = Put(g[i - 1], s[i])
    BY <1>2, <1>5
  <2> QED BY <2>1 DEF n
<1>8. g[n] \in A[n]
  BY ONLY <1>2, <1>7, Stays
<1> QED BY <1>6, <1>8 DEF n

LEMMA ReverseIn ==
  ASSUME NEW S, NEW s \in Seq(S)
  PROVE  Reverse(s) \in Seq(S) /\ Len(Reverse(s)) = Len(s)
  BY DEF Reverse

(* What is flattened, ordered or taken out is what was there.              *)
LEMMA FlattenIn ==
  ASSUME NEW X, NEW s \in Seq(Seq(X))
  PROVE  FlattenSeq(s) \in Seq(X)
<1> DEFINE n == Len(s)
           S == Seq(X)
           Join(a, i) == a \o s[i]
           A == [i \in 0..n |-> S]
           G == [i \in 1..n |-> [a \in S |-> Join(a, i)]]
           Is(h) == h = [i \in 1..n |-> IF i = 1 THEN s[i] ELSE Join(h[i - 1], i)]
<1>1. n \in Nat /\ \A i \in 1..n : s[i] \in S
  OBVIOUS
<1>2. \A a \in S, i \in 1..n : Join(a, i) \in S
  BY <1>1
<1>3. <<>> \in S
  OBVIOUS
<1> HIDE DEF n, S, Join
<1>4. \A i \in 0..n : A[i] = S
  OBVIOUS
<1>5. \A i \in 1..n : \A a \in S : G[i][a] = Join(a, i)
  OBVIOUS
<1> HIDE DEF A, G
<1>6. \A i \in 1..n : i - 1 \in 0..n /\ i \in 0..n
  BY <1>1
<1>7. <<>> \in A[0] /\ \A i \in 1..n : \A a \in A[i - 1] : G[i][a] \in A[i]
  BY <1>1, <1>2, <1>3, <1>4, <1>5, <1>6
<1>8. CASE n = 0
  <2>1. s = <<>>
    BY <1>8 DEF n
  <2> QED BY <1>3, <1>8, <2>1 DEF FlattenSeq, n, S
<1>9. CASE n # 0
  <2>1. PICK f : Computes(f, n, <<>>, G) /\ \A i \in 0..n : f[i] \in A[i]
    BY <1>1, <1>7, Recursion
  <2>2. \A i \in 0..n : f[i] \in S
    BY <1>4, <2>1
  <2>3. f[0] = <<>> /\ \A i \in 1..n : f[i] = G[i][f[i - 1]]
    BY <1>1, <2>1 DEF Computes
  <2>4. \A i \in 1..n : f[i] = Join(f[i - 1], i)
    BY <1>5, <1>6, <2>2, <2>3
  <2>5. f[1] = s[1]
    <3>1. 1 \in 1..n /\ s[1] \in Seq(X)
      BY <1>1, <1>9 DEF S
    <3>2. f[1] = Join(f[0], 1)
      BY <2>4, <3>1
    <3> QED BY <2>3, <3>1, <3>2 DEF Join
  <2> DEFINE h == [i \in 1..n |-> f[i]]
  <2>6. Is(h)
    <3>1. \A i \in 1..n : i # 1 => i - 1 \in 1..n
      BY <1>1
    <3>2. \A i \in 1..n : h[i] = IF i = 1 THEN s[i] ELSE Join(h[i - 1], i)
      BY <2>4, <2>5, <3>1
    <3> QED BY <3>2
  <2> HIDE DEF h
  <2> DEFINE g == CHOOSE k : Is(k)
  <2>7. Is(g)
    BY <2>6
  <2>8. g[n] = FlattenSeq(s)
    BY <1>9 DEF FlattenSeq, n, Join
  <2> HIDE DEF g
  <2>9. g[1] = s[1] /\ \A i \in 2..n : g[i] = Join(g[i - 1], i)
    BY <1>1, <1>9, <2>7
  <2> DEFINE B == [i \in 0..(n - 1) |-> S]
             k == [i \in 0..(n - 1) |-> g[i + 1]]
  <2>10. n - 1 \in Nat /\ n - 1 \in 0..(n - 1) /\ (n - 1) + 1 = n /\ 0 \in 0..(n - 1)
    BY <1>1, <1>9
  <2>11. k[n - 1] = g[n] /\ k[0] = g[1] /\ \A i \in 0..(n - 1) : B[i] = S
    BY <2>10
  <2>12. \A i \in 1..(n - 1) : k[i] = Join(k[i - 1], i + 1)
    <3> TAKE i \in 1..(n - 1)
    <3>1. i \in 0..(n - 1) /\ i - 1 \in 0..(n - 1) /\ (i - 1) + 1 = i /\ i + 1 \in 2..n
          /\ (i + 1) - 1 = i
      BY <2>10
    <3>2. k[i] = g[i + 1] /\ k[i - 1] = g[i]
      BY <3>1
    <3> QED BY <2>9, <3>1, <3>2
  <2> HIDE DEF B, k
  <2>13. \A i \in 1..(n - 1) : i + 1 \in 1..n /\ i - 1 \in 0..(n - 1) /\ i \in 0..(n - 1)
    BY <2>10
  <2>14. k[0] \in B[0]
    BY <1>1, <2>9, <2>10, <2>11, <2>13
  <2>15. \A i \in 1..(n - 1) : k[i - 1] \in B[i - 1] => k[i] \in B[i]
    BY <1>2, <2>11, <2>12, <2>13
  <2>16. k[n - 1] \in B[n - 1]
    BY <2>10, <2>14, <2>15, Stays
  <2> QED BY <2>8, <2>10, <2>11, <2>16 DEF S
<1> QED BY <1>8, <1>9

LEMMA RemoveFirstIn ==
  ASSUME NEW X, NEW s \in Seq(X), NEW e
  PROVE  RemoveFirst(s, e) \in Seq(X)
<1> DEFINE I == {i \in 1..Len(s) : s[i] = e}
<1>1. CASE I = {}
  BY <1>1 DEF RemoveFirst
<1>2. CASE I # {}
  <2>1. I \subseteq Nat /\ I \subseteq 1..Len(s)
    OBVIOUS
  <2>2. SelectInSeq(s, LAMBDA v : v = e) = Min(I)
    BY <1>2 DEF SelectInSeq
  <2>3. RemoveFirst(s, e) = RemoveAt(s, Min(I))
    BY <1>2, <2>2 DEF RemoveFirst
  <2> HIDE DEF I
  <2>4. PICK m \in I : \A k \in I : m <= k
    BY <1>2, <2>1, Least
  <2>5. Min(I) \in I
    BY <2>4 DEF Min
  <2>6. PICK k \in 1..Len(s) : k = Min(I)
    BY <2>1, <2>5
  <2>7. Len(s) \in Nat /\ k - 1 \in 0..Len(s) /\ k + 1 \in 1..(Len(s) + 1)
    BY <2>6
  <2>8. \A i \in 1..(k - 1) : s[i] \in X
    BY <2>6
  <2>9. \A i \in (k + 1)..Len(s) : s[i] \in X
    BY <2>6
  <2>10. SubSeq(s, 1, k - 1) \in Seq(X)
    BY <2>7, <2>8
  <2>11. SubSeq(s, k + 1, Len(s)) \in Seq(X)
    BY <2>7, <2>9
  <2> QED BY <2>3, <2>6, <2>10, <2>11 DEF RemoveAt
<1> QED BY <1>1, <1>2

LEMMA RollbackIn ==
  ASSUME NEW X, NEW groups \in Seq(Seq(X))
  PROVE  rollback_order(groups) \in Seq(X)
<1> DEFINE s == FlattenSeq(Reverse(groups))
           Ordering == [ordered : Seq(X), pending : Seq(X)]
           A == [i \in 0..Len(s) |-> Ordering]
           base == [ordered |-> <<>>, pending |-> <<>>]
<1>1. s \in Seq(X)
  BY ReverseIn, FlattenIn
<1> HIDE DEF s
<1>2. Len(s) \in Nat /\ \A i \in 1..Len(s) : s[i] \in X
  BY <1>1
<1>3. ASSUME NEW a \in Ordering, NEW x \in X PROVE Order(a, x) \in Ordering
  <2>1. a.ordered \in Seq(X) /\ a.pending \in Seq(X) /\ RemoveFirst(a.pending, Reload) \in Seq(X)
    BY RemoveFirstIn
  <2>2. /\ Append(a.ordered, x) \in Seq(X) /\ Append(a.pending, x) \in Seq(X)
        /\ Contains(a.pending, Reload) => a.ordered \o <<Reload, x>> \in Seq(X)
    <3>1. ASSUME Contains(a.pending, Reload) PROVE a.ordered \o <<Reload, x>> \in Seq(X)
      <4>1. Reload \in X
        BY <2>1, <3>1 DEF Contains
      <4>2. <<Reload, x>> \in Seq(X)
        BY <4>1
      <4> QED BY <2>1, <4>2
    <3> QED BY <2>1, <3>1
  <2> QED BY <2>1, <2>2 DEF Order
<1>4. base \in Ordering
  OBVIOUS
<1> HIDE DEF Ordering, base
<1>5. \A i \in 0..Len(s) : A[i] = Ordering
  OBVIOUS
<1> HIDE DEF A
<1>6. \A i \in 1..Len(s) : i \in 0..Len(s) /\ i - 1 \in 0..Len(s)
  BY <1>2
<1>7. base \in A[0] /\ A[Len(s)] = Ordering
  BY <1>2, <1>4, <1>5
<1>8. \A i \in 1..Len(s) : \A a \in A[i - 1] : Order(a, s[i]) \in A[i]
  BY <1>2, <1>3, <1>5, <1>6
<1>9. Fold(Order, base, s) \in Ordering
  BY <1>2, <1>7, <1>8, OrderFold
<1> DEFINE end == Fold(Order, base, s)
<1>10. end.ordered \in Seq(X) /\ Reverse(end.pending) \in Seq(X)
  BY <1>9, ReverseIn DEF Ordering
<1>11. rollback_order(groups) = end.ordered \o Reverse(end.pending)
  BY DEF rollback_order, s, base
<1> HIDE DEF end
<1> QED BY <1>10, <1>11

LEMMA EachIn ==
  ASSUME NEW X, NEW lists \in Seq(Seq(X))
  PROVE  /\ FlattenSeq([i \in DOMAIN lists |-> rollback_order(<<lists[i]>>)]) \in Seq(X)
         /\ each_in_order(lists) \in Seq(X)
<1>1. \A i \in 1..Len(lists) : rollback_order(<<lists[i]>>) \in Seq(X)
  <2> TAKE i \in 1..Len(lists)
  <2>1. <<lists[i]>> \in Seq(Seq(X))
    OBVIOUS
  <2> QED BY <2>1, RollbackIn
<1>2. DOMAIN lists = 1..Len(lists) /\ Len(lists) \in Nat
  OBVIOUS
<1> DEFINE s == [i \in DOMAIN lists |-> rollback_order(<<lists[i]>>)]
<1>3. s = [i \in 1..Len(lists) |-> rollback_order(<<lists[i]>>)]
  BY <1>2
<1> HIDE DEF s
<1>4. s \in Seq(Seq(X))
  BY <1>1, <1>2, <1>3
<1>5. FlattenSeq(s) \in Seq(X)
  BY <1>4, FlattenIn
<1> QED BY <1>5 DEF s, each_in_order

(* R is a set of records whose undos are of X.                             *)
Holds(R, X) == \A r \in R : r.rec \in {"Prepared", "Settled"} => r.seq \in Nat /\ r.undo \in Seq(X)

LEMMA OfKindIn ==
  ASSUME NEW R, NEW records \in Seq(R), NEW kind
  PROVE  OfKind(records, kind) \in Seq({r \in R : r.rec = kind})
<1> DEFINE n == Len(records)
           S == Seq({r \in R : r.rec = kind})
           A == [i \in 0..n |-> S]
<1>1. n \in Nat /\ \A i \in 1..n : records[i] \in R
  OBVIOUS
<1>2. ASSUME NEW a \in S, NEW r \in R PROVE OfRec(a, r, kind) \in S
  BY DEF OfRec
<1>3. <<>> \in S
  OBVIOUS
<1> HIDE DEF S
<1>4. \A i \in 0..n : A[i] = S
  OBVIOUS
<1>5. \A i \in 1..n : i \in 0..n /\ i - 1 \in 0..n
  BY <1>1
<1> HIDE DEF A
<1>6. <<>> \in A[0] /\ A[n] = S
  BY <1>1, <1>3, <1>4
<1>7. \A i \in 1..n : \A a \in A[i - 1] : OfRec(a, records[i], kind) \in A[i]
  BY <1>1, <1>2, <1>4, <1>5
<1> QED BY <1>1, <1>6, <1>7, KindFold DEF S

LEMMA OpenIn ==
  ASSUME NEW R, NEW records \in Seq(R), NEW known
  PROVE  Opened(records, known) \in Seq(R)
<1> DEFINE n == Len(records)
           S == Seq(R)
           A == [i \in 0..n |-> S]
<1>1. n \in Nat /\ \A i \in 1..n : records[i] \in R
  OBVIOUS
<1>2. ASSUME NEW a \in S, NEW r \in R PROVE Unknown(a, r, known) \in S
  BY DEF Unknown
<1>3. <<>> \in S
  OBVIOUS
<1> HIDE DEF S
<1>4. \A i \in 0..n : A[i] = S
  OBVIOUS
<1>5. \A i \in 1..n : i \in 0..n /\ i - 1 \in 0..n
  BY <1>1
<1> HIDE DEF A
<1>6. <<>> \in A[0] /\ A[n] = S
  BY <1>1, <1>3, <1>4
<1>7. \A i \in 1..n : \A a \in A[i - 1] : Unknown(a, records[i], known) \in A[i]
  BY <1>1, <1>2, <1>4, <1>5
<1> QED BY <1>1, <1>6, <1>7, OpenFold DEF S

LEMMA ConfirmedIn ==
  ASSUME NEW R, NEW X, Holds(R, X), NEW records \in Seq(R)
  PROVE  Undos(confirmed(records)) \in Seq(Seq(X))
<1> DEFINE n == Len(records)
           E == [seq : Nat, undo : Seq(X)]
           P == UNION {[D -> Seq(X)] : D \in SUBSET Nat}
           S == [prepared : P, list : Seq(E)]
           A == [i \in 0..n |-> S]
           base == [prepared |-> <<>>, list |-> <<>>]
<1>1. n \in Nat /\ \A i \in 1..n : records[i] \in R
  OBVIOUS
<1>2. ASSUME NEW a \in S, NEW r \in R PROVE Confirm(a, r) \in S
  <2>1. PICK D \in SUBSET Nat : a.prepared \in [D -> Seq(X)]
    OBVIOUS
  <2>2. DOMAIN a.prepared = D /\ a.list \in Seq(E)
    BY <2>1
  <2>3. a = [prepared |-> a.prepared, list |-> a.list]
    OBVIOUS
  <2>4. CASE r.rec = "Prepared"
    <3>1. r.seq \in Nat /\ r.undo \in Seq(X)
      BY <2>4 DEF Holds
    <3> DEFINE Q == [m \in D \cup {r.seq} |-> IF m = r.seq THEN r.undo ELSE a.prepared[m]]
    <3>2. Q \in [D \cup {r.seq} -> Seq(X)] /\ D \cup {r.seq} \in SUBSET Nat
      BY <2>1, <3>1
    <3>3. Q \in P
      BY <3>2
    <3>4. Confirm(a, r) = [a EXCEPT !.prepared = Q]
      BY <2>2, <2>4 DEF Confirm
    <3> HIDE DEF Q, P, E
    <3> QED BY <3>3, <3>4
  <2>5. CASE r.rec = "Done" /\ r.seq \in DOMAIN a.prepared
    <3>1. [seq |-> r.seq, undo |-> a.prepared[r.seq]] \in E
      BY <2>1, <2>2, <2>5
    <3>2. Confirm(a, r) = [a EXCEPT !.list = Append(@, [seq |-> r.seq, undo |-> a.prepared[r.seq]])]
      BY <2>5 DEF Confirm
    <3> DEFINE e == [seq |-> r.seq, undo |-> a.prepared[r.seq]]
    <3> HIDE DEF E, e, P
    <3>3. Append(a.list, e) \in Seq(E)
      BY <2>2, <3>1 DEF e
    <3> QED BY <3>2, <3>3 DEF e
  <2>6. CASE r.rec = "Settled"
    <3>1. [seq |-> r.seq, undo |-> r.undo] \in E
      BY <2>6 DEF Holds
    <3>2. Confirm(a, r) = [a EXCEPT !.list = Append(@, [seq |-> r.seq, undo |-> r.undo])]
      BY <2>6 DEF Confirm
    <3> DEFINE e == [seq |-> r.seq, undo |-> r.undo]
    <3> HIDE DEF E, e, P
    <3>3. Append(a.list, e) \in Seq(E)
      BY <2>2, <3>1 DEF e
    <3> QED BY <3>2, <3>3 DEF e
  <2>7. CASE r.rec # "Prepared" /\ ~(r.rec = "Done" /\ r.seq \in DOMAIN a.prepared)
             /\ r.rec # "Settled"
    <3>1. Confirm(a, r) = a
      BY <2>7 DEF Confirm
    <3> QED BY <3>1
  <2> QED BY <2>4, <2>5, <2>6, <2>7
<1>3. base \in S
  <2>1. <<>> \in [{} -> Seq(X)]
    OBVIOUS
  <2>2. <<>> \in P
    BY <2>1
  <2>3. <<>> \in Seq(E)
    OBVIOUS
  <2> HIDE DEF P, E
  <2> QED BY <2>2, <2>3
<1> HIDE DEF S, base
<1>4. \A i \in 0..n : A[i] = S
  OBVIOUS
<1>5. \A i \in 1..n : i \in 0..n /\ i - 1 \in 0..n
  BY <1>1
<1> HIDE DEF A
<1>6. base \in A[0] /\ A[n] = S
  BY <1>1, <1>3, <1>4
<1>7. \A i \in 1..n : \A a \in A[i - 1] : Confirm(a, records[i]) \in A[i]
  BY <1>1, <1>2, <1>4, <1>5
<1>8. Fold(Confirm, base, records) \in S
  BY <1>1, <1>6, <1>7, ConfirmFold
<1>9. confirmed(records) \in Seq(E)
  BY <1>8 DEF confirmed, base, S
<1> DEFINE list == confirmed(records)
<1> HIDE DEF list
<1>10. list \in Seq(E) /\ \A e \in E : e.undo \in Seq(X)
  BY <1>9 DEF list
<1> HIDE DEF E
<1>11. DOMAIN list = 1..Len(list) /\ Len(list) \in Nat /\ \A i \in 1..Len(list) : list[i].undo \in Seq(X)
  BY <1>10
<1>12. Undos(list) \in Seq(Seq(X))
  BY <1>11 DEF Undos
<1> QED BY <1>12 DEF list

LEMMA LatestIn ==
  ASSUME NEW R, NEW X, Holds(R, X), NEW records \in Seq(R)
  PROVE  Undos(latest(records)) \in Seq(Seq(X))
<1> DEFINE known == {confirmed(records)[i].seq : i \in DOMAIN confirmed(records)}
                    \cup {r.seq : r \in ToSet(OfKind(records, "Failed"))}
           P == {r \in R : r.rec = "Prepared"}
           open == Opened(OfKind(records, "Prepared"), known)
           n == Len(open)
           S == Seq(P)
           A == [i \in 0..n |-> S]
<1>1. open \in Seq(P)
  <2>1. OfKind(records, "Prepared") \in Seq(P)
    BY OfKindIn
  <2> HIDE DEF P, known
  <2> QED BY <2>1, OpenIn
<1>2. \A r \in P : r.undo \in Seq(X)
  BY DEF Holds
<1>3. latest(records) = Fold(Announce, <<>>, open)
  BY DEF latest, Opened
<1> HIDE DEF open, P, known
<1>4. n \in Nat /\ \A i \in 1..n : open[i] \in P
  BY <1>1
<1>5. ASSUME NEW a \in S, NEW r \in P PROVE Announce(a, r) \in S
  <2>1. DOMAIN a = 1..Len(a) /\ Len(a) \in Nat /\ \A i \in 1..Len(a) : a[i] \in P
    OBVIOUS
  <2>2. Append(a, r) \in Seq(P)
    OBVIOUS
  <2>3. [i \in DOMAIN a |-> IF a[i].seq = r.seq THEN r ELSE a[i]] \in Seq(P)
    BY <2>1
  <2> QED BY <2>2, <2>3 DEF Announce
<1>6. <<>> \in S
  OBVIOUS
<1> HIDE DEF S
<1>7. \A i \in 0..n : A[i] = S
  OBVIOUS
<1> HIDE DEF A
<1>8. \A i \in 1..n : i \in 0..n /\ i - 1 \in 0..n
  BY <1>4
<1>9. <<>> \in A[0] /\ A[n] = S
  BY <1>4, <1>6, <1>7
<1>10. \A i \in 1..n : \A a \in A[i - 1] : Announce(a, open[i]) \in A[i]
  BY <1>4, <1>5, <1>7, <1>8
<1>11. Fold(Announce, <<>>, open) \in S
  BY <1>4, <1>9, <1>10, AnnounceFold
<1> DEFINE list == latest(records)
<1> HIDE DEF list, n
<1>12. list \in Seq(P)
  BY <1>3, <1>11 DEF list, S
<1>13. DOMAIN list = 1..Len(list) /\ Len(list) \in Nat /\ \A i \in 1..Len(list) : list[i].undo \in Seq(X)
  BY <1>2, <1>12
<1>14. Undos(list) \in Seq(Seq(X))
  BY <1>13 DEF Undos
<1> QED BY <1>14 DEF list

LEMMA CancelIn ==
  ASSUME NEW X, NEW Y, NEW list \in Seq(X), NEW reverted \in Seq(Y)
  PROVE  Fold(Cancel, [reverted |-> reverted, left |-> <<>>], list) \in [reverted : Seq(Y), left : Seq(X)]
<1> DEFINE n == Len(list)
           S == [reverted : Seq(Y), left : Seq(X)]
           A == [i \in 0..n |-> S]
           base == [reverted |-> reverted, left |-> <<>>]
<1>1. n \in Nat /\ \A i \in 1..n : list[i] \in X
  OBVIOUS
<1>2. ASSUME NEW a \in S, NEW x \in X PROVE Cancel(a, x) \in S
  <2>1. a.reverted \in Seq(Y) /\ a.left \in Seq(X)
    OBVIOUS
  <2>2. RemoveFirst(a.reverted, x) \in Seq(Y) /\ Append(a.left, x) \in Seq(X)
    BY <2>1, RemoveFirstIn
  <2> QED BY <2>1, <2>2 DEF Cancel
<1>3. base \in S
  OBVIOUS
<1> HIDE DEF S, base
<1>4. \A i \in 0..n : A[i] = S
  OBVIOUS
<1> HIDE DEF A
<1>5. \A i \in 1..n : i \in 0..n /\ i - 1 \in 0..n
  BY <1>1
<1>6. base \in A[0] /\ A[n] = S
  BY <1>1, <1>3, <1>4
<1>7. \A i \in 1..n : \A a \in A[i - 1] : Cancel(a, list[i]) \in A[i]
  BY <1>1, <1>2, <1>4, <1>5
<1>8. Fold(Cancel, base, list) \in S
  BY <1>1, <1>6, <1>7, CancelFold
<1> QED BY <1>8 DEF S, base

LEMMA StillIn ==
  ASSUME NEW R, NEW X, NEW records \in Seq(R), NEW undos \in Seq(Seq(X))
  PROVE  still(records, undos) \in Seq(Seq(X)) /\ Len(still(records, undos)) = Len(undos)
<1> DEFINE n == Len(undos)
           done == OfKind(records, "Reverted")
           Y == {done[i].action : i \in DOMAIN done}
           reverted == [i \in DOMAIN done |-> done[i].action]
           S(i) == [reverted : Seq(Y), lists : {l \in Seq(Seq(X)) : Len(l) = i}]
           A == [i \in 0..n |-> S(i)]
           base == [reverted |-> reverted, lists |-> <<>>]
<1>1. n \in Nat /\ \A i \in 1..n : undos[i] \in Seq(X)
  OBVIOUS
<1>2. reverted \in Seq(Y)
  <2>1. done \in Seq({r \in R : r.rec = "Reverted"})
    BY OfKindIn
  <2> HIDE DEF done
  <2>2. DOMAIN done = 1..Len(done) /\ Len(done) \in Nat
    BY <2>1
  <2> QED BY <2>2
<1>3. still(records, undos) = Fold(Still, base, undos).lists
  BY DEF still
<1> HIDE DEF done, Y, reverted
<1>4. ASSUME NEW i \in 1..n, NEW a \in S(i - 1), NEW u \in Seq(X) PROVE Still(a, u) \in S(i)
  <2>1. /\ a.reverted \in Seq(Y) /\ a.lists \in Seq(Seq(X)) /\ Len(a.lists) = i - 1
        /\ i \in Nat /\ (i - 1) + 1 = i
    BY <1>1
  <2> DEFINE end == Fold(Cancel, [reverted |-> a.reverted, left |-> <<>>], u)
  <2>2. end \in [reverted : Seq(Y), left : Seq(X)]
    BY <2>1, CancelIn
  <2>3. Still(a, u) = [reverted |-> end.reverted, lists |-> Append(a.lists, end.left)]
    BY DEF Still
  <2> HIDE DEF end
  <2>4. end.reverted \in Seq(Y) /\ end.left \in Seq(X)
    BY <2>2
  <2> DEFINE T == Seq(X)
             left == end.left
  <2>5. left \in T /\ a.lists \in Seq(T)
    BY <2>1, <2>4
  <2> HIDE DEF T, left
  <2>6. Append(a.lists, left) \in Seq(T) /\ Len(Append(a.lists, left)) = i
    BY <2>1, <2>5
  <2> QED BY <2>3, <2>4, <2>6 DEF T, left
<1>5. base \in S(0)
  BY <1>2
<1> HIDE DEF S, base
<1>6. \A i \in 0..n : A[i] = S(i)
  OBVIOUS
<1> HIDE DEF A
<1>7. \A i \in 1..n : i \in 0..n /\ i - 1 \in 0..n
  BY <1>1
<1>8. base \in A[0] /\ A[n] = S(n)
  BY <1>1, <1>5, <1>6
<1>9. \A i \in 1..n : \A a \in A[i - 1] : Still(a, undos[i]) \in A[i]
  BY <1>1, <1>4, <1>6, <1>7
<1>10. Fold(Still, base, undos) \in S(n)
  BY <1>1, <1>8, <1>9, StillFold
<1> QED BY <1>3, <1>10 DEF S

(* What recovery undoes is what the journal announced, and it finishes a   *)
(* commit only if one is on record.                                        *)
LEMMA RecoverIn ==
  ASSUME NEW R, NEW X, Holds(R, X), NEW records \in Seq(R)
  PROVE  /\ recover(records).does \in {"Nothing", "RollBack", "FinishCommit"}
         /\ recover(records).does = "RollBack" =>
              recover(records).uncertain \in Seq(X) /\ recover(records).certain \in Seq(X)
         /\ recover(records).does = "FinishCommit" => Contains(records, Committing)
<1> DEFINE sure == Undos(confirmed(records))
           late == Undos(latest(records))
           all == sure \o late
           lists == still(records, all)
           certain == rollback_order(SubSeq(lists, 1, Len(sure)))
           doubtful == SubSeq(lists, Len(sure) + 1, Len(lists))
           uncertain == FlattenSeq([i \in DOMAIN doubtful |-> rollback_order(<<doubtful[i]>>)])
<1>1. recover(records) =
        CASE Contains(records, Ended) -> Nothing
          [] Contains(records, Committing) /\ ~Contains(records, Ended) ->
               FinishCommit(pending(records))
          [] OTHER ->
               IF uncertain = <<>> /\ certain = <<>> THEN Nothing
               ELSE RollBack(uncertain, certain)
  BY DEF recover
<1>2. sure \in Seq(Seq(X)) /\ late \in Seq(Seq(X))
  BY ConfirmedIn, LatestIn
<1> HIDE DEF sure, late
<1>3. all \in Seq(Seq(X)) /\ Len(sure) \in Nat /\ Len(late) \in Nat
      /\ Len(all) = Len(sure) + Len(late)
  BY <1>2
<1> HIDE DEF all
<1>4. lists \in Seq(Seq(X)) /\ Len(lists) = Len(sure) + Len(late)
  BY <1>3, StillIn
<1> HIDE DEF lists
<1>5. SubSeq(lists, 1, Len(sure)) \in Seq(Seq(X)) /\ doubtful \in Seq(Seq(X))
  <2> DEFINE T == Seq(X)
  <2>1. lists \in Seq(T)
    BY <1>4
  <2> HIDE DEF T
  <2>2. \A i \in 1..Len(lists) : lists[i] \in T
    BY <2>1
  <2>3. SubSeq(lists, 1, Len(sure)) \in Seq(T)
    BY <1>3, <1>4, <2>2
  <2>4. SubSeq(lists, Len(sure) + 1, Len(lists)) \in Seq(T)
    BY <1>3, <1>4, <2>2
  <2> QED BY <2>3, <2>4 DEF T
<1>6. certain \in Seq(X)
  BY <1>5, RollbackIn
<1> HIDE DEF doubtful
<1>7. uncertain \in Seq(X)
  BY <1>5, EachIn
<1> HIDE DEF certain, uncertain
<1> QED BY <1>1, <1>6, <1>7 DEF Nothing, FinishCommit, RollBack

(* The backups a commit has to delete are those of the undos of X.         *)
LEMMA PendingIn ==
  ASSUME NEW R, NEW X, NEW Y, Holds(R, X), NEW records \in Seq(R),
         \A a \in X : from[a] # NoPath => from[a] \in Y
  PROVE  ToSet(pending(records)) \subseteq Y
<1> DEFINE all == FlattenSeq(Undos(confirmed(records)))
           n == Len(all)
           Z == {a \in X : from[a] # NoPath}
           S == Seq(Z)
           A == [i \in 0..n |-> S]
           restores == Restores(all)
<1>1. all \in Seq(X)
  BY ConfirmedIn, FlattenIn
<1>2. pending(records) = [i \in DOMAIN restores |-> from[restores[i]]]
  BY DEF pending, Restores
<1> HIDE DEF all
<1>3. n \in Nat /\ \A i \in 1..n : all[i] \in X
  BY <1>1
<1>4. ASSUME NEW a \in S, NEW x \in X PROVE Put(a, x) \in S
  BY DEF Put
<1>5. <<>> \in S
  OBVIOUS
<1> HIDE DEF S
<1>6. \A i \in 0..n : A[i] = S
  OBVIOUS
<1> HIDE DEF A
<1>7. \A i \in 1..n : i \in 0..n /\ i - 1 \in 0..n
  BY <1>3
<1>8. <<>> \in A[0] /\ A[n] = S
  BY <1>3, <1>5, <1>6
<1>9. \A i \in 1..n : \A a \in A[i - 1] : Put(a, all[i]) \in A[i]
  BY <1>3, <1>4, <1>6, <1>7
<1>10. restores \in Seq(Z)
  BY <1>3, <1>8, <1>9, RestoreFold DEF S
<1> HIDE DEF restores
<1>11. \A i \in DOMAIN restores : from[restores[i]] \in Y
  BY <1>10
<1> DEFINE p == [i \in DOMAIN restores |-> from[restores[i]]]
<1>12. ToSet(p) \subseteq Y
  BY <1>11 DEF ToSet
<1> QED BY <1>2, <1>12

-----------------------------------------------------------------------------
(* 2. The driver and the runner.  A step of the driver is a step of the    *)
(* runner or leaves it alone.  What that needs to know is Fed: the runner  *)
(* is handed actions of the plan only, and between the announcement of an  *)
(* action and its answer it is waiting for that answer.                    *)

(* The queue holds actions of the plan, one at least while one is awaited. *)
Queued ==
    phase.at = "Executing" =>
      /\ phase.queue \in Seq(PlanAction)
      /\ phase.awaiting => phase.queue # <<>>

(* The driver is in the middle of what the runner waits for; an action     *)
(* that announced does so under a number there is.                         *)
Acting ==
    mode = "running" =>
      \/ io = "opening" /\ phase.at = "Opening"
      \/ io = "idle"
      \/ io \in {"announced", "acted"} /\ Performing /\ seq < MaxActs /\ announced \in UndoLists
      \/ io = "reverted" /\ Reverting
      \/ io \in {"committing", "incomplete"} /\ CommitAsked

Fed ==
    /\ Inv
    /\ signalled \in BOOLEAN /\ seq \in Nat
    /\ Queued /\ Acting

USE DriveAssumption, DrivePlansAssumption

LEMMA Announces ==
  ASSUME Fed, Performing, seq < MaxActs
  PROVE  announces \in UndoLists /\ returns \in UndoLists /\ <<>> \in UndoLists
<1>1. action \in PlanAction
  BY DEF Fed, Queued, Performing, action
<1>2. number \in 1..MaxActs
  BY DEF Fed, number, DriveAssumption
<1>3. announces \in DriveUndoLists
  <2>1. CASE \E p \in Place : action = PutFile(p)
    BY <1>2, <2>1 DEF announces, DriveUndoLists, PutFile
  <2>2. CASE action = InstallUnit
    BY <1>2, <2>2 DEF announces, DriveUndoLists, InstallUnit
  <2>3. CASE action \in {Reloads, Starts, Stops, Discard, RecordState}
    BY <2>3 DEF announces, DriveUndoLists, Reloads, Starts, Stops, Discard, RecordState
  <2> QED BY <1>1, <2>1, <2>2, <2>3 DEF PlanAction
<1>4. returns \in DriveUndoLists
  BY <1>2, <1>3 DEF returns, DriveUndoLists
<1> QED BY <1>3, <1>4 DEF DriveUndoLists, DrivePlansAssumption

(* Every step of the driver is one of the runner, or the runner rests.     *)
LEMMA DrivesRunner == ASSUME Fed, [Next]_vars PROVE [RunnerNext]_runnerVars
<1> USE DEF Fed
<1>1. CASE Step
  BY <1>1 DEF Step, RunnerNext
<1>2. CASE Begin
  BY <1>2 DEF Begin, RunnerNext, Answer
<1>3. CASE Observe
  BY <1>3 DEF Observe, RunnerNext, Answer
<1>4. CASE \E how \in Hows : Prepare(how)
  BY <1>4, Announces DEF Prepare, RunnerNext, Answer, runnerVars
<1>5. CASE \E how \in Hows : Succeed(how)
  BY <1>5, Announces DEF Succeed, Running, Acting, RunnerNext, Answer
<1>6. CASE \E how \in Hows : Satisfied(how)
  BY <1>6, Announces DEF Satisfied, RunnerNext, Answer
<1>7. CASE Fail
  <2> DEFINE doubt == IF io = "idle" THEN <<>> ELSE announced
  <2>1. PerformFailed(doubt, signalled) \/ (~shielded /\ PerformCancelled(doubt))
    BY <1>7 DEF Fail, stopped_by
  <2>2. doubt \in UndoLists
    BY <1>7, Announces DEF Fail, Running, Acting, Performing, Reverting, CommitAsked
  <2> QED BY <2>1, <2>2 DEF RunnerNext, Answer
<1>8. CASE RevertFails \/ \E how \in Hows : KeepReverted(how)
  BY <1>8 DEF RevertFails, KeepReverted, RunnerNext, Answer
<1>9. CASE CommitFails \/ \E how \in Hows : RecordCommit(how) \/ CommitDone(how)
  BY <1>9 DEF CommitFails, RecordCommit, CommitDone, RunnerNext, Answer, runnerVars
<1>10. CASE CommitStopped
  BY <1>10 DEF CommitStopped, stopped_by, RunnerNext, Answer
<1>11. CASE \/ Effect \/ Revert \/ DeleteBackup \/ DeleteDiscard \/ LeavePath \/ Return
            \/ \E how \in Hows : Create(how) \/ EndJournal(how)
  BY <1>11 DEF Effect, Revert, DeleteBackup, DeleteDiscard, LeavePath, Return, Create, EndJournal,
               runnerVars
<1>12. CASE Recovering \/ Recover(TRUE)
  BY <1>12 DEF Recovering, Recover, RecoverUndo, RecoverFails, Recovered, FinishBackup,
               FinishFails, Finished, RecoverReverted, runnerVars
<1>13. CASE Crash \/ Interrupt \/ Rest \/ UNCHANGED vars
  BY <1>13 DEF Crash, Interrupt, Rest, vars, runnerVars
<1> QED BY <1>1, <1>2, <1>3, <1>4, <1>5, <1>6, <1>7, <1>8, <1>9, <1>10, <1>11, <1>12, <1>13
        DEF Next, Request

(* What else is kept, action by action.                                    *)
LEMMA QueuedKept == ASSUME Fed, [RunnerNext]_runnerVars PROVE Queued'
<1>1. CASE UNCHANGED runnerVars
  BY <1>1 DEF runnerVars, Fed, Queued
<1>2. CASE Ask
  BY <1>2 DEF Ask, Checking, Queued
<1>3. CASE Act
  BY <1>3 DEF Act, Fed, Queued, Executing
<1>4. ASSUME NEW q \in Plans[phase.step], NEW c \in BOOLEAN, Facts(q, c)
      PROVE  Queued'
  <2>1. phase.step \in Steps
    BY <1>4 DEF Fed, Inv, InChecking, Facts, Asked
  <2>2. q \in Seq(PlanAction)
    BY <2>1 DEF DrivePlansAssumption
  <2> QED BY <1>4, <2>2 DEF Facts, next_step, Checking, Executing, Queued
<1>5. ASSUME NEW u, NEW c \in BOOLEAN, Performed(u, c)
      PROVE  Queued'
  <2>1. Tail(phase.queue) \in Seq(PlanAction)
    BY <1>5 DEF Performed, Performing, Fed, Queued
  <2> QED BY <1>5, <2>1 DEF Performed, Executing, Queued
<1>6. CASE ~Busy'
  BY <1>6 DEF Busy, Queued
<1> QED BY <1>1, <1>2, <1>3, <1>4, <1>5, <1>6, Moves DEF Fed

(* Recovery never goes back to the request.                                *)
LEMMA StaysOver == ASSUME Next, mode' = "running" PROVE mode = "running"
<1>1. ASSUME NEW l, Recover(l) PROVE mode' # "running"
  <2>1. recover(log).does \in {"Nothing", "RollBack", "FinishCommit"}
    BY DEF recover, Nothing, FinishCommit, RollBack
  <2> QED BY <1>1, <2>1 DEF Recover
<1>2. CASE Request
  BY <1>2 DEF Request, Running, Create, Step, Begin, Observe, Prepare, Effect, Succeed, Satisfied,
              Fail, Revert, KeepReverted, RevertFails, RecordCommit, DeleteBackup, DeleteDiscard,
              LeavePath, commits, CommitDone, CommitFails, CommitStopped, EndJournal, Return
<1>3. CASE Recovering
  BY <1>1, <1>3 DEF Recovering, RecoverUndo, RecoverReverted, RecoverFails, Recovered,
                    FinishBackup, FinishFails, Finished
<1>4. CASE Crash \/ Interrupt \/ Rest
  BY <1>4 DEF Crash, Interrupt, Running, Rest, vars
<1> QED BY <1>1, <1>2, <1>3, <1>4 DEF Next

LEMMA ActingKept == ASSUME Fed, [Next]_vars PROVE Acting'
<1> USE DEF Fed
<1> SUFFICES ASSUME mode' = "running", Next PROVE Acting'
  BY DEF Acting, vars, runnerVars, driver, Performing, Reverting, CommitAsked
<1>1. mode = "running"
  BY StaysOver
<1>2. CASE Step
  <2>1. Internal /\ io' = io
    BY <1>2 DEF Step, driver
  <2>2. ~Performing /\ ~Reverting /\ ~CommitAsked /\ phase.at # "Opening"
    BY <2>1 DEF Internal, Advance, CancelBeforeStep, Block, Ask, CancelStep, FinishStep, Act,
                AfterRollback, UndoStep, UndoAct, UndoneStep, StartCommit, Finish, Resting, Undoing,
                Performing, Reverting, CommitAsked, Inv, RunnerTypeOK, PhaseOK
  <2> QED BY <1>1, <2>1, <2>2 DEF Acting
<1>3. CASE Begin \/ Observe
  <2>1. CASE Begin
    BY <2>1 DEF Begin, driver, Acting
  <2>2. CASE Observe
    <3>1. phase.at = "Checking"
      BY <2>2 DEF Observe, NoFacts, Asked
    <3>2. io = "idle" /\ io' = io
      BY <1>1, <2>2, <3>1 DEF Observe, driver, Acting, Performing, Reverting, CommitAsked
    <3> QED BY <3>2 DEF Acting
  <2> QED BY <1>3, <2>1, <2>2
<1>4. CASE \E how \in Hows : Prepare(how)
  <2>1. Performing /\ seq < MaxActs
    BY <1>4 DEF Prepare
  <2>2. \/ io' = "idle"
        \/ io' = "announced" /\ announced' = announces /\ UNCHANGED <<runnerVars, seq>>
    BY <1>4 DEF Prepare
  <2> QED BY <2>1, <2>2, Announces DEF Acting, runnerVars, Performing
<1>5. CASE Effect
  BY <1>1, <1>5 DEF Effect, Acting, runnerVars, Performing, Reverting, CommitAsked
<1>6. CASE \/ Fail \/ CommitFails \/ CommitStopped \/ Return \/ RevertFails
           \/ \E how \in Hows : \/ Create(how) \/ Succeed(how) \/ Satisfied(how)
                                \/ KeepReverted(how) \/ CommitDone(how) \/ EndJournal(how)
  BY <1>6 DEF Create, Fail, CommitFails, CommitStopped, Return, RevertFails, Succeed, Satisfied,
              KeepReverted, CommitDone, EndJournal, numbered, driver, Acting
<1>7. CASE Revert
  BY <1>7 DEF Revert, Acting, runnerVars, Reverting
<1>8. CASE \E how \in Hows : RecordCommit(how)
  BY <1>8 DEF RecordCommit, Acting, runnerVars, CommitAsked
<1>9. CASE DeleteBackup \/ DeleteDiscard \/ LeavePath
  <2>1. CommitAsked
    BY <1>1, <1>9 DEF DeleteBackup, DeleteDiscard, LeavePath, commits, Acting
  <2> QED BY <1>1, <1>9, <2>1 DEF DeleteBackup, DeleteDiscard, LeavePath, commits, Acting, driver,
                                  runnerVars, CommitAsked
<1>10. CASE Recovering \/ Recover(TRUE) \/ Crash
  BY <1>1, <1>10 DEF Recovering, Recover, RecoverUndo, RecoverReverted, RecoverFails, Recovered,
                     FinishBackup, FinishFails, Finished, Crash
<1>11. CASE Interrupt \/ Rest
  BY <1>1, <1>11 DEF Interrupt, Rest, Acting, runnerVars, Performing, Reverting, CommitAsked
<1> QED BY <1>2, <1>3, <1>4, <1>5, <1>6, <1>7, <1>8, <1>9, <1>10, <1>11 DEF Next, Request

LEMMA NumbersKept == ASSUME Fed, [Next]_vars PROVE signalled' \in BOOLEAN /\ seq' \in Nat
<1> USE DEF Fed
<1>1. CASE UNCHANGED <<seq, signalled>>
  BY <1>1
<1>2. CASE Interrupt \/ UNCHANGED driver
  BY <1>2 DEF Interrupt, driver
<1>3. ASSUME NEW how \in Hows, Prepare(how) \/ Succeed(how) \/ Satisfied(how)
      PROVE  signalled' \in BOOLEAN /\ seq' \in Nat
  BY <1>3 DEF Prepare, Succeed, Satisfied, numbered
<1>4. CASE Fail
  BY <1>4 DEF Fail, numbered
<1>5. CASE \/ Step \/ Begin \/ Observe \/ RevertFails \/ DeleteBackup \/ DeleteDiscard \/ Return
           \/ Rest \/ UNCHANGED vars
  BY <1>2, <1>5 DEF Step, Begin, Observe, RevertFails, DeleteBackup, DeleteDiscard, Return, Rest,
                    vars
<1>6. CASE \/ Effect \/ Revert \/ LeavePath \/ CommitFails \/ CommitStopped \/ Crash
           \/ \E how \in Hows : \/ Create(how) \/ KeepReverted(how) \/ RecordCommit(how)
                                \/ CommitDone(how) \/ EndJournal(how)
  BY <1>1, <1>6 DEF Effect, Revert, LeavePath, CommitFails, CommitStopped, Crash, Create,
                    KeepReverted, RecordCommit, CommitDone, EndJournal
<1>7. CASE Recovering \/ Recover(TRUE)
  <2>1. ASSUME NEW l, Recover(l) PROVE UNCHANGED driver
    BY <2>1 DEF Recover
  <2>2. CASE RecoverUndo \/ \E how \in Hows : RecoverReverted(how)
    BY <1>1, <2>2 DEF RecoverUndo, RecoverReverted
  <2>3. CASE RecoverFails \/ Recovered \/ FinishBackup \/ FinishFails \/ Finished
    BY <1>2, <2>3 DEF RecoverFails, Recovered, FinishBackup, FinishFails, Finished
  <2> QED BY <1>2, <1>7, <2>1, <2>2, <2>3 DEF Recovering
<1> QED BY <1>2, <1>3, <1>4, <1>5, <1>6, <1>7 DEF Next, Request

LEMMA FedKept == ASSUME Fed, [Next]_vars PROVE Fed'
  BY DrivesRunner, NextInv, QueuedKept, ActingKept, NumbersKept DEF Fed

(* What drive() is in the middle of is always what the runner asked for.   *)
THEOREM FedAlways == Spec => []Fed
<1>1. ASSUME Init PROVE Fed
  <2>1. Inv /\ phase.at = "Opening"
    BY <1>1, InitInv DEF Init, RunnerInit, Opening
  <2> QED BY <1>1, <2>1 DEF Init, Fed, Queued, Acting
<1> QED BY <1>1, FedKept, PTL DEF Spec

(* The driver implements the runner: it gives it no answer that Answer     *)
(* does not allow, in particular no cancelled answer for what is shielded, *)
(* and changes nothing of the runner's between two answers (drive()).      *)
THEOREM DriveImplementsRunner == Spec => RunnerSpec
<1>1. Init => RunnerInit
  BY DEF Init
<1> QED BY <1>1, FedAlways, DrivesRunner, PTL DEF Spec, RunnerSpec

(* So what is proved of the runner holds of every request, whatever fails, *)
(* stops it or crashes on the way: a plan that closes is whole or undone.  *)
THEOREM RequestsAreAtomic == Spec => []PlanIsAtomic
  BY DriveImplementsRunner, WholePlans, PTL

(* And its undos are performed from the last step backwards.               *)
THEOREM RequestsUndoBackwards == Spec => []NewestStepFirst
  BY DriveImplementsRunner, Backwards, PTL

-----------------------------------------------------------------------------
(* 3. Types.  What the runner undoes: actions of undo lists, and at least  *)
(* one while it waits for one.                                             *)

AreUndos(lists) == \A s \in Steps : lists[s] \in Seq(Seq(DriveAction))

Undoable ==
    /\ AreUndos(journal) /\ AreUndos(doubts)
    /\ phase.at = "RollingBack" =>
         /\ phase.queue \in Seq(DriveAction) /\ phase.doubtful \in Seq(DriveAction)
         /\ phase.current = NoStep => ~phase.awaiting
         /\ phase.awaiting => IF phase.doubting THEN phase.doubtful # <<>> ELSE phase.queue # <<>>

LEMMA UndoableKept == ASSUME Inv, Undoable, [RunnerNext]_runnerVars PROVE Undoable'
<1> DEFINE Fresh == phase'.at # "RollingBack" \/ \E R : phase' = RollingBack(R)
<1> USE DEF AreUndos
<1>1. ASSUME Fresh, AreUndos(journal)', AreUndos(doubts)' PROVE Undoable'
  <2>1. ASSUME NEW R, phase' = RollingBack(R)
        PROVE  phase'.queue = <<>> /\ phase'.doubtful = <<>> /\ ~phase'.awaiting
    BY <2>1 DEF RollingBack
  <2>2. <<>> \in Seq(DriveAction)
    OBVIOUS
  <2> QED BY <1>1, <2>1, <2>2 DEF Undoable
<1>2. ASSUME Fresh, journal' = journal, doubts' = doubts PROVE Undoable'
  BY <1>1, <1>2 DEF Undoable
<1>3. ASSUME NEW d, NEW s, fail(d, s) PROVE Fresh
  BY <1>3 DEF fail, roll_back, roll_back_only
<1>4. ASSUME NEW d, NEW s, cancel(d, s) PROVE Fresh
  BY <1>4 DEF cancel, roll_back, roll_back_only, finish_or_commit, Closing, CommittingPhase
<1>5. CASE Internal
  <2>1. CASE UndoStep
    <3>1. PICK s \in phase.remaining :
            /\ phase' = [phase EXCEPT !.remaining = @ \ {s}, !.current = s,
                           !.queue = rollback_order(journal[s]),
                           !.doubtful = each_in_order(doubts[s])]
            /\ journal' = [journal EXCEPT ![s] = <<>>]
            /\ doubts' = [doubts EXCEPT ![s] = <<>>]
      BY <2>1 DEF UndoStep
    <3>2. s \in Steps /\ DOMAIN journal = Steps /\ DOMAIN doubts = Steps /\ phase.at = "RollingBack"
      BY <2>1 DEF Inv, RunnerTypeOK, PhaseOK, StateOK, UndoStep, Resting
    <3>3. journal[s] \in Seq(Seq(DriveAction)) /\ doubts[s] \in Seq(Seq(DriveAction))
      BY <3>2 DEF Undoable
    <3>4. rollback_order(journal[s]) \in Seq(DriveAction) /\ each_in_order(doubts[s]) \in Seq(DriveAction)
      BY <3>3, RollbackIn, EachIn
    <3>5. AreUndos(journal)' /\ AreUndos(doubts)'
      BY <3>1, <3>2 DEF Undoable
    <3>6. ~phase.awaiting
      BY <2>1 DEF UndoStep, Resting, Undoable
    <3> QED BY <3>1, <3>2, <3>4, <3>5, <3>6 DEF Undoable, Inv, Shape
  <2>2. CASE UndoAct
    BY <2>2 DEF UndoAct, Undoing, Undoable, Inv, Shape
  <2>3. CASE Advance \/ Block \/ Ask \/ FinishStep \/ Act
    BY <1>2, <2>3 DEF Advance, Block, Ask, FinishStep, Act, finish_or_commit, next_step, Checking,
                      Executing, Closing, CommittingPhase
  <2>4. CASE CancelBeforeStep \/ CancelStep
    BY <1>2, <1>4, <2>4 DEF CancelBeforeStep, CancelStep
  <2>5. CASE AfterRollback \/ UndoneStep \/ StartCommit \/ Finish
    BY <1>2, <2>5 DEF AfterRollback, UndoneStep, StartCommit, Finish, finish_or_commit, Checking,
                      Closing, Closed, CommittingPhase
  <2> QED BY <1>5, <2>1, <2>2, <2>3, <2>4, <2>5 DEF Internal
<1>6. ASSUME NEW u \in UndoLists, Performing PROVE AreUndos(in_doubt(u))
  <2>1. phase.step \in Steps /\ DOMAIN doubts = Steps /\ u \in Seq(DriveAction)
    BY <1>6, DrivePlansAssumption
    DEF Inv, RunnerTypeOK, PhaseOK, StateOK, Performing, DrivePlansAssumption
  <2>2. doubts[phase.step] \in Seq(Seq(DriveAction))
    BY <2>1 DEF Undoable
  <2>3. Append(doubts[phase.step], u) \in Seq(Seq(DriveAction))
    BY <2>1, <2>2
  <2> QED BY <2>1, <2>3 DEF in_doubt, Undoable
<1>7. CASE Answer
  <2>1. PICK c \in BOOLEAN :
          \/ Open(c)
          \/ Asked /\ \E q \in Plans[phase.step] : Facts(q, c)
          \/ NoFacts(c)
          \/ \E u \in UndoLists : Performed(u, c) \/ PerformFailed(u, c)
          \/ \E u \in UndoLists : ~shielded /\ PerformCancelled(u)
          \/ \E ok \in BOOLEAN : Undone(ok, c)
          \/ Committed(c)
          \/ ~shielded /\ CommitCancelled
    BY <1>7 DEF Answer
  <2>2. CASE Open(c) \/ Committed(c) \/ CommitCancelled
    BY <1>2, <2>2 DEF Open, Committed, CommitCancelled, Checking, Closing
  <2>3. CASE \E q \in Plans[phase.step] : Facts(q, c)
    BY <1>2, <2>3 DEF Facts, Checking, Executing, next_step
  <2>4. CASE NoFacts(c)
    BY <1>2, <1>3, <2>4 DEF NoFacts
  <2>5. ASSUME NEW u \in UndoLists, Performed(u, c) PROVE Undoable'
    <3>1. phase.step \in Steps /\ DOMAIN journal = Steps /\ u \in Seq(DriveAction)
      BY <2>5, DrivePlansAssumption DEF Inv, RunnerTypeOK, PhaseOK, StateOK, Performed, Performing, DrivePlansAssumption
    <3>2. journal[phase.step] \in Seq(Seq(DriveAction))
      BY <3>1 DEF Undoable
    <3>3. Append(journal[phase.step], u) \in Seq(Seq(DriveAction))
      BY <3>1, <3>2
    <3>4. journal' = [journal EXCEPT ![phase.step] = Append(journal[phase.step], u)] /\ doubts' = doubts
      BY <2>5 DEF Performed
    <3>5. AreUndos(journal)'
      BY <3>1, <3>3, <3>4 DEF Undoable
    <3> QED BY <1>1, <2>5, <3>4, <3>5 DEF Performed, Executing, Undoable
  <2>6. ASSUME NEW u \in UndoLists, PerformFailed(u, c) \/ PerformCancelled(u) PROVE Undoable'
    <3>1. Performing /\ doubts' = in_doubt(u) /\ journal' = journal
      BY <2>6 DEF PerformFailed, PerformCancelled
    <3>2. Fresh
      BY <1>3, <1>4, <2>6 DEF PerformFailed, PerformCancelled
    <3> QED BY <1>1, <1>6, <3>1, <3>2 DEF Undoable
  <2>7. ASSUME NEW ok \in BOOLEAN, Undone(ok, c) PROVE Undoable'
    <3>1. /\ phase.at = "RollingBack" /\ phase.awaiting /\ phase' = popped
          /\ journal' = journal /\ doubts' = doubts
      BY <2>7 DEF Undone, Reverting
    <3>2. /\ phase.queue \in Seq(DriveAction) /\ phase.doubtful \in Seq(DriveAction)
          /\ IF phase.doubting THEN phase.doubtful # <<>> ELSE phase.queue # <<>>
      BY <3>1 DEF Undoable
    <3>3. /\ phase.doubting => Tail(phase.doubtful) \in Seq(DriveAction)
          /\ ~phase.doubting => Tail(phase.queue) \in Seq(DriveAction)
      BY <3>2
    <3> QED BY <3>1, <3>2, <3>3 DEF Undoable, popped, Inv, Shape
  <2> QED BY <2>1, <2>2, <2>3, <2>4, <2>5, <2>6, <2>7
<1>8. CASE Over \/ UNCHANGED runnerVars
  BY <1>8 DEF Over, runnerVars, Undoable
<1> QED BY <1>5, <1>7, <1>8 DEF RunnerNext

-----------------------------------------------------------------------------
(* Types: what the journal holds and recovery undoes are undos of the      *)
(* driver, the machine's files have versions there are, and the unit file  *)
(* is always there (a Restore puts back something, a commit discards Junk).*)

LogRecord ==
    {Began, Committing, Ended} \cup {Done(n) : n \in Nat}
    \cup {Prepared(n, u) : n \in Nat, u \in Seq(DriveAction)}
    \cup {Settled(n, u) : n \in Nat, u \in Seq(DriveAction)}
    \cup {Reverted(a) : a \in DriveAction}

Todo == [undo : DriveAction, sure : BOOLEAN]

MachineOK ==
    /\ files \in [Place -> 0..Gone] /\ backups \in [1..MaxActs -> 0..Gone]
    /\ loaded \in 0..MaxActs /\ running \in 0..Off
    /\ files[UnitFile] # Gone

LogOK == log \in Seq(LogRecord)

TodoOK ==
    /\ todo \in Seq(Todo)
    /\ (mode = "recovering" /\ io = "reverted") => todo # <<>>
    /\ mode \in {"down", "stuck", "finishing"} => io = "idle"

ModesOK ==
    /\ mode \in {"running", "down", "recovering", "finishing", "stuck", "over"}
    /\ io \in {"opening", "idle", "announced", "acted", "reverted", "committing",
             "incomplete"}
    /\ seq \in 0..MaxActs
    /\ torn \in BOOLEAN /\ closed \in BOOLEAN
    /\ ended \in {"no", "ended", "unfinished"}
    /\ doomed \subseteq 1..MaxActs /\ discards \subseteq {Junk}
    /\ failing \in {"no", "gone", "bad"} /\ losing \in BOOLEAN

Typed == Fed /\ Undoable /\ MachineOK /\ LogOK /\ TodoOK /\ ModesOK

(* An undo, by what it does.                                               *)
LEMMA UndoCases ==
  ASSUME NEW u \in DriveAction
  PROVE  \/ u.op = "Restore" /\ u.at \in Place /\ u.from \in 1..MaxActs
         \/ u.op = "RemoveCreatedTree" /\ u.at = Git /\ u.from \in 1..MaxActs
         \/ u.op = "Keep" /\ u.at = Junk
         \/ u.op \in {"DaemonReload", "StartUnit", "StopUnit"}
<1>1. CASE \E p \in Place, n \in 1..MaxActs : u = Restore(p, n)
  BY <1>1 DEF Restore
<1>2. CASE \E n \in 1..MaxActs : u = RemoveTree(Git, n)
  BY <1>2 DEF RemoveTree
<1>3. CASE u \in {KeepPath(Junk), DaemonReload, StartUnit, StopUnit}
  BY <1>3 DEF KeepPath, DaemonReload, StartUnit, StopUnit
<1> QED BY <1>1, <1>2, <1>3 DEF DriveAction

LEMMA FromIn == \A a \in DriveAction : from[a] # NoPath => from[a] \in 1..MaxActs
<1> SUFFICES ASSUME NEW a \in DriveAction, from[a] # NoPath PROVE from[a] \in 1..MaxActs
  OBVIOUS
<1>1. from[a] = IF a.op = "Restore" THEN a.from ELSE NoPath
  BY DEF DrivePlansAssumption, DriveFrom
<1>2. a.op = "Restore"
  BY <1>1
<1> QED BY <1>1, <1>2, UndoCases

LEMMA LogHolds == Holds(LogRecord, DriveAction)
<1> SUFFICES ASSUME NEW r \in LogRecord, r.rec \in {"Prepared", "Settled"}
             PROVE  r.seq \in Nat /\ r.undo \in Seq(DriveAction)
  BY DEF Holds
<1>1. CASE \E n \in Nat, u \in Seq(DriveAction) : r = Prepared(n, u) \/ r = Settled(n, u)
  BY <1>1 DEF Prepared, Settled
<1>2. CASE r \in {Began, Committing, Ended} \/ (\E n \in Nat : r = Done(n))
           \/ (\E a \in DriveAction : r = Reverted(a))
  BY <1>2 DEF Began, Committing, Ended, Done, Reverted
<1> QED BY <1>1, <1>2 DEF LogRecord

LEMMA UndoingIn == ASSUME Typed, Reverting PROVE undoing \in DriveAction
  BY DEF Typed, Undoable, Reverting, undoing

LEMMA NextTodo ==
  ASSUME TodoOK, todo # <<>>
  PROVE  Head(todo).undo \in DriveAction /\ Tail(todo) \in Seq(Todo)
<1>1. Head(todo) \in Todo /\ Tail(todo) \in Seq(Todo)
  BY DEF TodoOK
<1> QED BY <1>1 DEF Todo

(* An undo leaves the machine well typed and forgets only what it did.     *)
LEMMA UndoMachine ==
  ASSUME MachineOK, NEW u \in DriveAction, applies(u), undo(u)
  PROVE  MachineOK' /\ doomed' \subseteq doomed /\ discards' \subseteq discards
<1> USE DEF MachineOK, Gone, Off, DriveAssumption
<1>1. CASE u.op = "Restore" /\ u.at \in Place /\ u.from \in 1..MaxActs
  <2>1. /\ files' = [files EXCEPT ![u.at] = backups[u.from]]
        /\ backups' = [backups EXCEPT ![u.from] = Gone]
        /\ doomed' = doomed \ {u.from}
        /\ UNCHANGED <<loaded, running, discards>>
    BY <1>1 DEF undo
  <2>2. backups[u.from] \in 0..Gone /\ backups[u.from] # Gone
    BY <1>1 DEF applies
  <2> QED BY <1>1, <2>1, <2>2
<1>2. CASE u.op = "RemoveCreatedTree" /\ u.at = Git /\ u.from \in 1..MaxActs
  <2>1. /\ files' = [files EXCEPT ![Git] = IF files[Git] = u.from THEN Gone ELSE files[Git]]
        /\ UNCHANGED <<backups, loaded, running, memory>>
    BY <1>2 DEF undo
  <2> QED BY <2>1 DEF memory
<1>3. CASE u.op = "Keep"
  BY <1>3 DEF undo, machine
<1>4. CASE u.op = "DaemonReload"
  <2>1. loaded' = files[UnitFile] /\ UNCHANGED <<files, backups, running, memory>>
    BY <1>4 DEF undo
  <2> QED BY <2>1 DEF memory
<1>5. CASE u.op = "StartUnit"
  <2>1. /\ running' = IF running = Off THEN loaded ELSE running
        /\ UNCHANGED <<files, backups, loaded, memory>>
    BY <1>5 DEF undo
  <2> QED BY <2>1 DEF memory
<1>6. CASE u.op = "StopUnit"
  <2>1. running' = Off /\ UNCHANGED <<files, backups, loaded, memory>>
    BY <1>6 DEF undo
  <2> QED BY <2>1 DEF memory
<1> QED BY <1>1, <1>2, <1>3, <1>4, <1>5, <1>6, UndoCases

LEMMA ActionCases ==
  ASSUME Fed, Performing
  PROVE  \/ action.op = "PutFile" /\ action.at \in Place
         \/ action.op = "InstallUnit" /\ action.at = UnitFile
         \/ action.op \in {"DaemonReload", "StartUnit", "StopUnit"} /\ action.at = UnitFile
         \/ action.op = "Discard" /\ action.at = Junk
         \/ action.op = "RecordState" /\ action.at = Git
<1>1. action \in PlanAction
  BY DEF Fed, Queued, Performing, action
<1>2. CASE \E p \in Place : action = PutFile(p)
  BY <1>2 DEF PutFile
<1>3. CASE action \in {InstallUnit, Reloads, Starts, Stops, Discard, RecordState}
  BY <1>3 DEF InstallUnit, Reloads, Starts, Stops, Discard, RecordState
<1> QED BY <1>1, <1>2, <1>3 DEF PlanAction

LEMMA EffectMachine ==
  ASSUME Fed, MachineOK, Performing, seq < MaxActs, effect
  PROVE  MachineOK'
<1> USE DEF MachineOK, Gone, Off, DriveAssumption
<1>1. number \in 1..MaxActs
  BY DEF Fed, number
<1> HIDE DEF Fed
<1>2. CASE action.op \in {"PutFile", "InstallUnit"} /\ action.at \in Place
  <2>1. /\ files' = [files EXCEPT ![action.at] = number]
        /\ backups' = [backups EXCEPT ![number] = files[action.at]]
        /\ UNCHANGED <<loaded, running>>
    BY <1>2 DEF effect
  <2>2. number \in 0..Gone /\ number # Gone
    BY <1>1
  <2> HIDE DEF number
  <2> QED BY <1>1, <1>2, <2>1, <2>2
<1>3. CASE action.op = "DaemonReload"
  <2>1. loaded' = files[UnitFile] /\ UNCHANGED <<files, backups, running>>
    BY <1>3 DEF effect
  <2> QED BY <2>1
<1>4. CASE action.op = "StartUnit"
  BY <1>4 DEF effect
<1>5. CASE action.op = "StopUnit"
  BY <1>5 DEF effect
<1>6. CASE action.op = "Discard"
  BY <1>6 DEF effect, machine
<1>7. CASE action.op = "RecordState"
  <2>1. /\ files' = [files EXCEPT ![Git] = IF files[Git] = Gone THEN number ELSE files[Git]]
        /\ UNCHANGED <<backups, loaded, running>>
    BY <1>7 DEF effect
  <2>2. number \in 0..Gone
    BY <1>1
  <2> HIDE DEF number
  <2> QED BY <2>1, <2>2
<1> QED BY <1>2, <1>3, <1>4, <1>5, <1>6, <1>7, ActionCases

LEMMA MachineKept == ASSUME Typed, [Next]_vars PROVE MachineOK'
<1> USE DEF Typed
<1>1. ASSUME UNCHANGED machine PROVE MachineOK'
  BY <1>1 DEF machine, MachineOK
<1>2. CASE Effect
  <2>1. Performing /\ seq < MaxActs /\ effect
    BY <1>2 DEF Effect, Running, Fed, Acting
  <2> QED BY <2>1, EffectMachine
<1>3. CASE Revert
  <2>1. Reverting /\ applies(undoing) /\ undo(undoing)
    BY <1>3 DEF Revert
  <2> QED BY <2>1, UndoingIn, UndoMachine
<1>4. CASE RecoverUndo
  <2>1. todo # <<>> /\ applies(Head(todo).undo) /\ undo(Head(todo).undo)
    BY <1>4 DEF RecoverUndo
  <2>2. Head(todo).undo \in DriveAction
    BY <2>1, NextTodo
  <2> QED BY <2>1, <2>2, UndoMachine
<1>5. CASE DeleteBackup \/ FinishBackup
  <2>1. PICK n \in 1..MaxActs : backups' = [backups EXCEPT ![n] = Gone]
    BY <1>5 DEF DeleteBackup, FinishBackup, ModesOK
  <2>2. UNCHANGED <<files, loaded, running>>
    BY <1>5 DEF DeleteBackup, FinishBackup
  <2> QED BY <2>1, <2>2 DEF MachineOK, Gone, DriveAssumption
<1>6. CASE DeleteDiscard
  <2>1. PICK p \in discards : files' = [files EXCEPT ![p] = Gone]
    BY <1>6 DEF DeleteDiscard
  <2>2. UNCHANGED <<backups, loaded, running>> /\ p = Junk
    BY <1>6 DEF DeleteDiscard, ModesOK
  <2> QED BY <2>1, <2>2 DEF MachineOK, Gone, DriveAssumption
<1>7. CASE \/ Step \/ Begin \/ Observe \/ Fail \/ RevertFails \/ LeavePath \/ CommitFails
           \/ CommitStopped \/ Return
           \/ \E how \in Hows : \/ Create(how) \/ Prepare(how) \/ Succeed(how) \/ Satisfied(how)
                                \/ KeepReverted(how) \/ RecordCommit(how)
                                \/ CommitDone(how) \/ EndJournal(how)
  BY <1>1, <1>7 DEF Create, Step, Begin, Observe, Fail, RevertFails, LeavePath, CommitFails, CommitStopped,
                    Return, Prepare, Succeed, Satisfied, KeepReverted, RecordCommit, CommitDone,
                    EndJournal
<1>8. CASE \/ Recover(FALSE) \/ Recover(TRUE) \/ RecoverFails \/ Recovered \/ FinishFails \/ Finished
           \/ \E how \in Hows : RecoverReverted(how)
  BY <1>1, <1>8 DEF Recover, RecoverFails, Recovered, FinishFails, Finished, RecoverReverted
<1>9. CASE Crash \/ Interrupt \/ Rest \/ UNCHANGED vars
  BY <1>1, <1>9 DEF Crash, Interrupt, Rest, vars
<1> QED BY <1>2, <1>3, <1>4, <1>5, <1>6, <1>7, <1>8, <1>9 DEF Next, Request, Recovering

(* What a write leaves of the journal.                                     *)
LEMMA Appends ==
  ASSUME LogOK, NEW r \in LogRecord, NEW how, append(r, how)
  PROVE  LogOK'
  BY DEF LogOK, append

LEMMA LogKept == ASSUME Typed, [Next]_vars PROVE LogOK'
<1> USE DEF Typed
<1>1. ASSUME log' = log PROVE LogOK'
  BY <1>1 DEF LogOK
<1>2. ASSUME NEW how \in Hows, Prepare(how) \/ Succeed(how) \/ Satisfied(how)
      PROVE  LogOK'
  <2>1. Performing /\ seq < MaxActs /\ seq \in Nat
    BY <1>2 DEF Prepare, Succeed, Satisfied, Running, Fed, Acting
  <2>2. announces \in Seq(DriveAction) /\ returns \in Seq(DriveAction) /\ <<>> \in Seq(DriveAction)
    BY <2>1, Announces DEF DrivePlansAssumption
  <2> HIDE DEF Typed
  <2>3. /\ Prepared(seq, announces) \in LogRecord /\ Done(seq) \in LogRecord
        /\ Settled(seq, returns) \in LogRecord /\ Settled(seq, <<>>) \in LogRecord
    <3>1. Prepared(seq, announces) \in LogRecord
      BY <2>1, <2>2 DEF LogRecord
    <3>2. Settled(seq, returns) \in LogRecord
      BY <2>1, <2>2 DEF LogRecord
    <3>3. Settled(seq, <<>>) \in LogRecord
      <4>1. PICK u \in Seq(DriveAction) : u = <<>>
        BY <2>2
      <4>2. Settled(seq, u) \in LogRecord
        BY <2>1 DEF LogRecord
      <4> QED BY <4>1, <4>2
    <3>4. Done(seq) \in LogRecord
      BY <2>1 DEF LogRecord
    <3> QED BY <3>1, <3>2, <3>3, <3>4
  <2>4. \/ append(Prepared(seq, announces), how) \/ append(Done(seq), how)
        \/ append(Settled(seq, returns), how) \/ append(Settled(seq, <<>>), how)
    BY <1>2 DEF Prepare, Succeed, Satisfied
  <2> QED BY <2>3, <2>4, Appends DEF Typed
<1>3. ASSUME NEW how \in Hows,
             Create(how) \/ KeepReverted(how) \/ RecordCommit(how) \/ CommitDone(how) \/ EndJournal(how)
      PROVE  LogOK'
  <2>1. CASE KeepReverted(how)
    <3>1. append(Reverted(undoing), how) /\ Reverting
      BY <2>1 DEF KeepReverted, Undone
    <3>2. Reverted(undoing) \in LogRecord
      BY <3>1, UndoingIn DEF LogRecord
    <3> QED BY <3>1, <3>2, Appends
  <2>2. CASE Create(how) \/ RecordCommit(how) \/ CommitDone(how) \/ EndJournal(how)
    <3>1. append(Began, how) \/ append(Committing, how) \/ append(Ended, how)
      BY <2>2 DEF Create, RecordCommit, CommitDone, EndJournal
    <3>2. Began \in LogRecord /\ Committing \in LogRecord /\ Ended \in LogRecord
      BY DEF LogRecord
    <3> QED BY <3>1, <3>2, Appends
  <2> QED BY <1>3, <2>1, <2>2
<1>4. ASSUME NEW how \in Hows, RecoverReverted(how) PROVE LogOK'
  <2>1. append(Reverted(Head(todo).undo), how) /\ todo # <<>>
    BY <1>4 DEF RecoverReverted, TodoOK
  <2>2. Head(todo).undo \in DriveAction
    BY <2>1, NextTodo
  <2>3. Reverted(Head(todo).undo) \in LogRecord
    BY <2>2 DEF LogRecord
  <2> QED BY <2>1, <2>3, Appends
<1>5. CASE \/ Step \/ Begin \/ Observe \/ Effect \/ Fail \/ Revert \/ RevertFails \/ DeleteBackup
           \/ DeleteDiscard \/ LeavePath \/ CommitFails \/ CommitStopped \/ Return
  BY <1>1, <1>5 DEF Step, Begin, Observe, Effect, Fail, Revert, RevertFails, DeleteBackup,
                    DeleteDiscard, LeavePath, CommitFails, CommitStopped, Return, disk
<1>6. CASE \/ Recover(FALSE) \/ Recover(TRUE) \/ RecoverUndo \/ RecoverFails \/ Recovered
           \/ FinishBackup \/ FinishFails \/ Finished
  BY <1>1, <1>6 DEF Recover, RecoverUndo, RecoverFails, Recovered, FinishBackup, FinishFails,
                    Finished, disk
<1>7. CASE Crash \/ Interrupt \/ Rest \/ UNCHANGED vars
  BY <1>1, <1>7 DEF Crash, Interrupt, Rest, vars, disk
<1> QED BY <1>2, <1>3, <1>4, <1>5, <1>6, <1>7 DEF Next, Request, Recovering

(* Recovery undoes what the journal holds.                                 *)
LEMMA StepsIn ==
  ASSUME LogOK, recover(log).does = "RollBack"
  PROVE  steps(recover(log)) \in Seq(Todo)
<1> DEFINE plan == recover(log)
<1>1. plan.uncertain \in Seq(DriveAction) /\ plan.certain \in Seq(DriveAction)
  BY RecoverIn, LogHolds DEF LogOK
<1> HIDE DEF plan
<1>2. ASSUME NEW s \in Seq(DriveAction), NEW b \in BOOLEAN PROVE marked(s, b) \in Seq(Todo)
  <2>1. DOMAIN s = 1..Len(s) /\ Len(s) \in Nat /\ \A i \in 1..Len(s) : s[i] \in DriveAction
    OBVIOUS
  <2>2. \A i \in 1..Len(s) : [undo |-> s[i], sure |-> b] \in Todo
    BY <2>1 DEF Todo
  <2> HIDE DEF Todo
  <2> QED BY <2>1, <2>2 DEF marked
<1>3. marked(plan.uncertain, FALSE) \in Seq(Todo) /\ marked(plan.certain, TRUE) \in Seq(Todo)
  BY <1>1, <1>2
<1>4. ASSUME NEW s \in Seq(Todo), NEW t \in Seq(Todo) PROVE s \o t \in Seq(Todo)
  OBVIOUS
<1>5. steps(plan) \in Seq(Todo)
  BY <1>3, <1>4 DEF steps
<1> QED BY <1>5 DEF plan

LEMMA TodoKept == ASSUME Typed, [Next]_vars PROVE TodoOK'
<1> USE DEF Typed
<1>1. ASSUME todo' = todo, mode' = mode, io' = io PROVE TodoOK'
  BY <1>1 DEF TodoOK
<1>2. ASSUME todo' = todo, mode' # "recovering",
             mode' \in {"down", "stuck", "finishing"} => io' = "idle"
      PROVE  TodoOK'
  BY <1>2 DEF TodoOK
<1>3. ASSUME NEW l \in BOOLEAN, Recover(l) PROVE TodoOK'
  <2>1. recover(log).does \in {"Nothing", "RollBack", "FinishCommit"}
    BY RecoverIn, LogHolds DEF LogOK
  <2>2. CASE recover(log).does = "RollBack"
    <3>0. CASE log = <<>>
      BY <1>2, <1>3, <3>0 DEF Recover, TodoOK, driver
    <3> SUFFICES ASSUME log # <<>> PROVE TodoOK'
      BY <3>0
    <3>1. todo' = steps(recover(log)) /\ io' = io /\ mode' = "recovering"
      BY <1>3, <2>2 DEF Recover, driver
    <3>2. io # "reverted"
      BY <1>3 DEF Recover, TodoOK
    <3> QED BY <2>2, <3>1, <3>2, StepsIn DEF TodoOK
  <2>3. CASE recover(log).does # "RollBack"
    BY <1>2, <1>3, <2>1, <2>3 DEF Recover, TodoOK, driver
  <2> QED BY <2>2, <2>3
<1>4. CASE RecoverUndo
  BY <1>4 DEF RecoverUndo, TodoOK, recovery
<1>5. ASSUME NEW how \in Hows, RecoverReverted(how) PROVE TodoOK'
  <2>1. todo # <<>> /\ io' # "reverted" /\ todo' \in {Tail(todo), <<>>}
    BY <1>5 DEF RecoverReverted, TodoOK
  <2>2. todo' \in Seq(Todo) /\ mode' = "recovering"
    BY <1>5, <2>1, NextTodo DEF RecoverReverted
  <2> QED BY <2>1, <2>2 DEF TodoOK
<1>6. CASE RecoverFails
  <2>1. todo # <<>> /\ io' # "reverted" /\ todo' = Tail(todo) /\ mode' = "recovering"
    BY <1>6 DEF RecoverFails, driver
  <2> QED BY <2>1, NextTodo DEF TodoOK
<1>7. CASE Crash
  BY <1>7 DEF Crash, TodoOK
<1>8. CASE Request
  <2>1. UNCHANGED recovery
    BY <1>8 DEF Request, Create, Step, Begin, Observe, Effect, Fail, Revert, RevertFails, DeleteBackup,
                DeleteDiscard, LeavePath, CommitFails, CommitStopped, Return, Prepare, Succeed,
                Satisfied, KeepReverted, RecordCommit, CommitDone, EndJournal
  <2>2. mode' # "recovering" /\ (mode' \in {"down", "stuck", "finishing"} => io' = "idle")
    BY <1>8 DEF Request, Running, Create, Step, Begin, Observe, Prepare, Effect, Succeed, Satisfied, Fail,
                Revert, KeepReverted, RevertFails, RecordCommit, DeleteBackup, DeleteDiscard,
                LeavePath, commits, CommitDone, CommitFails, CommitStopped, EndJournal, Return, driver
  <2> QED BY <1>2, <2>1, <2>2 DEF recovery
<1>9. CASE Recovered \/ FinishBackup \/ FinishFails \/ Finished
  BY <1>2, <1>9 DEF Recovered, FinishBackup, FinishFails, Finished, recovery, driver, TodoOK
<1>10. CASE Interrupt \/ Rest \/ UNCHANGED vars
  BY <1>1, <1>10 DEF Interrupt, Rest, vars, recovery, driver
<1> QED BY <1>3, <1>4, <1>5, <1>6, <1>7, <1>8, <1>9, <1>10 DEF Next, Recovering

LEMMA ModesKept == ASSUME Typed, [Next]_vars PROVE ModesOK'
<1> USE DEF Typed
<1>1. ASSUME UNCHANGED <<mode, driver, disk, memory, recovery>> PROVE ModesOK'
  BY <1>1 DEF driver, disk, memory, recovery, ModesOK
<1>2. ASSUME NEW r, NEW how \in Hows, append(r, how) PROVE torn' \in BOOLEAN /\ closed' \in BOOLEAN
  BY <1>2 DEF append, ModesOK
<1>3. ASSUME seq < MaxActs PROVE seq + 1 \in 0..MaxActs
  BY <1>3 DEF ModesOK, DriveAssumption
<1>4. ASSUME NEW how \in Hows, Prepare(how) \/ Satisfied(how) PROVE ModesOK'
  <2>1. seq' \in {seq, seq + 1} /\ seq < MaxActs /\ io' \in {io, "announced"}
    BY <1>4 DEF Prepare, Satisfied
  <2>2. torn' \in BOOLEAN /\ closed' \in BOOLEAN
    BY <1>2, <1>4 DEF Prepare, Satisfied
  <2>3. UNCHANGED <<mode, ended, memory, recovery>>
    BY <1>4 DEF Prepare, Satisfied
  <2> QED BY <1>3, <2>1, <2>2, <2>3 DEF ModesOK, memory, recovery
<1>5. ASSUME NEW how \in Hows, Succeed(how) PROVE ModesOK'
  <2>1. seq' = seq + 1 /\ seq < MaxActs /\ io' = "idle" /\ Performing
    BY <1>5 DEF Succeed, numbered, Running, Fed, Acting
  <2>2. torn' \in BOOLEAN /\ closed' \in BOOLEAN
    BY <1>2, <1>5 DEF Succeed
  <2>3. UNCHANGED <<mode, ended, recovery>>
    BY <1>5 DEF Succeed
  <2>4. doomed' \subseteq doomed \cup {seq + 1} /\ discards' \subseteq discards \cup {Junk}
    BY <1>5 DEF Succeed, number
  <2>5. seq + 1 \in 1..MaxActs
    BY <2>1 DEF ModesOK, DriveAssumption
  <2> QED BY <1>3, <2>1, <2>2, <2>3, <2>4, <2>5 DEF ModesOK, recovery
<1>6. ASSUME NEW how \in Hows, KeepReverted(how) \/ RecordCommit(how) \/ CommitDone(how) \/ EndJournal(how)
      PROVE  ModesOK'
  <2>1. torn' \in BOOLEAN /\ closed' \in BOOLEAN
    BY <1>2, <1>6 DEF KeepReverted, RecordCommit, CommitDone, EndJournal
  <2>2. io' \in {io, "idle", "committing"} /\ ended' \in {ended, "ended"}
    BY <1>6 DEF KeepReverted, RecordCommit, CommitDone, EndJournal
  <2>3. UNCHANGED <<mode, seq, memory, recovery>>
    BY <1>6 DEF KeepReverted, RecordCommit, CommitDone, EndJournal
  <2> QED BY <2>1, <2>2, <2>3 DEF ModesOK, memory, recovery
<1>0. ASSUME NEW how \in Hows, Create(how) PROVE ModesOK'
  <2>1. torn' \in BOOLEAN /\ closed' \in BOOLEAN
    BY <1>0, <1>2 DEF Create
  <2> QED BY <1>0, <2>1 DEF Create, ModesOK, memory, recovery
<1>7. CASE Fail
  <2>1. seq' = seq + 1 /\ seq < MaxActs /\ io' = "idle" /\ UNCHANGED <<mode, ended, disk, memory, recovery>>
    BY <1>7 DEF Fail, numbered
  <2> QED BY <1>3, <2>1 DEF ModesOK, disk, memory, recovery
<1>8. CASE Effect \/ CommitFails \/ CommitStopped
  <2>1. /\ io' \in {"acted", "idle"} /\ ended' \in {ended, "unfinished"}
        /\ UNCHANGED <<mode, seq, disk, memory, recovery>>
    BY <1>8 DEF Effect, CommitFails, CommitStopped
  <2> QED BY <2>1 DEF ModesOK, disk, memory, recovery
<1>9. CASE Revert \/ RecoverUndo
  <2>1. io' = "reverted" /\ UNCHANGED <<mode, seq, ended, disk, recovery>>
    BY <1>9 DEF Revert, RecoverUndo
  <2>2. PICK u \in DriveAction : applies(u) /\ undo(u)
    BY <1>9, UndoingIn, NextTodo DEF Revert, RecoverUndo
  <2>3. doomed' \subseteq doomed /\ discards' \subseteq discards
    BY <2>2, UndoMachine
  <2> QED BY <2>1, <2>3 DEF ModesOK, disk, recovery
<1>10. CASE DeleteBackup \/ DeleteDiscard \/ LeavePath \/ FinishBackup \/ FinishFails
  <2>1. doomed' \subseteq doomed /\ discards' \subseteq discards
    BY <1>10 DEF DeleteBackup, DeleteDiscard, LeavePath, FinishBackup, FinishFails
  <2>2. io' \in {io, "incomplete"} /\ UNCHANGED <<mode, seq, ended, disk, losing>>
    BY <1>10 DEF DeleteBackup, DeleteDiscard, LeavePath, FinishBackup, FinishFails, driver, recovery
  <2>3. failing' \in {failing, "bad"}
    BY <1>10 DEF DeleteBackup, DeleteDiscard, LeavePath, FinishBackup, FinishFails, recovery
  <2> QED BY <2>1, <2>2, <2>3 DEF ModesOK, disk
<1>11. CASE Return
  <2>1. /\ mode' \in {"over", "down"} /\ doomed' = {} /\ discards' = {}
        /\ UNCHANGED <<driver, disk, recovery>>
    BY <1>11 DEF Return
  <2> QED BY <2>1 DEF ModesOK, driver, disk, recovery
<1>12. ASSUME NEW l \in BOOLEAN, Recover(l) PROVE ModesOK'
  <2>1. recover(log).does \in {"Nothing", "RollBack", "FinishCommit"}
    BY RecoverIn, LogHolds DEF LogOK
  <2>2. ToSet(recover(log).pending) \subseteq 1..MaxActs \/ recover(log).does # "FinishCommit"
    <3>1. ToSet(pending(log)) \subseteq 1..MaxActs
      BY PendingIn, LogHolds, FromIn DEF LogOK
    <3>2. recover(log).does = "FinishCommit" => recover(log) = FinishCommit(pending(log))
      BY DEF recover, Nothing, RollBack, FinishCommit
    <3> QED BY <3>1, <3>2 DEF FinishCommit
  <2>3. doomed' \subseteq 1..MaxActs /\ mode' \in {"over", "recovering", "finishing", "stuck"}
    BY <1>12, <2>1, <2>2 DEF Recover, ModesOK
  <2>4. failing' = "no" /\ losing' = l /\ UNCHANGED <<driver, disk, discards>>
    BY <1>12 DEF Recover
  <2> QED BY <2>3, <2>4 DEF ModesOK, driver, disk
<1>13. ASSUME NEW how \in Hows, RecoverReverted(how) PROVE ModesOK'
  <2>1. torn' \in BOOLEAN /\ closed' \in BOOLEAN
    BY <1>2, <1>13 DEF RecoverReverted
  <2> QED BY <1>13, <2>1 DEF RecoverReverted, ModesOK, memory
<1>14. CASE RecoverFails
  BY <1>14 DEF RecoverFails, worse, ModesOK, driver, disk, memory
<1>15. CASE Recovered \/ Finished
  BY <1>15 DEF Recovered, Finished, ModesOK, driver, disk, memory, recovery
<1>16. CASE Crash
  BY <1>16 DEF Crash, ModesOK
<1>17. CASE Step \/ Begin \/ Observe \/ RevertFails \/ Rest \/ UNCHANGED vars
  BY <1>1, <1>17 DEF Step, Begin, Observe, RevertFails, Rest, vars
<1>18. CASE Interrupt
  BY <1>18 DEF Interrupt, ModesOK, disk, memory, recovery
<1> QED BY <1>0, <1>4, <1>5, <1>6, <1>7, <1>8, <1>9, <1>10, <1>11, <1>12, <1>13, <1>14, <1>15,
           <1>16, <1>17, <1>18 DEF Next, Request, Recovering

LEMMA TypedKept == ASSUME Typed, [Next]_vars PROVE Typed'
  BY FedKept, DrivesRunner, UndoableKept, MachineKept, LogKept, TodoKept, ModesKept
  DEF Typed, Fed

LEMMA InitTyped == ASSUME Init PROVE Typed
<1>1. Fed /\ Undoable
  <2>1. Inv /\ phase.at = "Opening"
    BY InitInv DEF Init, RunnerInit, Opening
  <2>2. <<>> \in Seq(Seq(DriveAction))
    OBVIOUS
  <2>3. Undoable
    BY <2>1, <2>2 DEF Init, RunnerInit, Undoable, AreUndos
  <2> QED BY <2>1, <2>3 DEF Init, Fed, Queued, Acting
<1>2. MachineOK
  BY DEF Init, MachineOK, Gone, Off, DriveAssumption
<1>3. LogOK
  <2>1. <<>> \in Seq(LogRecord)
    OBVIOUS
  <2> QED BY <2>1 DEF Init, LogOK
<1>4. TodoOK
  <2>1. <<>> \in Seq(Todo)
    OBVIOUS
  <2> QED BY <2>1 DEF Init, TodoOK
<1>5. ModesOK
  <2>1. mode = "running" /\ io = "opening" /\ seq = 0 /\ ended = "no" /\ torn = FALSE /\ closed = FALSE
        /\ doomed = {} /\ discards = {} /\ failing = "no" /\ losing = FALSE
    BY DEF Init
  <2>2. seq \in 0..MaxActs
    BY <2>1 DEF DriveAssumption
  <2> QED BY <2>1, <2>2 DEF ModesOK
<1> QED BY <1>1, <1>2, <1>3, <1>4, <1>5 DEF Typed

(* The types, at every step of drive(), of a recovery and at every crash:  *)
(* what the journal holds and what recover_from() carries out are undos    *)
(* that an action announced, whatever the loops of run/journal.rs drop,    *)
(* reorder or put in front, and a sync that is awaited was asked for.      *)
THEOREM TypedAlways == Spec => []Typed
  BY InitTyped, TypedKept, PTL DEF Spec

(* So drive(), the file journal and recovery stay within TypeOK for every  *)
(* plan and every bound on crashes, stops and faults: no version or backup *)
(* is numbered beyond the actions of the request.                          *)
THEOREM DriveTypes == Spec => []TypeOK
<1>1. Typed => TypeOK
  BY DEF Typed, Fed, Inv, MachineOK, ModesOK, TypeOK
<1> QED BY <1>1, TypedAlways, PTL

-----------------------------------------------------------------------------
(* 4. Until the commit everything can be put back.  Every version belongs  *)
(* to one place: the file that is it, or the backup that kept it, so that  *)
(* undoing one write can take nothing another undo needs.                  *)

Versions == 1..MaxActs

Announced(v) == \E i \in DOMAIN log : log[i].rec = "Prepared" /\ log[i].seq = v - 1
Written(v) == Announced(v) /\ backups[v] # Gone

(* o says to which place a version was written.                            *)
Owned(o) ==
    /\ \A p \in Place : files[p] \in Versions => o[files[p]] = p
    /\ \A n \in Versions : backups[n] \in Versions =>
         o[backups[n]] = o[n] /\ \A p \in Place : files[p] # backups[n]
    /\ \A m, n \in Versions : backups[m] = backups[n] /\ backups[m] \in Versions => m = n
    /\ \A n \in Versions : backups[n] \in Versions /\ o[n] \in Guarded => Written(backups[n])
    /\ \A p \in Guarded : files[p] # Gone /\ (files[p] \in Versions => Written(files[p]))

(* The next version is not in use.                                         *)
Below(top) ==
    /\ \A p \in Place : files[p] \in Versions => files[p] <= top
    /\ \A n \in Versions : /\ backups[n] \in Versions => backups[n] <= top
                           /\ n > top => backups[n] = Gone

Chains ==
    goal = None =>
      /\ \E o \in [Versions -> Place] : Owned(o)
      /\ mode = "running" => Below(IF io = "acted" THEN seq + 1 ELSE seq)

(* What acts is announced, and a commit begins where it is on record.      *)
Ahead == (mode = "running" /\ io \in {"announced", "acted"}) => Announced(seq + 1)

Uncommitted ==
    goal = None =>
      /\ io \notin {"committing", "incomplete"} /\ mode # "finishing"
      /\ \A i \in DOMAIN log : log[i] # Committing

Linked == Chains /\ Ahead /\ Uncommitted

LEMMA RestoreOwned ==
  ASSUME MachineOK, NEW o \in [Versions -> Place], Owned(o), log' = log,
         NEW p \in Place, NEW n \in Versions, files[p] = n, backups[n] # Gone,
         files' = [files EXCEPT ![p] = backups[n]], backups' = [backups EXCEPT ![n] = Gone]
  PROVE  Owned(o)'
<1> DEFINE b == backups[n]
<1>1. /\ \A q \in Place : files'[q] = IF q = p THEN b ELSE files[q]
      /\ \A m \in Versions : backups'[m] = IF m = n THEN Gone ELSE backups[m]
  BY DEF MachineOK, Versions
<1>2. Gone \notin Versions
  BY DEF Gone, Versions, DriveAssumption
<1>3. o[n] = p
  BY DEF Owned
<1>4. \A v : Announced(v)' <=> Announced(v)
  BY DEF Announced
<1>5. \A m \in Versions : backups[m] \in Versions => backups[m] # n
  BY DEF Owned
<1>6. \A v \in Versions : v # n /\ Written(v) => Written(v)'
  BY <1>1, <1>4 DEF Written
<1> HIDE DEF Versions
<1>7. (\A q \in Place : files[q] \in Versions => o[files[q]] = q)'
  BY <1>1, <1>3 DEF Owned
<1>8. (\A m \in Versions : backups[m] \in Versions =>
         o[backups[m]] = o[m] /\ \A q \in Place : files[q] # backups[m])'
  BY <1>1, <1>2 DEF Owned
<1>9. (\A k, m \in Versions : backups[k] = backups[m] /\ backups[k] \in Versions => k = m)'
  BY <1>1, <1>2 DEF Owned
<1>10. (\A m \in Versions : backups[m] \in Versions /\ o[m] \in Guarded => Written(backups[m]))'
  <2> SUFFICES ASSUME NEW m \in Versions, backups'[m] \in Versions, o[m] \in Guarded
               PROVE  Written(backups[m])'
    OBVIOUS
  <2>1. m # n /\ backups'[m] = backups[m]
    BY <1>1, <1>2
  <2>2. backups[m] # n /\ Written(backups[m])
    BY <1>5, <2>1 DEF Owned
  <2>3. PICK v \in Versions : v = backups[m]
    BY <2>1
  <2>4. Written(v)'
    BY <1>6, <2>2, <2>3
  <2> QED BY <2>1, <2>3, <2>4 DEF Written, Announced
<1>11. (\A q \in Guarded : files[q] # Gone /\ (files[q] \in Versions => Written(files[q])))'
  <2> SUFFICES ASSUME NEW q \in Guarded
               PROVE  files'[q] # Gone /\ (files'[q] \in Versions => Written(files[q])')
    OBVIOUS
  <2>0. q \in Place
    BY DEF Guarded
  <2>1. files'[q] # Gone
    BY <1>1, <2>0 DEF Owned
  <2>2. ASSUME files'[q] \in Versions PROVE Written(files[q])'
    <3>1. PICK v \in Versions : v = files'[q]
      BY <2>2
    <3>2. v # n /\ Written(v)
      <4>1. CASE q = p
        BY <1>1, <1>3, <1>5, <2>0, <3>1, <4>1 DEF Owned
      <4>2. CASE q # p
        BY <1>1, <1>3, <2>0, <3>1, <4>2 DEF Owned
      <4> QED BY <4>1, <4>2
    <3>3. Written(v)'
      BY <1>6, <3>2
    <3> QED BY <3>1, <3>3 DEF Written, Announced
  <2> QED BY <2>1, <2>2
<1> QED BY <1>7, <1>8, <1>9, <1>10, <1>11 DEF Owned

(* Version n is new, and announced if the place is guarded.                *)
LEMMA WriteOwned ==
  ASSUME MachineOK, NEW o \in [Versions -> Place], Owned(o), log' = log,
         NEW n \in Versions, Below(n - 1), Announced(n), NEW at \in Place,
         files' = [files EXCEPT ![at] = n], backups' = [backups EXCEPT ![n] = files[at]]
  PROVE  Owned([o EXCEPT ![n] = at])'
<1> DEFINE f == files[at]
           w == [o EXCEPT ![n] = at]
<1>1. /\ \A q \in Place : files'[q] = IF q = at THEN n ELSE files[q]
      /\ \A m \in Versions : backups'[m] = IF m = n THEN f ELSE backups[m]
  BY DEF MachineOK, Versions
<1>2. Gone \notin Versions
  BY DEF Gone, Versions, DriveAssumption
<1>3. \A m \in Versions : w[m] = IF m = n THEN at ELSE o[m]
  OBVIOUS
<1>4. \A v : Announced(v)' <=> Announced(v)
  BY DEF Announced
<1>5. /\ \A q \in Place : files[q] # n
      /\ \A m \in Versions : backups[m] # n
      /\ backups[n] = Gone
  <2>1. n > n - 1 /\ ~(n <= n - 1)
    BY DEF Versions
  <2> HIDE DEF Versions
  <2> QED BY <2>1 DEF Below
<1>6. \A v \in Versions : v # n /\ Written(v) => Written(v)'
  BY <1>1, <1>4 DEF Written
<1> HIDE DEF Versions, w
<1>7. \A q \in Place : files'[q] \in Versions => w[files'[q]] = q
  BY <1>1, <1>3, <1>5 DEF Owned
<1>8. \A m \in Versions : backups'[m] \in Versions =>
         w[backups'[m]] = w[m] /\ \A q \in Place : files'[q] # backups'[m]
  <2> SUFFICES ASSUME NEW m \in Versions, backups'[m] \in Versions
               PROVE  w[backups'[m]] = w[m] /\ \A q \in Place : files'[q] # backups'[m]
    OBVIOUS
  <2>1. CASE m = n
    <3>1. backups'[m] = f /\ f # n /\ w[f] = o[f] /\ w[m] = at
      BY <1>1, <1>3, <1>5, <2>1
    <3>2. o[f] = at /\ \A q \in Place : q # at => files[q] # f
      BY <3>1 DEF Owned
    <3> QED BY <1>1, <3>1, <3>2
  <2>2. CASE m # n
    <3>1. backups'[m] = backups[m] /\ backups[m] # n /\ w[m] = o[m]
      BY <1>1, <1>3, <1>5, <2>2
    <3>2. w[backups[m]] = o[backups[m]]
      BY <1>3, <3>1
    <3>3. o[backups[m]] = o[m] /\ \A q \in Place : files[q] # backups[m]
      BY <3>1 DEF Owned
    <3> QED BY <1>1, <3>1, <3>2, <3>3
  <2> QED BY <2>1, <2>2
<1>9. \A k, m \in Versions : backups'[k] = backups'[m] /\ backups'[k] \in Versions => k = m
  BY <1>1, <1>5 DEF Owned
<1>10. ASSUME NEW m \in Versions, backups'[m] \in Versions, w[m] \in Guarded
       PROVE  Written(backups[m])'
  <2>1. PICK v \in Versions : v = backups'[m]
    BY <1>10
  <2>2. v # n /\ Written(v)
    <3>1. CASE m = n
      BY <1>1, <1>3, <1>5, <1>10, <2>1, <3>1 DEF Owned
    <3>2. CASE m # n
      BY <1>1, <1>3, <1>5, <1>10, <2>1, <3>2 DEF Owned
    <3> QED BY <3>1, <3>2
  <2>3. Written(v)'
    BY <1>6, <2>2
  <2> QED BY <2>1, <2>3 DEF Written, Announced
<1>11. ASSUME NEW q \in Guarded
       PROVE  files'[q] # Gone /\ (files'[q] \in Versions => Written(files[q])')
  <2>1. q \in Place
    BY DEF Guarded
  <2>2. CASE q = at
    <3>1. files'[q] = n /\ n # Gone /\ f # Gone /\ backups'[n] = f
      BY <1>1, <1>2, <2>1, <2>2 DEF Owned
    <3>2. Written(n)'
      BY <1>4, <3>1 DEF Written
    <3> QED BY <3>1, <3>2 DEF Written, Announced
  <2>3. CASE q # at
    <3>1. files'[q] = files[q] /\ files[q] # n /\ files[q] # Gone
          /\ (files[q] \in Versions => Written(files[q]))
      BY <1>1, <1>5, <2>1, <2>3 DEF Owned
    <3>2. files[q] \in Versions => Written(files[q])'
      <4> SUFFICES ASSUME files[q] \in Versions PROVE Written(files[q])'
        OBVIOUS
      <4>1. PICK v \in Versions : v = files[q]
        OBVIOUS
      <4>2. Written(v)'
        BY <1>6, <3>1, <4>1
      <4> QED BY <3>1, <4>1, <4>2 DEF Written, Announced
    <3> QED BY <3>1, <3>2
  <2> QED BY <2>2, <2>3
<1> QED BY <1>7, <1>8, <1>9, <1>10, <1>11 DEF Owned, w

(* A tree is created or removed where no backup is kept.                   *)
LEMMA TreeOwned ==
  ASSUME MachineOK, NEW o \in [Versions -> Place], Owned(o), log' = log, backups' = backups,
         NEW n \in Versions \cup {Gone}, n # Gone => Below(n - 1),
         files' = [files EXCEPT ![Git] = n]
  PROVE  \E w \in [Versions -> Place] : Owned(w)'
<1> DEFINE w == [m \in Versions |-> IF m = n THEN Git ELSE o[m]]
<1>1. \A q \in Place : files'[q] = IF q = Git THEN n ELSE files[q]
  BY DEF MachineOK
<1>2. Gone \notin Versions /\ Git \in Place /\ Git \notin Guarded
  BY DEF Gone, Versions, DriveAssumption, Guarded
<1>3. w \in [Versions -> Place] /\ \A m \in Versions : w[m] = IF m = n THEN Git ELSE o[m]
  BY <1>2
<1>4. \A v : (Announced(v)' <=> Announced(v)) /\ (Written(v)' <=> Written(v))
  BY DEF Announced, Written
<1>5. n # Gone => /\ \A q \in Place : files[q] # n
                  /\ \A m \in Versions : backups[m] # n
                  /\ backups[n] = Gone
  <2>1. n # Gone => n \in Versions /\ n > n - 1 /\ ~(n <= n - 1)
    BY DEF Versions
  <2> HIDE DEF Versions
  <2> QED BY <2>1 DEF Below
<1> HIDE DEF Versions, w
<1>6. \A q \in Place : files'[q] \in Versions => w[files'[q]] = q
  BY <1>1, <1>2, <1>3, <1>5 DEF Owned
<1>7. \A m \in Versions : backups[m] \in Versions => m # n /\ backups[m] # n
  BY <1>2, <1>5
<1>8. \A m \in Versions : backups[m] \in Versions =>
         w[backups[m]] = w[m] /\ \A q \in Place : files'[q] # backups[m]
  BY <1>1, <1>3, <1>7 DEF Owned
<1>9. \A m \in Versions : backups[m] \in Versions /\ w[m] \in Guarded => Written(backups[m])
  BY <1>3, <1>7 DEF Owned
<1>10. \A q \in Guarded : files'[q] = files[q]
  BY <1>1, <1>2 DEF Guarded
<1>11. \A q \in Guarded : files[q] # Gone /\ (files[q] \in Versions => Written(files[q]))
  BY DEF Owned
<1>12. ASSUME NEW m \in Versions, backups'[m] \in Versions, w[m] \in Guarded
       PROVE  Written(backups[m])'
  BY <1>9, <1>12 DEF Written, Announced
<1>13. ASSUME NEW q \in Guarded
       PROVE  files'[q] # Gone /\ (files'[q] \in Versions => Written(files[q])')
  BY <1>10, <1>11 DEF Written, Announced
<1>14. \A k, m \in Versions : backups'[k] = backups'[m] /\ backups'[k] \in Versions => k = m
  BY DEF Owned
<1>15. Owned(w)'
  BY <1>6, <1>8, <1>12, <1>13, <1>14 DEF Owned
<1> QED BY <1>3, <1>15

(* The machine is left alone and the journal only grows.                   *)
LEMMA OwnedKept ==
  ASSUME NEW o \in [Versions -> Place], Owned(o), UNCHANGED <<files, backups>>,
         \A v \in Versions : Announced(v) => Announced(v)'
  PROVE  Owned(o)'
<1>1. ASSUME NEW v \in Versions, Written(v) PROVE Written(v)'
  BY <1>1 DEF Written
<1>2. ASSUME NEW m \in Versions, backups[m] \in Versions, o[m] \in Guarded PROVE Written(backups[m])'
  <2>1. PICK v \in Versions : v = backups[m] /\ Written(v)
    BY <1>2 DEF Owned
  <2> QED BY <1>1, <2>1 DEF Written, Announced
<1>3. ASSUME NEW q \in Guarded, files[q] \in Versions PROVE Written(files[q])'
  <2>1. PICK v \in Versions : v = files[q] /\ Written(v)
    BY <1>3 DEF Owned
  <2> QED BY <1>1, <2>1 DEF Written, Announced
<1> QED BY <1>2, <1>3 DEF Owned

(* The journal only grows; only a commit records that it begins.           *)
LEMMA LogGrows ==
  ASSUME Typed, [Next]_vars
  PROVE  \/ log' = log
         \/ \E r \in LogRecord : /\ log' = Append(log, r)
                                 /\ r = Committing => \E how \in Hows : RecordCommit(how)
<1> DEFINE Grows == \/ log' = log
                    \/ \E r \in LogRecord : /\ log' = Append(log, r)
                                            /\ r = Committing => \E how \in Hows : RecordCommit(how)
<1> SUFFICES Grows
  OBVIOUS
<1> USE DEF Typed
<1>1. ASSUME NEW r \in LogRecord, NEW how, append(r, how), r.rec # "Committing" PROVE Grows
  BY <1>1 DEF append, Committing
<1>2. ASSUME NEW how \in Hows, Prepare(how) \/ Succeed(how) \/ Satisfied(how) PROVE Grows
  <2>1. Performing /\ seq < MaxActs /\ seq \in Nat
    BY <1>2 DEF Prepare, Succeed, Satisfied, Running, Fed, Acting
  <2>2. announces \in Seq(DriveAction) /\ returns \in Seq(DriveAction) /\ <<>> \in Seq(DriveAction)
    BY <2>1, Announces DEF DrivePlansAssumption
  <2> HIDE DEF Typed
  <2>3. ASSUME NEW u \in Seq(DriveAction)
        PROVE  /\ Prepared(seq, u) \in LogRecord /\ Prepared(seq, u).rec # "Committing"
               /\ Settled(seq, u) \in LogRecord /\ Settled(seq, u).rec # "Committing"
    BY <2>1 DEF LogRecord, Prepared, Settled
  <2>4. Done(seq) \in LogRecord /\ Done(seq).rec # "Committing"
    BY <2>1 DEF LogRecord, Done
  <2>5. \/ append(Prepared(seq, announces), how) \/ append(Done(seq), how)
        \/ append(Settled(seq, returns), how) \/ append(Settled(seq, <<>>), how)
    BY <1>2 DEF Prepare, Succeed, Satisfied
  <2> HIDE DEF Grows
  <2> QED BY <1>1, <2>2, <2>3, <2>4, <2>5
<1>3. ASSUME NEW how \in Hows, KeepReverted(how) \/ RecoverReverted(how) PROVE Grows
  <2>1. \E u \in DriveAction : append(Reverted(u), how)
    <3>1. CASE KeepReverted(how)
      BY <3>1, UndoingIn DEF KeepReverted, Undone
    <3>2. CASE RecoverReverted(how)
      BY <3>2, NextTodo DEF RecoverReverted, TodoOK
    <3> QED BY <1>3, <3>1, <3>2
  <2>2. \A u \in DriveAction : Reverted(u) \in LogRecord /\ Reverted(u).rec # "Committing"
    BY DEF LogRecord, Reverted
  <2> HIDE DEF Grows
  <2> QED BY <1>1, <2>1, <2>2
<1>4. ASSUME NEW how \in Hows, Create(how) \/ CommitDone(how) \/ EndJournal(how) PROVE Grows
  <2>1. append(Began, how) \/ append(Ended, how)
    BY <1>4 DEF Create, CommitDone, EndJournal
  <2>2. /\ Began \in LogRecord /\ Began.rec # "Committing"
        /\ Ended \in LogRecord /\ Ended.rec # "Committing"
    BY DEF LogRecord, Began, Ended
  <2> QED BY <1>1, <2>1, <2>2
<1>5. ASSUME NEW how \in Hows, RecordCommit(how) PROVE Grows
  <2>1. Committing \in LogRecord
    BY DEF LogRecord
  <2>2. log' = log \/ log' = Append(log, Committing)
    BY <1>5 DEF RecordCommit, append
  <2> QED BY <1>5, <2>1, <2>2
<1>6. CASE \/ Step \/ Begin \/ Observe \/ Effect \/ Fail \/ Revert \/ RevertFails \/ DeleteBackup
           \/ DeleteDiscard \/ LeavePath \/ CommitFails \/ CommitStopped \/ Return
  BY <1>6 DEF Step, Begin, Observe, Effect, Fail, Revert, RevertFails, DeleteBackup,
              DeleteDiscard, LeavePath, CommitFails, CommitStopped, Return, disk
<1>7. CASE \/ Recover(FALSE) \/ Recover(TRUE) \/ RecoverUndo \/ RecoverFails \/ Recovered
           \/ FinishBackup \/ FinishFails \/ Finished
  BY <1>7 DEF Recover, RecoverUndo, RecoverFails, Recovered, FinishBackup, FinishFails,
              Finished, disk
<1>8. CASE Crash \/ Interrupt \/ Rest \/ UNCHANGED vars
  BY <1>8 DEF Crash, Interrupt, Rest, vars, disk
<1> HIDE DEF Grows, Typed
<1>9. CASE Request
  BY <1>2, <1>3, <1>4, <1>5, <1>6, <1>9 DEF Request
<1>10. CASE Recovering
  BY <1>3, <1>7, <1>10 DEF Recovering
<1> QED BY <1>7, <1>8, <1>9, <1>10 DEF Next

(* So what was announced stays so.                                         *)
LEMMA AnnouncedStays == ASSUME Typed, [Next]_vars, NEW v, Announced(v) PROVE Announced(v)'
<1>1. PICK i \in DOMAIN log : log[i].rec = "Prepared" /\ log[i].seq = v - 1
  BY DEF Announced
<1>2. i \in DOMAIN log' /\ log'[i] = log[i]
  BY LogGrows DEF Typed, LogOK
<1> QED BY <1>1, <1>2 DEF Announced

(* The machine at commit is a machine, so that goal tells it from none.    *)
LEMMA WorldIs == ASSUME Typed PROVE World # None
<1>1. Files \in [Guarded -> 0..Gone]
  BY DEF Typed, MachineOK, Files, Guarded
<1>2. Service \in (0..MaxActs) \X (0..Off)
  BY DEF Typed, MachineOK, Service
<1>3. World \in [files : [Guarded -> 0..Gone], service : (0..MaxActs) \X (0..Off)]
  BY <1>1, <1>2 DEF World
<1> QED BY <1>3 DEF DrivePlansAssumption

(* Who sets goal.                                                          *)
LEMMA GoalMoves ==
  ASSUME [Next]_vars
  PROVE  goal' = goal \/ \E how \in Hows : RecordCommit(how)
<1>1. CASE Request
  BY <1>1 DEF Request, Create, Step, Begin, Observe, Effect, Fail, Revert, RevertFails,
              DeleteBackup, DeleteDiscard, LeavePath, CommitFails, CommitStopped, Return, Prepare,
              Succeed, Satisfied, KeepReverted, CommitDone, EndJournal, history
<1>2. CASE Recovering \/ Recover(TRUE)
  BY <1>2 DEF Recovering, Recover, RecoverUndo, RecoverFails, Recovered, FinishBackup,
              FinishFails, Finished, RecoverReverted, history
<1>3. CASE Crash \/ Interrupt \/ Rest \/ UNCHANGED vars
  BY <1>3 DEF Crash, Interrupt, Rest, vars, history
<1> QED BY <1>1, <1>2, <1>3 DEF Next

LEMMA GoalKept ==
  ASSUME Typed, [Next]_vars, goal' = None
  PROVE  goal = None /\ ~\E how \in Hows : RecordCommit(how)
<1>1. ~\E how \in Hows : RecordCommit(how)
  BY WorldIs DEF RecordCommit
<1> QED BY <1>1, GoalMoves

LEMMA UncommittedKept == ASSUME Typed, Uncommitted, [Next]_vars PROVE Uncommitted'
<1> SUFFICES ASSUME goal' = None PROVE Uncommitted'
  BY DEF Uncommitted
<1>1. goal = None /\ ~\E how \in Hows : RecordCommit(how)
  BY GoalKept
<1>2. io \notin {"committing", "incomplete"} /\ mode # "finishing" /\ \A i \in DOMAIN log : log[i] # Committing
  BY <1>1 DEF Uncommitted
<1>3. \A i \in DOMAIN log' : log'[i] # Committing
  BY <1>1, <1>2, LogGrows DEF Typed, LogOK
<1>4. ASSUME NEW l \in BOOLEAN, Recover(l) PROVE mode' # "finishing" /\ io' = io
  <2>1. recover(log).does \in {"Nothing", "RollBack", "FinishCommit"}
        /\ (recover(log).does = "FinishCommit" => Contains(log, Committing))
    BY RecoverIn, LogHolds DEF Typed, LogOK
  <2>2. ~Contains(log, Committing)
    BY <1>2 DEF Contains, Typed, LogOK
  <2> QED BY <1>4, <2>1, <2>2 DEF Recover, driver
<1>5. io' \notin {"committing", "incomplete"} /\ mode' # "finishing"
  <2>1. CASE Request
    BY <1>1, <1>2, <2>1
       DEF Request, Running, Create, Step, Begin, Observe, Prepare, Effect, Succeed, Satisfied, Fail, numbered,
           Revert, KeepReverted, RevertFails, DeleteBackup, DeleteDiscard, driver,
           LeavePath, commits, CommitDone, CommitFails, CommitStopped, EndJournal, Return
  <2>2. CASE Recovering \/ Recover(TRUE)
    BY <1>2, <1>4, <2>2 DEF Recovering, RecoverUndo, RecoverReverted, RecoverFails, Recovered,
                      FinishBackup, FinishFails, Finished, driver
  <2>3. CASE Crash \/ Interrupt \/ Rest \/ UNCHANGED vars
    BY <1>2, <2>3 DEF Crash, Interrupt, Rest, vars, driver
  <2> QED BY <2>1, <2>2, <2>3 DEF Next
<1> QED BY <1>3, <1>5 DEF Uncommitted

LEMMA AheadKept == ASSUME Typed, Ahead, mode = "running" => ~torn, [Next]_vars PROVE Ahead'
<1> SUFFICES ASSUME mode' = "running", io' \in {"announced", "acted"} PROVE Announced(seq + 1)'
  BY DEF Ahead
<1>1. mode = "running"
  BY StaysOver DEF vars
<1>2. ASSUME io' = io, seq' = seq PROVE Announced(seq + 1)'
  <2>1. Announced(seq + 1)
    BY <1>1, <1>2 DEF Ahead
  <2>2. PICK v : v = seq + 1
    OBVIOUS
  <2>3. Announced(v)'
    BY <2>1, <2>2, AnnouncedStays
  <2> QED BY <1>2, <2>2, <2>3 DEF Announced
<1>3. CASE Effect
  <2>1. seq' = seq /\ io = "announced" /\ log' = log
    BY <1>3 DEF Effect, disk
  <2> QED BY <1>1, <2>1 DEF Ahead, Announced
<1>4. ASSUME NEW how \in Hows, Prepare(how) PROVE Announced(seq + 1)'
  <2>1. how = "ok" /\ seq' = seq /\ append(Prepared(seq, announces), how)
    BY <1>4 DEF Prepare
  <2>2. log' = Append(log, Prepared(seq, announces)) /\ seq \in Nat
    BY <1>1, <2>1 DEF append, Typed, Fed
  <2> DEFINE i == Len(log) + 1
  <2>3. i \in DOMAIN log' /\ log'[i] = Prepared(seq, announces)
    BY <2>2 DEF Typed, LogOK
  <2>4. log'[i].rec = "Prepared" /\ log'[i].seq = (seq' + 1) - 1
    BY <2>1, <2>2, <2>3 DEF Prepared
  <2> QED BY <2>3, <2>4 DEF Announced
<1>5. CASE \/ Fail \/ Revert \/ LeavePath \/ CommitFails \/ CommitStopped
           \/ \E how \in Hows : \/ Create(how) \/ Succeed(how) \/ KeepReverted(how)
                                \/ CommitDone(how)
  BY <1>5 DEF Create, Fail, Revert, LeavePath, CommitFails, CommitStopped, Succeed, KeepReverted, CommitDone, numbered
<1>6. CASE \/ Step \/ Begin \/ Observe \/ RevertFails \/ DeleteBackup \/ DeleteDiscard \/ Return
           \/ Interrupt \/ Rest \/ UNCHANGED vars
           \/ \E how \in Hows : EndJournal(how)
  BY <1>2, <1>6 DEF Step, Begin, Observe, RevertFails, DeleteBackup, DeleteDiscard, Return, Interrupt, Rest,
                    vars, driver, EndJournal
<1>7. ASSUME NEW how \in Hows, RecordCommit(how) \/ Satisfied(how) PROVE Announced(seq + 1)'
  BY <1>1, <1>7 DEF RecordCommit, Satisfied
<1>8. CASE Recovering \/ Recover(TRUE) \/ Crash
  BY <1>1, <1>8 DEF Recovering, Recover, RecoverUndo, RecoverReverted, RecoverFails, Recovered,
                     FinishBackup, FinishFails, Finished, Crash
<1> QED BY <1>3, <1>4, <1>5, <1>6, <1>7, <1>8 DEF Next, Request

(* The number of the action in hand is that of its version.                *)
LEMMA EffectOwned ==
  ASSUME Typed, Chains, Ahead, Effect, goal = None
  PROVE  (\E o \in [Versions -> Place] : Owned(o)') /\ Below(seq + 1)'
<1>1. /\ mode = "running" /\ io = "announced" /\ effect /\ UNCHANGED <<log, seq>>
      /\ Performing /\ seq < MaxActs /\ seq \in Nat
  BY DEF Effect, Running, disk, Typed, Fed, Acting
<1>2. PICK o \in [Versions -> Place] : Owned(o)
  BY DEF Chains
<1>3. Below(seq) /\ Announced(seq + 1)
  BY <1>1 DEF Chains, Ahead
<1>4. number = seq + 1 /\ number \in Versions /\ number - 1 = seq /\ number # Gone
  BY <1>1 DEF number, Versions, Gone, DriveAssumption
<1>5. MachineOK
  BY DEF Typed
<1>6. ASSUME \A p \in Place : files'[p] \in {files[p], number},
             \A n \in Versions : backups'[n] = backups[n] \/ (n = number /\ \E p \in Place : backups'[n] = files[p])
      PROVE  Below(seq + 1)'
  <2>1. \A p \in Place : files[p] \in Versions => files[p] <= seq + 1
    BY <1>1, <1>3 DEF Below, Versions
  <2>2. \A n \in Versions : /\ backups[n] \in Versions => backups[n] <= seq + 1
                            /\ n > seq + 1 => backups[n] = Gone /\ n # number
    BY <1>1, <1>3, <1>4 DEF Below, Versions
  <2>3. \A p \in Place : files'[p] \in Versions => files'[p] <= seq + 1
    BY <1>1, <1>4, <1>6, <2>1
  <2>4. \A n \in Versions : /\ backups'[n] \in Versions => backups'[n] <= seq + 1
                            /\ n > seq + 1 => backups'[n] = Gone
    BY <1>6, <2>1, <2>2
  <2> QED BY <1>1, <2>3, <2>4 DEF Below
<1>7. CASE action.op \in {"PutFile", "InstallUnit"} /\ action.at \in Place
  <2>1. /\ files' = [files EXCEPT ![action.at] = number]
        /\ backups' = [backups EXCEPT ![number] = files[action.at]]
    BY <1>1, <1>7 DEF effect
  <2>2. PICK n \in Versions, at \in Place : n = number /\ at = action.at
    BY <1>4, <1>7
  <2>3. Owned([o EXCEPT ![n] = at])'
    BY <1>1, <1>2, <1>3, <1>4, <1>5, <2>1, <2>2, WriteOwned
  <2>4. [o EXCEPT ![n] = at] \in [Versions -> Place]
    BY <2>2
  <2>5. Below(seq + 1)'
    BY <1>4, <1>5, <1>6, <1>7, <2>1 DEF MachineOK, Versions
  <2> QED BY <2>3, <2>4, <2>5
<1>8. CASE action.op = "RecordState"
  <2>1. /\ files' = [files EXCEPT ![Git] = IF files[Git] = Gone THEN number ELSE files[Git]]
        /\ backups' = backups
    BY <1>1, <1>8 DEF effect
  <2>2. Below(seq + 1)'
    <3>1. \A p \in Place : files'[p] \in {files[p], number}
      BY <1>5, <2>1 DEF MachineOK
    <3> QED BY <1>6, <2>1, <3>1
  <2>3. CASE files[Git] = Gone
    <3>1. PICK n \in Versions \cup {Gone} : n = number
      BY <1>4
    <3> QED BY <1>1, <1>2, <1>3, <1>4, <1>5, <2>1, <2>2, <2>3, <3>1, TreeOwned
  <2>4. CASE files[Git] # Gone
    <3>1. files' = files
      BY <1>5, <2>1, <2>4 DEF MachineOK
    <3>2. Owned(o)'
      BY <1>1, <1>2, <2>1, <3>1, OwnedKept DEF Announced
    <3> QED BY <2>2, <3>2
  <2> QED BY <2>3, <2>4
<1>9. CASE action.op \in {"DaemonReload", "StartUnit", "StopUnit", "Discard"}
  <2>1. UNCHANGED <<files, backups>>
    BY <1>1, <1>9 DEF effect, machine
  <2>2. Owned(o)'
    BY <1>1, <1>2, <2>1, OwnedKept DEF Announced
  <2> QED BY <1>6, <2>1, <2>2
<1> QED BY <1>1, <1>7, <1>8, <1>9, ActionCases DEF Typed, DriveAssumption

LEMMA UndoOwned ==
  ASSUME MachineOK, NEW u \in DriveAction, applies(u), undo(u), log' = log,
         \E o \in [Versions -> Place] : Owned(o)
  PROVE  /\ \E o \in [Versions -> Place] : Owned(o)'
         /\ \A top \in Nat : Below(top) => Below(top)'
<1> USE DEF DriveAssumption
<1>1. PICK o \in [Versions -> Place] : Owned(o)
  OBVIOUS
<1>2. Gone \notin Versions
  BY DEF Gone, Versions
<1>3. CASE u.op = "Restore" /\ u.at \in Place /\ u.from \in 1..MaxActs
  <2>1. /\ files' = [files EXCEPT ![u.at] = backups[u.from]]
        /\ backups' = [backups EXCEPT ![u.from] = Gone]
        /\ files[u.at] = u.from /\ backups[u.from] # Gone
    BY <1>3 DEF undo, applies
  <2>2. PICK p \in Place, n \in Versions : p = u.at /\ n = u.from
    BY <1>3 DEF Versions
  <2>3. Owned(o)'
    BY <1>1, <2>1, <2>2, RestoreOwned
  <2>4. /\ \A q \in Place : files'[q] = files[q] \/ files'[q] = backups[n]
        /\ \A m \in Versions : backups'[m] = backups[m] \/ backups'[m] = Gone
    BY <2>1, <2>2 DEF MachineOK, Versions
  <2>5. ASSUME NEW top \in Nat, Below(top) PROVE Below(top)'
    BY <1>2, <2>4, <2>5 DEF Below
  <2> QED BY <2>3, <2>5
<1>4. CASE u.op = "RemoveCreatedTree"
  <2>1. u.at = Git
    BY <1>4, UndoCases
  <2>2. /\ files' = [files EXCEPT ![Git] = IF files[Git] = u.from THEN Gone ELSE files[Git]]
        /\ backups' = backups
    BY <1>4, <2>1 DEF undo
  <2>3. \A q \in Place : files'[q] = files[q] \/ files'[q] = Gone
    BY <2>2 DEF MachineOK
  <2>4. ASSUME NEW top \in Nat, Below(top) PROVE Below(top)'
    BY <1>2, <2>2, <2>3, <2>4 DEF Below
  <2>5. CASE files[Git] = u.from
    <3>1. PICK n \in Versions \cup {Gone} : n = Gone
      OBVIOUS
    <3>2. files' = [files EXCEPT ![Git] = n]
      BY <2>2, <2>5, <3>1
    <3> QED BY <1>1, <2>2, <2>4, <3>1, <3>2, TreeOwned
  <2>6. CASE files[Git] # u.from
    <3>1. files' = files
      BY <2>2, <2>6 DEF MachineOK
    <3>2. Owned(o)'
      BY <1>1, <2>2, <3>1, OwnedKept DEF Announced
    <3> QED BY <2>4, <3>2
  <2> QED BY <2>5, <2>6
<1>5. CASE u.op \in {"Keep", "DaemonReload", "StartUnit", "StopUnit"}
  <2>1. UNCHANGED <<files, backups>>
    BY <1>5 DEF undo, machine
  <2>2. Owned(o)'
    BY <1>1, <2>1, OwnedKept DEF Announced
  <2> QED BY <2>1, <2>2 DEF Below
<1> QED BY <1>3, <1>4, <1>5, UndoCases

LEMMA ChainsKept == ASSUME Typed, Linked, [Next]_vars PROVE Chains'
<1> DEFINE Newest == IF io = "acted" THEN seq + 1 ELSE seq
           Own  == \E o \in [Versions -> Place] : Owned(o)
<1> SUFFICES ASSUME goal' = None PROVE Own' /\ (mode' = "running" => Below(Newest)')
  BY DEF Chains
<1>1. goal = None /\ ~\E how \in Hows : RecordCommit(how)
  BY GoalKept
<1>2. Own /\ (mode = "running" => Below(Newest))
  BY <1>1 DEF Linked, Chains
<1>3. io \notin {"committing", "incomplete"} /\ mode # "finishing"
  BY <1>1 DEF Linked, Uncommitted
<1>4. mode' = "running" => mode = "running"
  BY StaysOver DEF vars
<1>5. ASSUME UNCHANGED <<files, backups>>, mode' = "running" => Newest' >= Newest
      PROVE  Own' /\ (mode' = "running" => Below(Newest)')
  <2>1. Own'
    BY <1>2, <1>5, OwnedKept, AnnouncedStays
  <2>2. ASSUME mode' = "running" PROVE Below(Newest)'
    <3>1. PICK k \in Nat, l \in Nat : k = Newest /\ l = Newest' /\ l >= k
      BY <1>5, <2>2, NumbersKept DEF Typed, Fed
    <3>2. Below(k)
      BY <1>2, <1>4, <2>2, <3>1
    <3>3. /\ \A p \in Place : files[p] \in Versions => files[p] <= l
          /\ \A n \in Versions : /\ backups[n] \in Versions => backups[n] <= l
                                 /\ n > l => backups[n] = Gone
      BY <3>1, <3>2 DEF Below, Versions
    <3> QED BY <1>5, <3>1, <3>3 DEF Below
  <2> QED BY <2>1, <2>2
<1>6. CASE Effect
  <2>1. Newest' = (seq + 1)' /\ seq' = seq
    BY <1>6 DEF Effect
  <2> QED BY <1>1, <1>6, <2>1, EffectOwned DEF Linked
<1>7. CASE Revert \/ RecoverUndo
  <2>1. PICK u \in DriveAction : applies(u) /\ undo(u)
    BY <1>7, UndoingIn, NextTodo DEF Typed, Revert, RecoverUndo
  <2>2. log' = log /\ Newest' = seq' /\ seq' = seq /\ seq \in Nat /\ (mode = "running" => Newest = seq)
    BY <1>7 DEF Revert, RecoverUndo, disk, Typed, Fed
  <2>3. Own' /\ \A top \in Nat : Below(top) => Below(top)'
    BY <1>2, <2>1, <2>2, UndoOwned DEF Typed
  <2> QED BY <1>2, <1>4, <2>2, <2>3 DEF Below
<1>8. CASE DeleteBackup \/ DeleteDiscard \/ LeavePath \/ CommitStopped \/ CommitFails \/ FinishBackup
           \/ FinishFails \/ Finished \/ \E how \in Hows : CommitDone(how)
  BY <1>3, <1>8 DEF DeleteBackup, DeleteDiscard, LeavePath, CommitStopped, CommitFails, FinishBackup,
                    FinishFails, Finished, CommitDone, commits
<1>9. CASE \/ Fail \/ \E how \in Hows : Prepare(how) \/ Succeed(how) \/ Satisfied(how)
  <2>1. UNCHANGED machine
    BY <1>9 DEF Fail, Prepare, Succeed, Satisfied
  <2>2. Newest' >= Newest
    BY <1>9 DEF Fail, Prepare, Succeed, Satisfied, numbered, Typed, Fed
  <2> QED BY <1>5, <2>1, <2>2 DEF machine
<1>10. CASE \/ Step \/ Begin \/ Observe \/ RevertFails \/ Return \/ Interrupt \/ Rest \/ UNCHANGED vars
            \/ \E how \in Hows : Create(how) \/ KeepReverted(how) \/ EndJournal(how)
  <2>1. /\ UNCHANGED machine /\ seq' = seq
        /\ io' = io \/ (io \in {"opening", "reverted"} /\ io' = "idle")
    BY <1>10 DEF Create, Step, Begin, Observe, RevertFails, Return, Interrupt, Rest, vars, KeepReverted,
                 EndJournal, driver
  <2>2. Newest' >= Newest
    BY <2>1 DEF Typed, Fed
  <2> QED BY <1>5, <2>1, <2>2 DEF machine
<1>11. CASE Recover(FALSE) \/ Recover(TRUE) \/ RecoverFails \/ Recovered \/ Crash
            \/ \E how \in Hows : RecoverReverted(how)
  <2>1. UNCHANGED machine
    BY <1>11 DEF Recover, RecoverFails, Recovered, Crash, RecoverReverted
  <2>2. mode' # "running"
    BY <1>4, <1>11 DEF Recover, RecoverFails, Recovered, Crash, RecoverReverted
  <2> QED BY <1>5, <2>1, <2>2 DEF machine
<1> QED BY <1>1, <1>6, <1>7, <1>8, <1>9, <1>10, <1>11 DEF Next, Request, Recovering

LEMMA LinkedKept ==
  ASSUME Typed, Linked, mode = "running" => ~torn, [Next]_vars
  PROVE  Linked'
  BY ChainsKept, AheadKept, UncommittedKept DEF Linked

LEMMA InitLinked == ASSUME Init PROVE Linked
<1> USE DEF DriveAssumption
<1>1. Gone \notin Versions /\ 0 \notin Versions /\ 0 # Gone
  BY DEF Gone, Versions
<1>2. /\ \A p \in Place : files[p] \in {0, Gone}
      /\ \A n \in Versions : backups[n] = Gone
      /\ \A p \in Guarded : files[p] = 0
  BY DEF Init, Guarded, Versions
<1>3. PICK o : o \in [Versions -> Place]
  <2>1. [n \in Versions |-> Git] \in [Versions -> Place]
    OBVIOUS
  <2> QED BY <2>1
<1>4. Owned(o) /\ Below(0)
  BY <1>1, <1>2 DEF Owned, Below
<1>5. Chains
  BY <1>3, <1>4 DEF Init, Chains
<1>6. Ahead
  BY DEF Init, Ahead
<1>7. Uncommitted
  BY DEF Init, Uncommitted, Began, Committing
<1> QED BY <1>5, <1>6, <1>7 DEF Linked

(* Until the commit is on record, whatever fails, is stopped or crashes    *)
(* and however far a rollback or a recovery got, the journal names every   *)
(* write to a guarded file and what it replaced is kept - as long as no    *)
(* write of the journal leaves half a line while the request runs.         *)
THEOREM NothingIsBeyondRecall == Spec /\ [](Running => ~torn) => []CanBePutBack
<1>1. Typed /\ Linked => CanBePutBack
  BY DEF Linked, Chains, Owned, Written, Announced, Versions, CanBePutBack
<1>2. Typed /\ Linked /\ (Running => ~torn) /\ [Next]_vars => (Typed /\ Linked)'
  BY TypedKept, LinkedKept DEF Running
<1>3. Init => Typed /\ Linked
  BY InitTyped, InitLinked
<1> QED BY <1>1, <1>2, <1>3, PTL DEF Spec
=============================================================================
