---------------------------- MODULE ProfileProofs ----------------------------
(***************************************************************************)
(* Proofs about Profile, for every set of lists and pins and every bound.  *)
(*                                                                         *)
(* Three invariants, each resting on the one before.  Inv: every undo that *)
(* is journalled or still to be tried spares the generations the request   *)
(* found, so those are kept whoever acts in between.  CourseInv: while     *)
(* nobody meddles, what a request wrote, the generation made of it, the    *)
(* link and the home follow one another, so that done means whole.         *)
(* BackInv: the undos in the journal are what is left of one activation    *)
(* and of one write, and carrying them out in turn leads back to what the  *)
(* request found, wherever it stands and however often it was killed.      *)
(***************************************************************************)
EXTENDS Profile, WellFoundedInduction, SequenceTheorems, TLAPS

Generation == 1..(MaxGeneration + 2)
Config == [list : Lists \cup {"none", "torn", "broken", "newer"}, pins : Nat]

(* The undos there are, and those that spare the generations a request     *)
(* found.                                                                  *)
Acts == [undo : {"switch"}, to : Nat, expect : Nat] \cup [undo : {"delete"}, generation : Nat]
        \cup [undo : {"apply"}] \cup [undo : {"files"}, was : Config]
Spares == {act \in Acts : act.undo = "delete" => act.generation \notin DOMAIN past.links}
Todo == [act : Spares, sure : BOOLEAN]

ProfileTyped ==
    /\ DOMAIN links \subseteq Generation /\ \A g \in DOMAIN links : links[g] \in Config
    /\ active \in Nat /\ home \in Config /\ files \in Config

OpTyped ==
    /\ {"kind", "want", "activating", "built", "previous", "before", "predicted", "new",
         "queue", "seen"} \subseteq DOMAIN op
    /\ op.want \in Config
    /\ op.built \in Nat /\ op.previous \in Nat /\ op.predicted \in Nat /\ op.new \in Nat

PastTyped == {"links", "active", "pins", "home", "files", "theirs", "want", "kind", "ran",
              "meddled", "stuck", "kept", "said"} \subseteq DOMAIN past

JournalTyped ==
    /\ journal = [done |-> journal.done, announced |-> journal.announced]
    /\ journal.done \in Seq(Spares) /\ journal.announced \in Seq(Spares)
    /\ todo \in Seq(Todo)

Typed == ProfileTyped /\ OpTyped /\ PastTyped /\ JournalTyped

(* Between looking at the profile and leaving it, what the request found   *)
(* is among the generations it has seen.                                   *)
Looked ==
    pc \in {"build", "swap", "read", "activate", "unswitch", "undelete", "unapply", "switch", "apply"}
      => DOMAIN past.links \subseteq op.before

Resting ==
    /\ pc \notin {"undo", "undo2"} => todo = <<>>
    /\ pc = "undo2" => todo # <<>>
    /\ pc = "idle" => journal = NoJournal

Inv == Typed /\ Looked /\ Resting /\ OldGenerationsAreKept

-----------------------------------------------------------------------------
USE ProfileAssumption

(* The newest of some generations is one of them.                          *)
LEMMA NewestIs ==
  ASSUME NEW gens \in SUBSET Generation
  PROVE  /\ Newest(gens) \in Nat
         /\ \A g \in gens : g <= Newest(gens)
         /\ gens # {} => Newest(gens) \in gens
         /\ Newest(gens) + 1 \notin gens
<1>1. CASE gens = {}
  BY <1>1 DEF Newest, None
<1>2. CASE gens # {}
  <2> DEFINE top == MaxGeneration + 2
             mirror == {top - g : g \in gens}
  <2>1. top \in Nat /\ gens \subseteq 1..top
    BY DEF Generation
  <2> HIDE DEF top
  <2>2. mirror \subseteq Nat /\ mirror # {}
    <3>1. \A g \in gens : top - g \in Nat
      BY <2>1
    <3> QED BY <1>2, <3>1
  <2>3. PICK m \in mirror : \A k \in mirror : ~(<<k, m>> \in OpToRel(<, Nat))
    BY <2>2, NatLessThanWellFounded, WFMin
  <2>4. PICK g \in gens : m = top - g
    OBVIOUS
  <2>5. \A h \in gens : h <= g
    <3> TAKE h \in gens
    <3>1. top - h \in mirror /\ top - h \in Nat /\ m \in Nat
      BY <2>1, <2>2
    <3>2. ~(top - h < m)
      BY <2>3, <3>1 DEF OpToRel
    <3> QED BY <2>1, <2>4, <3>2
  <2>6. Newest(gens) \in gens /\ \A h \in gens : h <= Newest(gens)
    BY <1>2, <2>5 DEF Newest
  <2>7. Newest(gens) \in Nat /\ ~(Newest(gens) + 1 <= Newest(gens))
    <3> DEFINE n == Newest(gens)
    <3>1. n \in 1..top
      BY <2>1, <2>6
    <3> HIDE DEF n
    <3>2. n \in Nat /\ ~(n + 1 <= n)
      BY <3>1, <2>1
    <3> QED BY <3>2 DEF n
  <2> QED BY <2>6, <2>7
<1> QED BY <1>1, <1>2

(* The constants of the model.                                             *)
LEMMA Constants ==
  /\ Unread \in Config /\ Torn \in Config
  /\ \A l \in Lists : \A p \in Nat : [list |-> l, pins |-> p] \in Config
  BY DEF Unread, Torn, Config

LEMMA InitInv == ASSUME Init PROVE Inv
<1>1. PICK l \in Lists \cup {"broken", "newer"} : files = [list |-> l, pins |-> Embedded]
  BY DEF Init
<1>2. links \in {<<>>, <<[list |-> Seed, pins |-> Embedded]>>, <<Unread, [list |-> Seed, pins |-> Embedded]>>}
  BY DEF Init
<1>3. Embedded \in Nat /\ [list |-> Seed, pins |-> Embedded] \in Config
  BY DEF Config
<1>4. DOMAIN links \subseteq Generation /\ \A g \in DOMAIN links : links[g] \in Config
  BY <1>2, <1>3, Constants DEF Generation
<1>5. ProfileTyped
  BY <1>1, <1>3, <1>4, Constants, NewestIs DEF Init, ProfileTyped, Content, Config
<1>6. OpTyped
  BY Constants DEF Init, OpTyped, NoOp, None
<1>7. PastTyped /\ JournalTyped
  BY DEF Init, PastTyped, NoPast, JournalTyped, NoJournal
<1>8. Looked /\ Resting
  BY DEF Init, Looked, Resting, NoPast
<1>9. OldGenerationsAreKept
  BY DEF Init, OldGenerationsAreKept, NoPast
<1> QED BY <1>5, <1>6, <1>7, <1>8, <1>9 DEF Inv, Typed

(* Everything that can be linked into the home is a configuration.         *)
LEMMA Contents ==
  ASSUME ProfileTyped
  PROVE  (\A g : Content(g) \in Config) /\ Applied \in Config
  BY Constants DEF ProfileTyped, Content, Applied

(* The undo that is next.                                                  *)
LEMMA NextUndo ==
  ASSUME JournalTyped, todo # <<>>
  PROVE  /\ Head(todo).act \in Spares /\ Head(todo).act \in Acts /\ Head(todo).sure \in BOOLEAN
         /\ Tail(todo) \in Seq(Todo)
<1>1. Head(todo) \in Todo /\ Tail(todo) \in Seq(Todo)
  BY DEF JournalTyped
<1> QED BY <1>1 DEF Todo, Spares

(* What is deleted leaves the others as they were.                         *)
LEMMA Deletes ==
  ASSUME ProfileTyped, NEW g, delete(g)
  PROVE  /\ DOMAIN links' = DOMAIN links \ {g} /\ \A h \in DOMAIN links \ {g} : links'[h] = links[h]
         /\ DOMAIN links' \subseteq Generation /\ \A h \in DOMAIN links' : links'[h] \in Config
         /\ active' = active
  BY DEF delete, ProfileTyped

(* What a command of an undo makes of the profile.                         *)
LEMMA Carries ==
  ASSUME ProfileTyped, NEW u \in Acts, Carried(u)
  PROVE  /\ DOMAIN links' \subseteq Generation /\ \A h \in DOMAIN links' : links'[h] \in Config
         /\ active' \in Nat
<1>1. CASE u.undo = "switch" /\ switch_to(u.to)
  <2>1. u.to \in Nat
    BY <1>1 DEF Acts
  <2> QED BY <1>1, <2>1 DEF switch_to, ProfileTyped
<1>2. CASE u.undo = "delete" /\ delete(u.generation)
  BY <1>2, Deletes DEF ProfileTyped
<1> QED BY <1>1, <1>2 DEF Carried

(* The number nix gives to what it builds: a new one, or that of a         *)
(* generation with the same content.                                       *)
LEMMA NumberedIs ==
  ASSUME ProfileTyped
  PROVE  /\ Numbered <= MaxGeneration => Numbered \in Generation
         /\ Numbered \in DOMAIN links => links[Numbered] = files
<1> DEFINE n == Newest(DOMAIN links)
<1>1. n \in Nat /\ n + 1 \notin DOMAIN links /\ (DOMAIN links # {} => n \in DOMAIN links)
  BY NewestIs DEF ProfileTyped
<1>2. CASE DOMAIN links # {} /\ Content(n) = files
  <2>1. Numbered = n /\ n \in DOMAIN links
    BY <1>1, <1>2 DEF Numbered
  <2>2. links[n] = files /\ n \in Generation
    BY <1>2, <2>1 DEF Content, ProfileTyped
  <2> QED BY <2>1, <2>2
<1>3. CASE ~(DOMAIN links # {} /\ Content(n) = files)
  <2>1. Numbered = n + 1
    BY <1>3 DEF Numbered
  <2> HIDE DEF n
  <2> QED BY <1>1, <2>1 DEF Generation
<1> QED BY <1>2, <1>3

LEMMA ProfileTypedKept == ASSUME Inv, [Next]_vars PROVE ProfileTyped'
<1>0. ProfileTyped /\ OpTyped /\ JournalTyped
  BY DEF Inv, Typed
<1> USE <1>0
<1>1. CASE \/ Begin \/ AgentDies \/ QuestionFails \/ BuildFails \/ Check \/ FindBuilt
           \/ WaitProfileLocks \/ Look \/ SwapCut \/ Read \/ ReuseGone \/ Cleaned \/ CleanFails
           \/ Stage \/ Publish \/ RecordFails \/ UserCommits \/ Commit \/ RolledBack \/ Recover
           \/ UserTakes \/ UserLeaves \/ UNCHANGED vars
  <2>1. UNCHANGED <<links, active, home, files>>
    BY <1>1 DEF Begin, AgentDies, QuestionFails, BuildFails, Check, FindBuilt, WaitProfileLocks,
         Look, SwapCut, Read, ReuseGone, Cleaned, CleanFails, Stage, Publish, RecordFails,
         UserCommits, Commit, RolledBack, Recover, UserTakes, UserLeaves, vars, profile
  <2> QED BY <2>1 DEF ProfileTyped
<1>2. CASE Write \/ WriteUnanswered
  BY <1>2 DEF Write, WriteUnanswered, ProfileTyped, OpTyped, profile
<1>3. CASE Build
  <2>1. Numbered \in Generation
    BY <1>3, NumberedIs DEF Build
  <2> QED BY <1>3, <2>1 DEF Build, Linked, ProfileTyped
<1>4. CASE Swap \/ Reuse \/ Activate \/ ActivateFails \/ Reapply \/ ReapplyFails \/ Unswitch \/ Unapply
  <2>1. links' = links /\ files' = files
    BY <1>4 DEF Swap, Reuse, Activate, ActivateFails, Reapply, ReapplyFails, Unswitch, Unapply, switch_to
  <2>2. active' \in Nat
    BY <1>4 DEF Swap, Reuse, Activate, ActivateFails, Reapply, ReapplyFails, Unswitch, Unapply,
         switch_to, ProfileTyped, OpTyped
  <2>3. home' \in Config
    BY <1>4, Contents, Constants DEF Swap, Reuse, Activate, ActivateFails, Reapply, ReapplyFails,
         Unswitch, Unapply, ProfileTyped, OpTyped
  <2> QED BY <2>1, <2>2, <2>3 DEF ProfileTyped
<1>5. CASE Undelete
  BY <1>5, Deletes DEF Undelete, ProfileTyped
<1>6. CASE Clean
  BY <1>6, Deletes DEF Clean, ProfileTyped
<1>7. CASE Undo
  <2>1. Head(todo).act \in Acts
    BY <1>7, NextUndo DEF Undo
  <2>2. Head(todo).act.undo = "files" => Head(todo).act.was \in Config
    BY <2>1 DEF Acts
  <2> QED BY <1>7, <2>2, Contents DEF Undo, ProfileTyped
<1>8. CASE UndoFails
  BY <1>8, Constants DEF UndoFails, ProfileTyped
<1>9. CASE UndoActs
  <2>1. Head(todo).act \in Acts
    BY <1>9, NextUndo DEF UndoActs, Inv, Resting
  <2> QED BY <1>9, <2>1, Carries DEF UndoActs, ProfileTyped
<1>10. CASE Crash
  <2>1. CASE UNCHANGED profile /\ files' \in {files, op.want}
    BY <2>1 DEF ProfileTyped, OpTyped, profile
  <2>2. CASE home' \in {Torn, Applied} /\ UNCHANGED <<links, active, files>>
    BY <2>2, Contents, Constants DEF ProfileTyped
  <2>3. CASE pc = "undo2" /\ Carried(Head(todo).act) /\ UNCHANGED <<home, files>>
    <3>1. Head(todo).act \in Acts
      BY <2>3, NextUndo DEF Inv, Resting
    <3> QED BY <2>3, <3>1, Carries DEF ProfileTyped
  <2> QED BY <1>10, <2>1, <2>2, <2>3 DEF Crash
<1>11. CASE UserActs
  <2>1. CASE \E g \in DOMAIN links \ {active} : active' = g /\ home' = links[g] /\ UNCHANGED <<links, files>>
    BY <2>1 DEF ProfileTyped, Generation
  <2>2. CASE \E g \in DOMAIN links \ {active} : delete(g) /\ UNCHANGED <<home, files>>
    BY <2>2, Deletes DEF ProfileTyped
  <2>3. CASE LET g == Newest(DOMAIN links) + 1
             IN  g <= MaxGeneration /\ links' = Linked(g, Unread) /\ active' = g /\ home' = Unread
                 /\ UNCHANGED files
    <3> DEFINE g == Newest(DOMAIN links) + 1
    <3>1. g \in Nat \ {0} /\ g <= MaxGeneration
      BY <2>3, NewestIs DEF ProfileTyped
    <3> HIDE DEF g
    <3>2. g \in Generation
      BY <3>1 DEF Generation
    <3>3. links' = Linked(g, Unread) /\ active' = g /\ home' = Unread /\ UNCHANGED files
      BY <2>3 DEF g
    <3> QED BY <3>1, <3>2, <3>3, Constants DEF Linked, ProfileTyped
  <2> QED BY <1>11, <2>1, <2>2, <2>3 DEF UserActs
<1> QED BY <1>1, <1>2, <1>3, <1>4, <1>5, <1>6, <1>7, <1>8, <1>9, <1>10, <1>11 DEF Next

(* Every step leaves the fields of the request readable.                   *)
LEMMA OpTypedKept == ASSUME Inv, [Next]_vars PROVE OpTyped'
<1>0. ProfileTyped /\ OpTyped
  BY DEF Inv, Typed
<1> USE <1>0
<1>1. CASE op' = op
  BY <1>1 DEF OpTyped
<1>2. CASE op' = NoOp \/ Recover
  BY <1>2, Constants DEF OpTyped, NoOp, None, Recover
<1>3. CASE Begin
  <2>1. settle(files.list, Content(active).list).list \in Lists \cup {"newer"}
    BY DEF settle
  <2>2. configured.list.list \in Lists
    BY <1>3, <2>1 DEF Begin, configured
  <2>3. settle_pins(files.pins, Content(active).pins) \in Nat
    BY Contents DEF settle_pins, forward, ProfileTyped, Config
  <2>4. configured.pins \in Nat
    BY <2>3 DEF configured
  <2> DEFINE cfg == configured
  <2> HIDE DEF cfg
  <2>5. cfg.list.list \in Lists /\ cfg.pins \in Nat
    BY <2>2, <2>4 DEF cfg
  <2>6. CASE \E want \in Lists : Changing(cfg, want)
    BY <2>5, <2>6, Constants DEF Changing, OpTyped, NoOp, None
  <2>7. CASE \E newest \in Pins : Updating(cfg, newest)
    <3>1. PICK newest \in Pins : Updating(cfg, newest)
      BY <2>7
    <3>2. decide(cfg.pins, newest) \in Nat
      BY <2>5 DEF decide
    <3> QED BY <2>5, <3>1, <3>2, Constants DEF Updating, OpTyped, NoOp, None
  <2>8. CASE Cleaning(cfg)
    BY <2>5, <2>8, Constants DEF Cleaning, OpTyped, NoOp, None
  <2> QED BY <1>3, <2>6, <2>7, <2>8 DEF Begin, cfg
<1>4. CASE Check \/ Clean \/ Stage
  BY <1>4 DEF Check, Clean, Stage, OpTyped
<1>5. CASE FindBuilt
  <2>1. {g \in DOMAIN links : links[g] = files} \in SUBSET Generation
    BY DEF ProfileTyped
  <2>2. built_generation \in Nat
    BY <2>1, NewestIs DEF built_generation
  <2> QED BY <1>5, <2>2 DEF FindBuilt, OpTyped
<1>6. CASE Look
  <2>1. Newest(DOMAIN links) \in Nat
    BY NewestIs DEF ProfileTyped
  <2> QED BY <1>6, <2>1 DEF Look, OpTyped, ProfileTyped, None
<1>7. CASE Build
  <2>1. Numbered \in Nat
    BY <1>7, NumberedIs DEF Build, Generation
  <2> QED BY <1>7, <2>1 DEF Build, OpTyped
<1>8. CASE Read
  BY <1>8 DEF Read, OpTyped, ProfileTyped
<1>9. \/ op' \in {op, NoOp} \/ Recover \/ Begin \/ Check \/ Clean \/ Stage \/ FindBuilt
      \/ Look \/ Build \/ Read
  BY DEF Next, vars, Write, WriteUnanswered, AgentDies, QuestionFails, BuildFails, WaitProfileLocks,
       Swap, SwapCut, Activate, ActivateFails, Unswitch, Undelete, Unapply, Reuse, ReuseGone,
       Reapply, ReapplyFails, Cleaned, CleanFails, Publish, RecordFails, UserCommits, Commit,
       Undo, UndoFails, UndoActs, RolledBack, Crash, UserTakes, UserActs, UserLeaves
<1> QED BY <1>1, <1>2, <1>3, <1>4, <1>5, <1>6, <1>7, <1>8, <1>9

(* Only a request that begins looks at the generations anew: what is       *)
(* remembered of them is else what it was, or less.                        *)
LEMMA PastTypedKept ==
  ASSUME Inv, [Next]_vars
  PROVE  /\ PastTyped'
         /\ Begin \/ Clean \/ UserActs \/ past'.links = past.links
         /\ ~Begin => DOMAIN past'.links \subseteq DOMAIN past.links
<1>0. PastTyped
  BY DEF Inv, Typed
<1> USE <1>0
<1>1. CASE Begin
  BY <1>1 DEF Begin, PastTyped, NoPast
<1>2. CASE Clean
  <2>1. past' = past \/ \E g : past' = [past EXCEPT !.links = Without(@, g), !.theirs = @ \ {g}]
    BY <1>2 DEF Clean
  <2>2. \A g : DOMAIN Without(past.links, g) \subseteq DOMAIN past.links
    BY DEF Without
  <2>3. PastTyped' /\ (past'.links = past.links \/ \E g : past'.links = Without(past.links, g))
    BY <2>1 DEF PastTyped
  <2> QED BY <1>2, <2>2, <2>3
<1>3. CASE UserActs
  <2>1. \/ \E g : past' = [Meddled EXCEPT !.theirs = @ \cup {g}]
        \/ past' = Meddled
        \/ \E g : past' = [Meddled EXCEPT !.links = Without(@, g), !.theirs = @ \ {g}]
    BY <1>3 DEF UserActs
  <2>2. \A g : DOMAIN Without(past.links, g) \subseteq DOMAIN past.links
    BY DEF Without
  <2>3. DOMAIN Meddled = DOMAIN past /\ Meddled.links = past.links
    BY DEF Meddled, PastTyped
  <2> HIDE DEF Meddled
  <2>4. PastTyped' /\ (past'.links = past.links \/ \E g : past'.links = Without(past.links, g))
    <3>1. CASE \E g : past' = [Meddled EXCEPT !.theirs = @ \cup {g}]
      BY <2>3, <3>1 DEF PastTyped
    <3>2. CASE past' = Meddled
      BY <2>3, <3>2 DEF PastTyped
    <3>3. CASE \E g : past' = [Meddled EXCEPT !.links = Without(@, g), !.theirs = @ \ {g}]
      BY <2>3, <3>3 DEF PastTyped
    <3> QED BY <2>1, <3>1, <3>2, <3>3
  <2> QED BY <1>3, <2>2, <2>4
<1>4. CASE past' = past
  BY <1>4 DEF PastTyped
<1>5. CASE Activate \/ Reapply
  BY <1>5 DEF Activate, Reapply, Ends, PastTyped
<1>6. CASE Commit \/ RolledBack \/ Crash
  BY <1>6 DEF Commit, RolledBack, Crash, PastTyped
<1>7. CASE Undone \/ NotUndone
  BY <1>7 DEF Undone, NotUndone, PastTyped
<1>8. Undo => past' = past \/ Undone \/ NotUndone
  BY DEF Undo, Looks
<1>9. UndoFails \/ UndoActs => Undone \/ NotUndone
  BY DEF UndoFails, UndoActs
<1>10. \/ past' = past \/ Begin \/ Clean \/ UserActs \/ Activate \/ Reapply \/ Commit
       \/ RolledBack \/ Crash \/ Undone \/ NotUndone
  BY <1>8, <1>9 DEF Next, vars, Write, WriteUnanswered, AgentDies, QuestionFails, BuildFails,
       WaitProfileLocks, Swap, SwapCut, ActivateFails, Unswitch, Undelete, Unapply, Reuse,
       ReuseGone, ReapplyFails, Cleaned, CleanFails, Publish, RecordFails, UserCommits, Goes,
       Check, FindBuilt, Look, Build, Read, Stage, Recover, UserTakes, UserLeaves
<1> QED BY <1>1, <1>2, <1>3, <1>4, <1>5, <1>6, <1>7, <1>10

(* Undos that spare what a request found go on sparing what is left of it. *)
LEMMA SparesMore ==
  ASSUME DOMAIN past'.links \subseteq DOMAIN past.links
  PROVE  /\ Spares \subseteq Spares' /\ Todo \subseteq Todo'
         /\ \A s \in Seq(Spares) : s \in Seq(Spares')
         /\ \A s \in Seq(Todo) : s \in Seq(Todo')
<1>1. Spares \subseteq Spares'
  BY DEF Spares, Acts
<1>2. Todo \subseteq Todo'
  BY <1>1 DEF Todo
<1>3. \A S, T : S \subseteq T => \A s \in Seq(S) : s \in Seq(T)
  OBVIOUS
<1> QED BY <1>1, <1>2, <1>3

(* A journal as a list of undos to try.                                    *)
LEMMA RollsBack ==
  ASSUME NEW S, NEW j, j.announced \in Seq(S), j.done \in Seq(S)
  PROVE  RollBack(j) \in Seq([act : S, sure : BOOLEAN])
<1> DEFINE T == [act : S, sure : BOOLEAN]
<1>1. \A u \in Seq(S) : Unsure(u) \in [1..Len(u) -> T] /\ Len(u) \in Nat
  BY DEF Unsure
<1>2. \A u \in Seq(S) : Sure(u) \in [1..Len(u) -> T] /\ Len(u) \in Nat
  BY DEF Sure
<1> HIDE DEF T
<1>3. \A n \in Nat : \A f \in [1..n -> T] : f \in Seq(T)
  OBVIOUS
<1>4. \A u \in Seq(S) : Unsure(u) \in Seq(T) /\ Sure(u) \in Seq(T)
  BY <1>1, <1>2, <1>3, Zenon
<1>5. RollBack(j) \in Seq(T)
  BY <1>4 DEF RollBack
<1> QED BY <1>5 DEF T

(* Crossing an undo off a list.                                            *)
LEMMA Drops ==
  ASSUME NEW S, NEW undos \in Seq(S), NEW act
  PROVE  Drop(undos, act) \in Seq(S)
<1>1. CASE ~\E i \in DOMAIN undos : undos[i] = act
  BY <1>1 DEF Drop
<1>2. CASE \E i \in DOMAIN undos : undos[i] = act
  <2> DEFINE at == CHOOSE i \in DOMAIN undos : undos[i] = act
  <2>1. at \in 1..Len(undos)
    BY <1>2
  <2> HIDE DEF at
  <2>2. SubSeq(undos, 1, at - 1) \in Seq(S)
    BY <2>1
  <2>3. SubSeq(undos, at + 1, Len(undos)) \in Seq(S)
    BY <2>1
  <2>4. Drop(undos, act) = SubSeq(undos, 1, at - 1) \o SubSeq(undos, at + 1, Len(undos))
    BY <1>2 DEF Drop, at
  <2> QED BY <2>2, <2>3, <2>4
<1> QED BY <1>1, <1>2

(* The undos that actions leave behind spare what a request found.         *)
LEMMA ActsSpare ==
  /\ \A was \in Config : Restore(was) \in Spares
  /\ Apply \in Spares
  /\ \A to, expect \in Nat : Switch(to, expect) \in Spares
  /\ \A g \in Nat : g \notin DOMAIN past.links => Delete(g) \in Spares
<1>1. /\ \A was \in Config : Restore(was) \in Acts
      /\ Apply \in Acts
      /\ \A to, expect \in Nat : Switch(to, expect) \in Acts
      /\ \A g \in Nat : Delete(g) \in Acts
  BY DEF Restore, Apply, Switch, Delete, Acts
<1>2. /\ \A was \in Config : Restore(was).undo # "delete"
      /\ Apply.undo # "delete"
      /\ \A to, expect \in Nat : Switch(to, expect).undo # "delete"
      /\ \A g \in Nat : Delete(g).generation = g
  BY DEF Restore, Apply, Switch, Delete
<1> QED BY <1>1, <1>2 DEF Spares

LEMMA ActivationSpares ==
  ASSUME NEW previous \in Nat, NEW new \in Nat
  PROVE  /\ new \notin DOMAIN past.links => undo_activation(previous, new) \in Seq(Spares)
         /\ undo_reuse(previous, new) \in Seq(Spares)
<1>1. Switch(previous, new) \in Spares /\ Apply \in Spares
  BY ActsSpare
<1>2. ASSUME new \notin DOMAIN past.links PROVE Delete(new) \in Spares
  BY <1>2, ActsSpare
<1> QED BY <1>1, <1>2 DEF undo_activation, undo_reuse

(* A journal and a list of undos made of such undos.                       *)
LEMMA JournalBecomes ==
  ASSUME DOMAIN past'.links \subseteq DOMAIN past.links,
         NEW d \in Seq(Spares), NEW a \in Seq(Spares),
         journal' = [done |-> d, announced |-> a], todo' \in Seq(Todo)
  PROVE  JournalTyped'
<1>1. journal'.done = d /\ journal'.announced = a
  OBVIOUS
<1>2. d \in Seq(Spares') /\ a \in Seq(Spares') /\ todo' \in Seq(Todo')
  BY SparesMore
<1> QED BY <1>1, <1>2 DEF JournalTyped

LEMMA JournalTypedKept == ASSUME Inv, [Next]_vars PROVE JournalTyped'
<1>0. ProfileTyped /\ OpTyped /\ JournalTyped /\ Looked /\ Resting /\ OldGenerationsAreKept
  BY DEF Inv, Typed
<1> USE <1>0
<1>a. ~Begin => DOMAIN past'.links \subseteq DOMAIN past.links
  BY PastTypedKept
<1>b. /\ journal = [done |-> journal.done, announced |-> journal.announced]
      /\ journal.done \in Seq(Spares) /\ journal.announced \in Seq(Spares) /\ todo \in Seq(Todo)
  BY DEF JournalTyped
<1>c. Begin => pc = "idle" /\ pc' = "write"
  BY DEF Begin
<1>1. CASE Begin
  BY <1>1 DEF Begin, Resting, NoJournal, JournalTyped
<1>2. CASE ~Begin /\ UNCHANGED <<journal, todo>>
  BY <1>2, <1>a, <1>b, JournalBecomes
<1>3. CASE ~Begin /\ Fail(journal)
  <2>1. todo' \in Seq(Todo) /\ journal' = journal
    BY <1>3, <1>b, RollsBack DEF Fail, Todo
  <2> QED BY <1>3, <1>a, <1>b, <2>1, JournalBecomes
<1>4. CASE Write
  <2>1. journal' = journal \/ journal' = [done |-> <<Restore(files)>> \o journal.done,
                                          announced |-> journal.announced]
    BY <1>4, <1>b DEF Write
  <2>2. <<Restore(files)>> \o journal.done \in Seq(Spares)
    BY <1>b, ActsSpare DEF ProfileTyped
  <2>3. ~Begin /\ todo' = todo
    BY <1>4, <1>c DEF Write, Goes
  <2> QED BY <1>a, <1>b, <2>1, <2>2, <2>3, JournalBecomes
<1>5. CASE WriteUnanswered
  <2>1. journal' = [done |-> journal.done, announced |-> <<Restore(files)>>] /\ todo' = RollBack(journal')
    BY <1>5, <1>b DEF WriteUnanswered, Fail
  <2>2. <<Restore(files)>> \in Seq(Spares)
    BY <1>b, ActsSpare DEF ProfileTyped
  <2>3. journal'.done \in Seq(Spares) /\ journal'.announced \in Seq(Spares)
    BY <1>b, <2>1, <2>2
  <2>4. todo' \in Seq(Todo)
    BY <2>1, <2>3, RollsBack DEF Todo
  <2>5. ~Begin
    BY <1>5, <1>c DEF WriteUnanswered, Fail
  <2> QED BY <1>a, <1>b, <2>1, <2>2, <2>4, <2>5, JournalBecomes
<1>6. CASE Look
  <2> DEFINE p == Newest(DOMAIN links) + 1
  <2>1. p \in Nat /\ p \notin DOMAIN past.links
    BY NewestIs DEF ProfileTyped, OldGenerationsAreKept
  <2>2. active \in Nat /\ op.built \in Nat
    BY DEF ProfileTyped, OpTyped
  <2>3. PICK a \in {undo_activation(active, p), undo_reuse(active, op.built), <<>>} :
            journal' = [done |-> journal.done, announced |-> a]
    BY <1>6, <1>b DEF Look
  <2> HIDE DEF p
  <2>a. undo_activation(active, p) \in Seq(Spares)
    BY <2>1, <2>2, ActivationSpares
  <2>b. undo_reuse(active, op.built) \in Seq(Spares)
    BY <2>2, ActivationSpares
  <2>c. <<>> \in Seq(Spares)
    OBVIOUS
  <2>4. a \in Seq(Spares)
    BY <2>a, <2>b, <2>c, <2>3, Zenon
  <2>5. ~Begin /\ todo' = todo
    BY <1>6, <1>c DEF Look, Goes
  <2> QED BY <1>a, <1>b, <2>3, <2>4, <2>5, JournalBecomes
<1>7. CASE Activate
  <2>1. op.previous \in Nat /\ op.new \in Nat
    BY DEF OpTyped
  <2>2. op.new \notin op.before => op.new \notin DOMAIN past.links
    BY <1>7 DEF Activate, Looked
  <2>a. op.new \notin op.before => undo_activation(op.previous, op.new) \in Seq(Spares)
    BY <2>1, <2>2, ActivationSpares
  <2>b. undo_reuse(op.previous, op.new) \in Seq(Spares)
    BY <2>1, ActivationSpares
  <2>3. Settled(op) \in Seq(Spares)
    BY <2>a, <2>b DEF Settled
  <2>4. Settled(op) \o journal.done \in Seq(Spares)
    BY <1>b, <2>3
  <2>5. journal' = [done |-> Settled(op) \o journal.done, announced |-> <<>>] /\ todo' = todo /\ ~Begin
    BY <1>7, <1>c DEF Activate, Ends
  <2>6. <<>> \in Seq(Spares)
    OBVIOUS
  <2> QED BY <1>a, <1>b, <2>4, <2>5, <2>6, JournalBecomes
<1>8. CASE Reapply
  <2>1. journal.announced \o journal.done \in Seq(Spares) /\ <<>> \in Seq(Spares)
    BY <1>b
  <2>2. /\ journal' = [done |-> journal.announced \o journal.done, announced |-> <<>>]
        /\ todo' = todo /\ ~Begin
    BY <1>8, <1>c DEF Reapply, Ends
  <2> QED BY <1>a, <1>b, <2>1, <2>2, JournalBecomes
<1>9. CASE ~Begin /\ journal' = NoJournal /\ todo' = todo
  <2>1. <<>> \in Seq(Spares)
    OBVIOUS
  <2> QED BY <1>9, <1>a, <1>b, <2>1, JournalBecomes DEF NoJournal
<1>10. CASE ~Begin /\ Undone /\ todo # <<>>
  <2>1. Tail(todo) \in Seq(Todo)
    BY <1>10, NextUndo
  <2>2. journal' = Reverted(Head(todo)) /\ todo' = Tail(todo)
    BY <1>10 DEF Undone
  <2>3. PICK u : u = Head(todo).act
    OBVIOUS
  <2>4. \/ journal' = [done |-> Drop(journal.done, u), announced |-> journal.announced]
        \/ journal' = [done |-> journal.done, announced |-> Drop(journal.announced, u)]
    BY <1>b, <2>2, <2>3 DEF Reverted
  <2>5. Drop(journal.done, u) \in Seq(Spares) /\ Drop(journal.announced, u) \in Seq(Spares)
    BY <1>b, Drops
  <2> QED BY <1>10, <1>a, <1>b, <2>1, <2>2, <2>4, <2>5, JournalBecomes
<1>11. CASE ~Begin /\ NotUndone /\ todo # <<>>
  <2>1. Tail(todo) \in Seq(Todo)
    BY <1>11, NextUndo
  <2> QED BY <1>11, <1>a, <1>b, <2>1, JournalBecomes DEF NotUndone
<1>12. CASE Crash
  <2>1. /\ journal' = journal \/ journal' = [done |-> journal.done, announced |-> <<Restore(files)>>]
        /\ todo' = <<>> /\ ~Begin
    BY <1>12, <1>b, <1>c DEF Crash
  <2>2. <<Restore(files)>> \in Seq(Spares) /\ <<>> \in Seq(Todo)
    BY ActsSpare DEF ProfileTyped
  <2> QED BY <1>a, <1>b, <2>1, <2>2, JournalBecomes
<1>13. CASE Recover
  <2>1. todo' \in Seq(Todo) /\ journal' = journal /\ ~Begin
    BY <1>13, <1>b, <1>c, RollsBack DEF Recover, Todo
  <2> QED BY <1>a, <1>b, <2>1, JournalBecomes
<1>14. Undo => ~Begin /\ (todo # <<>>) /\ (UNCHANGED <<journal, todo>> \/ Undone \/ NotUndone)
  BY <1>c DEF Undo, Looks
<1>15. UndoFails \/ UndoActs => ~Begin /\ (todo # <<>>) /\ (Undone \/ NotUndone)
  BY <1>c DEF UndoFails, UndoActs, Resting
<1>16. QuestionFails \/ BuildFails \/ SwapCut \/ Unapply \/ ReuseGone \/ CleanFails => Fail(journal)
  BY DEF QuestionFails, BuildFails, SwapCut, Unapply, ReuseGone, CleanFails
<1>17. \/ AgentDies \/ WaitProfileLocks \/ Swap \/ ActivateFails \/ Unswitch \/ Undelete \/ Reuse
       \/ ReapplyFails \/ Clean \/ Cleaned \/ Stage \/ Publish \/ RecordFails \/ UserCommits \/ Check
       \/ FindBuilt \/ Build \/ Read \/ UserTakes \/ UserActs \/ UserLeaves \/ UNCHANGED vars
       => UNCHANGED <<journal, todo>>
  BY DEF vars, AgentDies, WaitProfileLocks, Swap, ActivateFails, Unswitch, Undelete, Reuse,
       ReapplyFails, Clean, Cleaned, Stage, Publish, RecordFails, UserCommits, Check, FindBuilt,
       Build, Read, UserTakes, UserActs, UserLeaves, Goes
<1>18. Commit \/ RolledBack => UNCHANGED <<journal, todo>> \/ (journal' = NoJournal /\ todo' = todo)
  BY DEF Commit, RolledBack
<1>19. \/ Begin \/ Write \/ WriteUnanswered \/ Look \/ Activate \/ Reapply \/ Crash \/ Recover
       \/ UNCHANGED <<journal, todo>> \/ Fail(journal)
       \/ (journal' = NoJournal /\ todo' = todo)
       \/ (todo # <<>> /\ Undone)
       \/ (todo # <<>> /\ NotUndone)
  BY <1>14, <1>15, <1>16, <1>17, <1>18 DEF Next
<1> QED BY <1>1, <1>2, <1>3, <1>4, <1>5, <1>6, <1>7, <1>8, <1>9, <1>10, <1>11, <1>12, <1>13, <1>19

(* What a request has seen it goes on having seen.                         *)
LEMMA LookedKept == ASSUME Inv, [Next]_vars PROVE Looked'
<1> DEFINE Seen == {"build", "swap", "read", "activate", "unswitch", "undelete", "unapply", "switch", "apply"}
<1>0. OpTyped /\ Looked /\ OldGenerationsAreKept
  BY DEF Inv, Typed
<1>1. CASE Look
  <2>1. op'.before = DOMAIN links /\ past' = past
    BY <1>0, <1>1 DEF Look, Goes, OpTyped
  <2> QED BY <1>0, <2>1 DEF Looked, OldGenerationsAreKept
<1>2. CASE pc' \notin Seen
  BY <1>2 DEF Looked
<1>3. CASE ~Begin /\ pc \in Seen /\ op'.before = op.before
  <2>1. DOMAIN past'.links \subseteq DOMAIN past.links
    BY <1>3, PastTypedKept
  <2> QED BY <1>0, <1>3, <2>1 DEF Looked
<1>4. \/ Begin \/ Write \/ WriteUnanswered \/ QuestionFails \/ BuildFails \/ Check \/ FindBuilt
      \/ WaitProfileLocks \/ SwapCut \/ Activate \/ Unapply \/ ReuseGone \/ Reapply
      \/ Cleaned \/ CleanFails \/ Stage \/ Publish \/ RecordFails
      \/ Commit \/ Undo \/ UndoFails \/ UndoActs \/ RolledBack \/ Crash \/ Recover
      => pc' \notin Seen
  BY DEF Begin, Write, WriteUnanswered, QuestionFails, BuildFails, Check, FindBuilt,
       WaitProfileLocks, SwapCut, Activate, Unapply, ReuseGone, Reapply, Cleaned, CleanFails,
       Stage, Publish, RecordFails, Commit, Undo, UndoFails, UndoActs, RolledBack, Crash,
       Recover, Goes, Fail, Ends, Looks, Undone, NotUndone
<1>5. ASSUME Build \/ Swap \/ Read \/ ActivateFails \/ Unswitch \/ Undelete \/ Reuse \/ ReapplyFails
      PROVE  ~Begin /\ pc \in Seen /\ op'.before = op.before
  BY <1>0, <1>5 DEF Build, Swap, Read, ActivateFails, Unswitch, Undelete, Reuse, ReapplyFails,
       OpTyped, Begin
<1>6. ASSUME AgentDies \/ UserCommits \/ UserTakes \/ UserActs \/ UserLeaves \/ Clean \/ UNCHANGED vars
      PROVE  pc' = pc /\ op'.before = op.before
  BY <1>0, <1>6 DEF AgentDies, UserCommits, UserTakes, UserActs, UserLeaves, Clean, vars, OpTyped
<1>7. Begin => pc' \notin Seen
  BY DEF Begin
<1> HIDE DEF Seen
<1> QED BY <1>1, <1>2, <1>3, <1>4, <1>5, <1>6, <1>7 DEF Next

LEMMA RestingKept == ASSUME Inv, [Next]_vars PROVE Resting'
<1>0. Resting
  BY DEF Inv
<1> USE <1>0
<1>1. CASE \/ Begin \/ AgentDies \/ UserCommits \/ UserTakes \/ UserActs \/ UserLeaves \/ Clean
           \/ UNCHANGED vars
  BY <1>1 DEF Begin, AgentDies, UserCommits, UserTakes, UserActs, UserLeaves, Clean, vars, Resting
<1>2. CASE \/ Write \/ Check \/ FindBuilt \/ WaitProfileLocks \/ Look \/ Build \/ Swap \/ Read
           \/ Activate \/ Reuse \/ Reapply \/ Cleaned \/ Stage \/ Publish
  BY <1>2 DEF Write, Check, FindBuilt, WaitProfileLocks, Look, Build, Swap, Read, Activate,
       Reuse, Reapply, Cleaned, Stage, Publish, Goes, Ends, Resting
<1>3. CASE \/ ActivateFails \/ Unswitch \/ Undelete \/ ReapplyFails \/ RecordFails \/ Commit
           \/ RolledBack \/ Crash
  BY <1>3 DEF ActivateFails, Unswitch, Undelete, ReapplyFails, RecordFails, Commit, RolledBack,
       Crash, Resting
<1>4. CASE \/ WriteUnanswered \/ QuestionFails \/ BuildFails \/ SwapCut \/ Unapply \/ ReuseGone
           \/ CleanFails \/ Recover \/ UndoFails \/ UndoActs
  <2>1. pc' = "undo"
    BY <1>4 DEF WriteUnanswered, QuestionFails, BuildFails, SwapCut, Unapply, ReuseGone,
         CleanFails, Recover, UndoFails, UndoActs, Undone, NotUndone, Fail
  <2> QED BY <2>1 DEF Resting
<1>5. CASE Undo
  <2>1. pc' = "undo" \/ (pc' = "undo2" /\ todo' = todo /\ todo # <<>>)
    BY <1>5 DEF Undo, Looks, Undone, NotUndone
  <2> QED BY <2>1 DEF Resting
<1> QED BY <1>1, <1>2, <1>3, <1>4, <1>5 DEF Next

(* The generations a request found stay: what it builds gets a new number, *)
(* and what it deletes is spared.                                          *)
LEMMA OldKept == ASSUME Inv, [Next]_vars PROVE OldGenerationsAreKept'
<1>0. /\ ProfileTyped /\ OpTyped /\ PastTyped /\ JournalTyped
      /\ Looked /\ Resting /\ OldGenerationsAreKept
  BY DEF Inv, Typed
<1> USE <1>0
<1>1. CASE links' = links /\ past'.links = past.links
  BY <1>1 DEF OldGenerationsAreKept
<1>2. CASE Begin
  BY <1>2 DEF Begin, profile, PastTyped, NoPast, OldGenerationsAreKept
<1>3. CASE Build
  <2>1. past'.links = past.links /\ links' = Linked(Numbered, files)
    BY <1>3 DEF Build, Goes
  <2>2. Numbered \in DOMAIN links => links[Numbered] = files
    BY NumberedIs
  <2> QED BY <2>1, <2>2 DEF Linked, OldGenerationsAreKept
<1>4. ASSUME NEW g, delete(g), g \notin DOMAIN past.links, past'.links = past.links
      PROVE  OldGenerationsAreKept'
  BY <1>4, Deletes DEF OldGenerationsAreKept
<1>5. ASSUME NEW g, delete(g), past'.links = Without(past.links, g)
      PROVE  OldGenerationsAreKept'
  <2>1. DOMAIN past'.links = DOMAIN past.links \ {g}
    BY <1>5 DEF Without
  <2>2. \A h \in DOMAIN past.links \ {g} : past'.links[h] = past.links[h]
    BY <1>5 DEF Without
  <2>3. DOMAIN links' = DOMAIN links \ {g} /\ \A h \in DOMAIN links \ {g} : links'[h] = links[h]
    BY <1>5, Deletes
  <2> QED BY <2>1, <2>2, <2>3 DEF OldGenerationsAreKept
<1>6. CASE Undelete
  <2>1. past'.links = past.links
    BY <1>6 DEF Undelete
  <2>2. links' = links \/ (delete(op.new) /\ op.new \notin op.before)
    BY <1>6 DEF Undelete
  <2>3. op.new \notin op.before => op.new \notin DOMAIN past.links
    BY <1>6 DEF Undelete, Looked
  <2> QED BY <1>1, <1>4, <2>1, <2>2, <2>3
<1>7. CASE Clean
  <2>1. \/ UNCHANGED <<links, past>>
        \/ \E g : delete(g) /\ past' = [past EXCEPT !.links = Without(@, g), !.theirs = @ \ {g}]
    BY <1>7 DEF Clean
  <2>2. \/ links' = links /\ past'.links = past.links
        \/ \E g : delete(g) /\ past'.links = Without(past.links, g)
    BY <2>1 DEF PastTyped
  <2> QED BY <1>1, <1>5, <2>2
<1>8. CASE UserActs
  <2> DEFINE n == Newest(DOMAIN links) + 1
  <2>0. n \notin DOMAIN links
    BY NewestIs DEF ProfileTyped
  <2>1. \/ \E g : past' = [Meddled EXCEPT !.theirs = @ \cup {g}] /\ links' = Linked(n, Unread)
        \/ past' = Meddled /\ links' = links
        \/ \E g : delete(g) /\ past' = [Meddled EXCEPT !.links = Without(@, g), !.theirs = @ \ {g}]
    BY <1>8 DEF UserActs
  <2> HIDE DEF n
  <2>2. {"links", "theirs"} \subseteq DOMAIN Meddled /\ Meddled.links = past.links
    BY DEF Meddled, PastTyped
  <2>3. \/ past'.links = past.links /\ links' = Linked(n, Unread)
        \/ past'.links = past.links /\ links' = links
        \/ \E g : delete(g) /\ past'.links = Without(past.links, g)
    BY <2>1, <2>2
  <2>4. CASE past'.links = past.links /\ links' = Linked(n, Unread)
    BY <2>0, <2>4 DEF Linked, OldGenerationsAreKept
  <2> QED BY <1>1, <1>5, <2>3, <2>4
<1>9. ASSUME Carried(Head(todo).act), pc = "undo2", past'.links = past.links
      PROVE  OldGenerationsAreKept'
  <2>1. Head(todo).act \in Spares
    BY <1>9, NextUndo DEF Resting
  <2>2. links' = links \/ (delete(Head(todo).act.generation) /\ Head(todo).act.undo = "delete")
    BY <1>9 DEF Carried, switch_to
  <2>3. Head(todo).act.undo = "delete" => Head(todo).act.generation \notin DOMAIN past.links
    BY <2>1 DEF Spares
  <2> QED BY <1>1, <1>4, <1>9, <2>2, <2>3
<1>10. Crash => links' = links \/ (Carried(Head(todo).act) /\ pc = "undo2")
  BY DEF Crash, profile
<1>11. UndoActs => links' = links \/ (Carried(Head(todo).act) /\ pc = "undo2")
  BY DEF UndoActs
<1>12. Begin \/ Clean \/ UserActs \/ past'.links = past.links
  BY PastTypedKept
<1>13. \/ Write \/ WriteUnanswered \/ AgentDies \/ QuestionFails \/ BuildFails \/ Check \/ FindBuilt
       \/ WaitProfileLocks \/ Look \/ Swap \/ SwapCut \/ Read \/ Activate \/ ActivateFails
       \/ Unswitch \/ Unapply \/ Reuse \/ ReuseGone \/ Reapply \/ ReapplyFails \/ Cleaned
       \/ CleanFails \/ Stage \/ Publish \/ RecordFails \/ UserCommits \/ Commit \/ Undo
       \/ UndoFails \/ RolledBack \/ Recover \/ UserTakes \/ UserLeaves \/ UNCHANGED vars
       => links' = links
  BY DEF profile, switch_to, vars, Write, WriteUnanswered, AgentDies, QuestionFails, BuildFails,
       Check, FindBuilt, WaitProfileLocks, Look, Swap, SwapCut, Read, Activate, ActivateFails,
       Unswitch, Unapply, Reuse, ReuseGone, Reapply, ReapplyFails, Cleaned, CleanFails, Stage,
       Publish, RecordFails, UserCommits, Commit, Undo, UndoFails, RolledBack, Recover, UserTakes,
       UserLeaves
<1> QED BY <1>1, <1>2, <1>3, <1>6, <1>7, <1>8, <1>9, <1>10, <1>11, <1>12, <1>13 DEF Next

-----------------------------------------------------------------------------
(* The inductive invariant: the profile, the request and the journal have  *)
(* their types, every undo that is journalled or still to be tried spares  *)
(* the generations the request found, and those are as they were found.    *)
THEOREM ProfileInvariant == Spec => []Inv
<1>1. Inv /\ [Next]_vars => Inv'
  <2> SUFFICES ASSUME Inv, [Next]_vars PROVE Inv'
    OBVIOUS
  <2>1. ProfileTyped' /\ OpTyped' /\ PastTyped' /\ JournalTyped'
    BY ProfileTypedKept, OpTypedKept, PastTypedKept, JournalTypedKept
  <2>2. Looked' /\ Resting' /\ OldGenerationsAreKept'
    BY LookedKept, RestingKept, OldKept
  <2> QED BY <2>1, <2>2 DEF Inv, Typed
<1> QED BY <1>1, InitInv, PTL DEF Spec

(* No request but a clean deletes or rewrites a generation it found, and   *)
(* no rollback or recovery of one does, wherever it failed or was killed,  *)
(* even when the user switches, builds and deletes between its commands    *)
(* (activate, reuse and undo_activation of generations.rs).                *)
THEOREM GenerationsAreKept == Spec => []OldGenerationsAreKept
<1>1. Inv => OldGenerationsAreKept
  BY DEF Inv
<1> QED BY <1>1, ProfileInvariant, PTL

(* Recording a change adds one commit to the newest there is or none: what *)
(* the user committed since the files were staged is never dropped         *)
(* (Performer::record, which moves the branch only from the commit the new *)
(* one follows).                                                           *)
THEOREM RecordingOnlyAdds == Spec => HistoryOnlyGrows
<1>1. [Next]_vars => [head'.before = head.before + 1]_head
  <2> SUFFICES ASSUME [Next]_vars PROVE head' = head \/ head'.before = head.before + 1
    OBVIOUS
  <2>1. CASE Publish
    BY <2>1 DEF Publish
  <2>2. CASE UserCommits
    BY <2>2 DEF UserCommits
  <2>3. CASE head' = head
    BY <2>3
  <2>4. Publish \/ UserCommits \/ head' = head
    BY DEF Next, vars, Begin, Write, WriteUnanswered, AgentDies, QuestionFails, BuildFails, Check,
         FindBuilt, WaitProfileLocks, Look, Build, Swap, SwapCut, Read, Activate, ActivateFails,
         Unswitch, Undelete, Unapply, Reuse, ReuseGone, Reapply, ReapplyFails, Clean, Cleaned,
         CleanFails, Stage, RecordFails, Commit, Undo, UndoFails, UndoActs, RolledBack, Crash,
         Recover, UserTakes, UserActs, UserLeaves
  <2> QED BY <2>1, <2>2, <2>3, <2>4
<1> QED BY <1>1, PTL DEF Spec, HistoryOnlyGrows

-----------------------------------------------------------------------------
(* A request that nobody meddles with, step by step.                       *)
Recording == {"record", "publish", "commit"}
Made == {"swap", "read", "activate", "switch", "apply"}
Standing == {"write", "check", "find", "wait", "look", "build", "switch", "clean"}
Requesting == Standing \cup Made \cup Recording

(* What it wants is never an older pin than there was.                     *)
Wanted ==
    /\ past.said = "done" => pc = "idle"
    /\ past.pins \in Nat
    /\ pc \in Requesting => /\ op.kind = past.kind /\ op.want.pins >= past.pins
                            /\ op.kind = "change" => op.activating

(* The active generation exists, and so does the one nix is about to link  *)
(* while it holds its lock.                                                *)
Held ==
    /\ active \in DOMAIN links \cup {None}
    /\ pc = "swap" => nix = "mix" /\ op.new \in DOMAIN links

Course ==
    /\ pc \in Requesting \ {"write"} => files = op.want
    /\ pc \in Standing => Content(active).pins = past.pins /\ ~past.ran
    /\ pc = "clean" => op.kind = "clean"
    /\ pc \in {"find", "wait", "look"} => Content(active) # files
    /\ pc \in {"wait", "look"} =>
         /\ op.built \in DOMAIN links => links[op.built] = files
         /\ op.built \in DOMAIN links \/ \A g \in DOMAIN links : links[g] # files
    /\ pc = "build" => /\ \A g \in DOMAIN links : links[g] # files
                       /\ op.predicted = Newest(DOMAIN links) + 1
    /\ pc \in Made => op.new \in DOMAIN links /\ links[op.new] = files
    /\ pc \in {"read", "activate", "apply"} => active = op.new
    /\ pc \in Recording => /\ Content(active).pins >= past.pins
                           /\ op.kind = "change" => Content(active) = op.want
                           /\ past.ran => home = Content(active)

CourseInv == Wanted /\ Held /\ (~past.meddled => Course) /\ DoneIsWhole

LEMMA InitCourse == ASSUME Init PROVE CourseInv
<1>1. links \in {<<>>, <<[list |-> Seed, pins |-> Embedded]>>, <<Unread, [list |-> Seed, pins |-> Embedded]>>}
  BY DEF Init
<1>2. DOMAIN links \in SUBSET Generation
  BY <1>1 DEF Generation
<1>3. active = Newest(DOMAIN links) /\ pc = "idle" /\ past = NoPast
  BY DEF Init
<1>4. Held
  BY <1>2, <1>3, NewestIs DEF Held, Newest
<1>5. Wanted /\ Course
  BY <1>3 DEF Wanted, Course, Requesting, Standing, Made, Recording, NoPast
<1>6. DoneIsWhole
  BY <1>3 DEF DoneIsWhole, NoPast
<1> QED BY <1>4, <1>5, <1>6 DEF CourseInv

LEMMA WantedKept == ASSUME Inv, Wanted, [Next]_vars PROVE Wanted'
<1>0. ProfileTyped /\ OpTyped /\ PastTyped
  BY DEF Inv, Typed
<1> USE <1>0
<1>1. CASE Begin
  <2> DEFINE p == Content(active).pins
  <2>1. p \in Nat /\ files.pins \in Nat
    BY Contents DEF ProfileTyped, Config
  <2>2. /\ past'.pins = p /\ past'.said = "none" /\ pc' = "write"
        /\ past'.kind = op'.kind
    BY <1>1 DEF Begin, NoPast
  <2>3. configured.pins = settle_pins(files.pins, p)
    BY DEF configured
  <2> HIDE DEF p
  <2>4. configured.pins \in Nat /\ configured.pins >= p
    BY <2>1, <2>3 DEF settle_pins, forward
  <2> DEFINE cfg == configured
  <2> HIDE DEF cfg
  <2>5. cfg.pins \in Nat /\ cfg.pins >= p
    BY <2>4 DEF cfg
  <2>6. CASE \E want \in Lists : Changing(cfg, want)
    <3>1. op'.want.pins = cfg.pins /\ op'.activating
      BY <2>6 DEF Changing, NoOp
    <3> QED BY <2>1, <2>2, <2>5, <3>1 DEF Wanted
  <2>7. CASE \E newest \in Pins : Updating(cfg, newest)
    <3>1. PICK newest \in Pins : Updating(cfg, newest)
      BY <2>7
    <3>2. op'.want.pins = decide(cfg.pins, newest) /\ op'.kind = "update"
      BY <3>1 DEF Updating, NoOp
    <3>3. decide(cfg.pins, newest) >= p
      BY <2>1, <2>5 DEF decide
    <3> QED BY <2>1, <2>2, <2>5, <3>2, <3>3 DEF Wanted
  <2>8. CASE Cleaning(cfg)
    <3>1. op'.want.pins = cfg.pins /\ op'.kind = "clean"
      BY <2>8 DEF Cleaning, NoOp
    <3> QED BY <2>1, <2>2, <2>5, <3>1 DEF Wanted
  <2> QED BY <1>1, <2>6, <2>7, <2>8 DEF Begin, cfg
<1>2. CASE UNCHANGED <<op, past>> /\ (pc \in Requesting \/ pc' \notin Requesting \/ pc' = pc) /\ (pc' # pc => pc # "idle")
  BY <1>2 DEF Wanted
<1>3. CASE Check \/ FindBuilt \/ Look \/ Build \/ Read \/ Stage
  <2>1. /\ op'.kind = op.kind /\ op'.want = op.want /\ op'.activating = op.activating
        /\ past' = past /\ pc # "idle"
    BY <1>3 DEF Check, FindBuilt, Look, Build, Read, Stage, Goes, OpTyped
  <2>2. pc \in Requesting
    BY <1>3 DEF Check, FindBuilt, Look, Build, Read, Stage, Requesting, Standing, Made, Recording
  <2> QED BY <2>1, <2>2 DEF Wanted
<1>4. CASE Activate \/ Reapply
  <2>1. op' = op /\ pc # "idle" /\ past' = [past EXCEPT !.ran = TRUE]
    BY <1>4 DEF Activate, Reapply, Ends
  <2>2. pc \in Requesting
    BY <1>4 DEF Activate, Reapply, Requesting, Standing, Made, Recording
  <2> QED BY <2>1, <2>2 DEF Wanted, PastTyped
<1>5. CASE Commit
  BY <1>5 DEF Commit, Wanted, PastTyped, Requesting, Standing, Made, Recording
<1>6. CASE RolledBack \/ Crash
  BY <1>6 DEF RolledBack, Crash, Wanted, PastTyped, Requesting, Standing, Made, Recording
<1>7. CASE Undo \/ UndoFails \/ UndoActs
  <2>1. past' = past \/ NotUndone
    BY <1>7 DEF Undo, UndoFails, UndoActs, Looks, Undone
  <2>2. past'.said = past.said /\ past'.pins = past.pins
    BY <2>1 DEF NotUndone, PastTyped
  <2>3. pc \in {"undo", "undo2"} /\ pc' \in {"undo", "undo2"}
    BY <1>7 DEF Undo, UndoFails, UndoActs, Looks, Undone, NotUndone
  <2> QED BY <2>2, <2>3 DEF Wanted, Requesting, Standing, Made, Recording
<1>8. CASE Clean
  <2>1. pc' = pc /\ op'.kind = op.kind /\ op'.want = op.want /\ op'.activating = op.activating
    BY <1>8 DEF Clean, OpTyped
  <2>2. past' = past \/ \E g : past' = [past EXCEPT !.links = Without(@, g), !.theirs = @ \ {g}]
    BY <1>8 DEF Clean
  <2>3. past'.said = past.said /\ past'.pins = past.pins /\ past'.kind = past.kind
    BY <2>2 DEF PastTyped
  <2> QED BY <2>1, <2>3 DEF Wanted
<1>9. CASE UserActs
  <2>1. pc' = pc /\ op' = op
    BY <1>9 DEF UserActs
  <2>2. \/ \E g : past' = [Meddled EXCEPT !.theirs = @ \cup {g}]
        \/ past' = Meddled
        \/ \E g : past' = [Meddled EXCEPT !.links = Without(@, g), !.theirs = @ \ {g}]
    BY <1>9 DEF UserActs
  <2>3. /\ PastTyped => DOMAIN Meddled = DOMAIN past
        /\ Meddled.said \in {"none", past.said} /\ Meddled.pins = past.pins /\ Meddled.kind = past.kind
    BY DEF Meddled, PastTyped
  <2> HIDE DEF Meddled
  <2>4. past'.said \in {"none", past.said} /\ past'.pins = past.pins /\ past'.kind = past.kind
    BY <2>2, <2>3 DEF PastTyped
  <2> QED BY <2>1, <2>4 DEF Wanted
<1>10. CASE Recover
  BY <1>10 DEF Recover, Wanted, Requesting, Standing, Made, Recording
<1>11. \/ Write \/ WaitProfileLocks \/ Swap \/ Reuse \/ Cleaned \/ Publish \/ RecordFails
       => UNCHANGED <<op, past>> /\ pc \in Requesting /\ pc # "idle"
  BY DEF Write, WaitProfileLocks, Swap, Reuse, Cleaned, Publish, RecordFails, Goes, Requesting,
       Standing, Made, Recording
<1>12. \/ WriteUnanswered \/ QuestionFails \/ BuildFails \/ SwapCut \/ ActivateFails \/ Unswitch
       \/ Undelete \/ Unapply \/ ReuseGone \/ ReapplyFails \/ CleanFails
       => UNCHANGED <<op, past>> /\ pc' \notin Requesting /\ pc # "idle"
  BY DEF WriteUnanswered, QuestionFails, BuildFails, SwapCut, ActivateFails, Unswitch, Undelete,
       Unapply, ReuseGone, ReapplyFails, CleanFails, Fail, Requesting, Standing, Made, Recording
<1>13. AgentDies \/ UserCommits \/ UserTakes \/ UserLeaves \/ UNCHANGED vars
       => UNCHANGED <<op, past>> /\ pc' = pc
  BY DEF AgentDies, UserCommits, UserTakes, UserLeaves, vars
<1> QED BY <1>1, <1>2, <1>3, <1>4, <1>5, <1>6, <1>7, <1>8, <1>9, <1>10, <1>11, <1>12, <1>13 DEF Next

LEMMA HeldKept == ASSUME Inv, Held, [Next]_vars PROVE Held'
<1>0. ProfileTyped /\ OpTyped
  BY DEF Inv, Typed
<1> USE <1>0
<1>1. CASE UNCHANGED <<links, active>> /\ pc' # "swap"
  BY <1>1 DEF Held
<1>2. CASE UNCHANGED <<links, active, pc>> /\ (pc = "swap" => op' = op /\ nix' = nix)
  BY <1>2 DEF Held
<1>3. CASE Build
  BY <1>3 DEF Build, Linked, Held, OpTyped
<1>4. CASE Swap
  BY <1>4 DEF Swap, Goes, Held
<1>5. CASE pc' # "swap" /\ UNCHANGED links /\ active' \in DOMAIN links \cup {None}
  BY <1>5 DEF Held
<1>6. ASSUME NEW g, delete(g), g # active, pc' # "swap" \/ (pc' = pc /\ nix # "mix") PROVE Held'
  <2>1. DOMAIN links' = DOMAIN links \ {g} /\ active' = active
    BY <1>6, Deletes
  <2> QED BY <1>6, <2>1 DEF Held
<1>7. Undelete => \/ UNCHANGED <<links, active>> /\ pc' # "swap"
                  \/ delete(op.new) /\ op.new # active /\ pc' # "swap"
  BY DEF Undelete, CanDelete
<1>8. Clean => \/ UNCHANGED <<links, active>> /\ pc' # "swap"
               \/ \E g : delete(g) /\ g # active /\ pc' # "swap"
  BY DEF Clean
<1>9. \A u : Carried(u) => \/ UNCHANGED links /\ active' \in DOMAIN links \cup {None}
                           \/ delete(u.generation) /\ u.generation # active
  BY DEF Carried, switch_to, CanSwitch, CanDelete
<1>10. UndoActs => pc' # "swap" /\ (Carried(Head(todo).act) \/ UNCHANGED <<links, active>>)
  BY DEF UndoActs, Undone, NotUndone
<1>11. Crash => pc' # "swap" /\ (Carried(Head(todo).act) \/ UNCHANGED <<links, active>>)
  BY DEF Crash, profile
<1>12. CASE UserActs
  <2>1. CASE \E g \in DOMAIN links \ {active} : active' = g /\ UNCHANGED <<links, pc>>
    BY <1>12, <2>1 DEF Held, UserActs
  <2>2. CASE \E g \in DOMAIN links \ {active} : delete(g) /\ UNCHANGED pc
    BY <1>6, <1>12, <2>2 DEF UserActs
  <2>3. CASE \E g : links' = Linked(g, Unread) /\ active' = g /\ UNCHANGED pc
    BY <1>12, <2>3 DEF Held, UserActs, Linked
  <2> QED BY <1>12, <2>1, <2>2, <2>3 DEF UserActs
<1>13. Unswitch \/ Reuse => pc' # "swap" /\ UNCHANGED links /\ active' \in DOMAIN links \cup {None}
  BY DEF Unswitch, Reuse, CanSwitch, switch_to, Held, Goes
<1>14. \/ Begin \/ Write \/ WriteUnanswered \/ QuestionFails \/ BuildFails \/ Check \/ FindBuilt
       \/ WaitProfileLocks \/ Look \/ SwapCut \/ Read \/ Activate \/ ActivateFails \/ Unapply
       \/ ReuseGone \/ Reapply \/ ReapplyFails \/ Cleaned \/ CleanFails \/ Stage \/ Publish
       \/ RecordFails \/ Commit \/ Undo \/ UndoFails \/ RolledBack \/ Recover
       => UNCHANGED <<links, active>> /\ pc' # "swap"
  BY DEF Begin, Write, WriteUnanswered, QuestionFails, BuildFails, Check, FindBuilt,
       WaitProfileLocks, Look, SwapCut, Read, Activate, ActivateFails, Unapply, ReuseGone,
       Reapply, ReapplyFails, Cleaned, CleanFails, Stage, Publish, RecordFails, Commit, Undo,
       UndoFails, RolledBack, Recover, Goes, Fail, Ends, Looks, Undone, NotUndone, profile
<1>15. AgentDies \/ UserCommits \/ UserTakes \/ UserLeaves \/ UNCHANGED vars
       => UNCHANGED <<links, active, pc>> /\ (pc = "swap" => op' = op /\ nix' = nix)
  BY DEF AgentDies, UserCommits, UserTakes, UserLeaves, vars, profile, Held
<1>16. CASE Unswitch \/ Reuse
  BY <1>5, <1>13, <1>16
<1>17. CASE Undelete \/ Clean
  BY <1>1, <1>6, <1>7, <1>8, <1>17
<1>18. CASE UndoActs \/ Crash
  BY <1>1, <1>5, <1>6, <1>9, <1>10, <1>11, <1>18
<1> QED BY <1>1, <1>2, <1>3, <1>4, <1>12, <1>14, <1>15, <1>16, <1>17, <1>18 DEF Next

(* Only the user meddles.                                                  *)
LEMMA Unmeddled ==
  ASSUME Inv, [Next]_vars, ~past'.meddled
  PROVE  ~UserActs /\ (~Begin => ~past.meddled /\ past'.pins = past.pins)
<1>0. PastTyped
  BY DEF Inv, Typed
<1>1. ASSUME UserActs PROVE FALSE
  <2>1. \/ \E g : past' = [Meddled EXCEPT !.theirs = @ \cup {g}]
        \/ past' = Meddled
        \/ \E g : past' = [Meddled EXCEPT !.links = Without(@, g), !.theirs = @ \ {g}]
    BY <1>1 DEF UserActs
  <2>2. DOMAIN Meddled = DOMAIN past /\ Meddled.meddled
    BY <1>0 DEF Meddled, PastTyped
  <2> HIDE DEF Meddled
  <2> QED BY <1>0, <2>1, <2>2 DEF PastTyped
<1>2. ASSUME ~Begin PROVE past'.meddled = past.meddled /\ past'.pins = past.pins
  <2>1. CASE past' = past
    BY <2>1
  <2>2. CASE \/ past' = [past EXCEPT !.ran = TRUE]
             \/ NotUndone \/ Commit \/ RolledBack \/ Crash
             \/ \E g : past' = [past EXCEPT !.links = Without(@, g), !.theirs = @ \ {g}]
    BY <1>0, <2>2 DEF NotUndone, Commit, RolledBack, Crash, PastTyped
  <2>3. Undo \/ UndoFails \/ UndoActs => past' = past \/ NotUndone
    BY DEF Undo, UndoFails, UndoActs, Looks, Undone
  <2>4. Activate \/ Reapply => past' = [past EXCEPT !.ran = TRUE]
    BY DEF Activate, Reapply, Ends
  <2>5. Clean => past' = past \/ \E g : past' = [past EXCEPT !.links = Without(@, g), !.theirs = @ \ {g}]
    BY DEF Clean
  <2>6. \/ Write \/ WriteUnanswered \/ AgentDies \/ QuestionFails \/ BuildFails \/ Check \/ FindBuilt
        \/ WaitProfileLocks \/ Look \/ Build \/ Swap \/ SwapCut \/ Read \/ ActivateFails
        \/ Unswitch \/ Undelete \/ Unapply \/ Reuse \/ ReuseGone \/ ReapplyFails \/ Cleaned
        \/ CleanFails \/ Stage \/ Publish \/ RecordFails \/ UserCommits
        \/ Recover \/ UserTakes \/ UserLeaves \/ UNCHANGED vars
        => past' = past
    BY DEF vars, Write, WriteUnanswered, AgentDies, QuestionFails, BuildFails, Check, FindBuilt,
         WaitProfileLocks, Look, Build, Swap, SwapCut, Read, ActivateFails, Unswitch, Undelete,
         Unapply, Reuse, ReuseGone, ReapplyFails, Cleaned, CleanFails, Stage, Publish, RecordFails,
         UserCommits, Recover, UserTakes, UserLeaves, Goes
  <2> QED BY <1>1, <1>2, <2>1, <2>2, <2>3, <2>4, <2>5, <2>6 DEF Next
<1> QED BY <1>1, <1>2

LEMMA CourseKept ==
  ASSUME Inv, CourseInv, [Next]_vars, ~past'.meddled
  PROVE  Course'
<1>0. ProfileTyped /\ OpTyped /\ PastTyped /\ Wanted /\ Held
  BY DEF Inv, Typed, CourseInv
<1> USE <1>0
<1>a. ~UserActs /\ (~Begin => Course)
  BY Unmeddled DEF CourseInv
<1> USE DEF Requesting, Standing, Made, Recording
<1>1. CASE Begin
  <2>1. pc' = "write" /\ UNCHANGED <<links, active>> /\ past'.pins = Content(active).pins /\ ~past'.ran
    BY <1>1 DEF Begin, profile, NoPast
  <2> QED BY <2>1 DEF Course, Content
<1>2. CASE pc' \notin Requesting
  BY <1>2 DEF Course
<1>3. CASE Course /\ UNCHANGED <<profile, files, pc, op, past>>
  BY <1>3 DEF Course, profile, Content
<1>4. CASE Write /\ Course
  <2>1. pc = "write" /\ pc' = "check" /\ files' = op.want /\ UNCHANGED <<links, active, home, op, past>>
    BY <1>4 DEF Write, Goes, profile
  <2> QED BY <1>4, <2>1 DEF Course, Content
<1>5. CASE Check /\ Course
  <2>1. pc = "check" /\ UNCHANGED <<links, active, home, files, past>>
    BY <1>5 DEF Check, Goes, profile
  <2>2. CASE pc' = "find" /\ op' = op /\ stale(op.want)
    BY <1>5, <2>1, <2>2 DEF Course, Content, stale
  <2>3. CASE pc' = "clean" /\ op.kind = "clean" /\ op'.kind = op.kind /\ op'.want = op.want
    BY <1>5, <2>1, <2>3 DEF Course, Content
  <2>4. CASE pc' = "record" /\ op' = op /\ ~(op.activating /\ stale(op.want))
    <3>1. Content(active).pins = past.pins /\ past.pins >= past.pins /\ ~past.ran
      BY <1>5, <2>1 DEF Course, Wanted
    <3>2. op.kind = "change" => Content(active) = op.want
      BY <2>1, <2>4 DEF stale, Wanted
    <3> QED BY <1>5, <2>1, <2>4, <3>1, <3>2 DEF Course, Content
  <2> QED BY <1>5, <2>2, <2>3, <2>4 DEF Check, Goes, OpTyped
<1>6. CASE FindBuilt /\ Course
  <2>1. /\ pc = "find" /\ pc' = "wait" /\ UNCHANGED <<links, active, home, files, past>>
        /\ op'.built = built_generation /\ op'.want = op.want
    BY <1>6 DEF FindBuilt, Goes, profile, OpTyped
  <2> DEFINE same == {g \in DOMAIN links : links[g] = files}
  <2>2. same \in SUBSET Generation /\ built_generation = Newest(same)
    BY DEF ProfileTyped, built_generation
  <2>3. CASE same = {}
    <3>1. \A g \in DOMAIN links : links[g] # files
      BY <2>3
    <3>2. built_generation \notin DOMAIN links
      BY <2>2, <2>3 DEF Newest, None, ProfileTyped, Generation
    <3> QED BY <1>6, <2>1, <3>1, <3>2 DEF Course, Content
  <2>4. CASE same # {}
    <3>1. built_generation \in same
      BY <2>2, <2>4, NewestIs
    <3>2. built_generation \in DOMAIN links /\ links[built_generation] = files
      BY <3>1
    <3> QED BY <1>6, <2>1, <3>2 DEF Course, Content
  <2> QED BY <2>3, <2>4
<1>7. CASE WaitProfileLocks /\ Course
  BY <1>7 DEF WaitProfileLocks, Goes, profile, Course, Content
<1>8. CASE Look /\ Course
  <2>1. /\ pc = "look" /\ UNCHANGED <<links, active, home, files, past>>
        /\ op'.want = op.want /\ op'.predicted = Newest(DOMAIN links) + 1
        /\ op.built \in DOMAIN links => op'.new = op.built /\ op.built # active /\ pc' = "switch"
        /\ op.built \notin DOMAIN links => pc' = "build"
    BY <1>8 DEF Look, Goes, profile, OpTyped, Course, Content
  <2> QED BY <1>8, <2>1 DEF Course, Content
<1>9. CASE Build /\ Course
  <2>1. pc' = "swap" /\ files' = files /\ op'.new = Numbered /\ op'.want = op.want
    BY <1>9 DEF Build, Goes, OpTyped
  <2>2. Numbered \in DOMAIN links' /\ links'[Numbered] = files
    BY <1>9 DEF Build, Linked
  <2> QED BY <1>9, <2>1, <2>2 DEF Course, Build
<1>10. CASE Swap /\ Course
  <2>1. pc = "swap" /\ pc' = "read" /\ active' = op.new /\ UNCHANGED <<links, files, op, past>>
    BY <1>10 DEF Swap, Goes
  <2> QED BY <1>10, <2>1 DEF Course
<1>11. CASE Read /\ Course
  <2>1. /\ pc = "read" /\ pc' = "activate" /\ UNCHANGED <<links, active, files, past>>
        /\ op'.want = op.want /\ op'.new = IF active # None THEN active ELSE op.predicted
    BY <1>11 DEF Read, Goes, profile, OpTyped
  <2>2. active # None
    BY <1>11, <2>1 DEF Course, ProfileTyped, Generation, None
  <2> QED BY <1>11, <2>1, <2>2 DEF Course
<1>12. CASE Activate /\ Course
  <2>1. /\ pc = "activate" /\ pc' = "record" /\ UNCHANGED <<links, active, files, op>>
        /\ home' = op.want /\ past'.pins = past.pins
    BY <1>12 DEF Activate, Ends, PastTyped
  <2>2. Content(active) = op.want /\ op.want.pins >= past.pins
    BY <1>12, <2>1 DEF Course, Content, Wanted
  <2>3. Content(active)' = Content(active)
    BY <2>1 DEF Content
  <2> QED BY <1>12, <2>1, <2>2, <2>3 DEF Course
<1>13. CASE Reuse /\ Course
  <2>1. pc = "switch" /\ pc' = "apply" /\ active' = op.new /\ UNCHANGED <<links, files, op, past>>
    BY <1>13 DEF Reuse, switch_to, Goes
  <2> QED BY <1>13, <2>1 DEF Course
<1>14. CASE Reapply /\ Course
  <2>1. /\ pc = "apply" /\ pc' = "record" /\ UNCHANGED <<links, active, files, op>>
        /\ home' = Applied /\ past'.pins = past.pins
    BY <1>14 DEF Reapply, Ends, PastTyped
  <2>2. Content(active) = op.want /\ op.want.pins >= past.pins /\ Applied = Content(active)
    BY <1>14, <2>1 DEF Course, Content, Wanted, Applied, ProfileTyped, Generation, None
  <2>3. Content(active)' = Content(active)
    BY <2>1 DEF Content
  <2> QED BY <1>14, <2>1, <2>2, <2>3 DEF Course
<1>15. CASE Clean /\ Course
  <2>1. pc = "clean" /\ pc' = pc /\ files' = files /\ op'.kind = op.kind /\ op'.want = op.want
    BY <1>15 DEF Clean, OpTyped
  <2>2. past' = past \/ \E g : past' = [past EXCEPT !.links = Without(@, g), !.theirs = @ \ {g}]
    BY <1>15 DEF Clean
  <2>3. past'.pins = past.pins /\ past'.ran = past.ran
    BY <2>2 DEF PastTyped
  <2>4. UNCHANGED <<links, active>> \/ \E g : delete(g) /\ g # active
    BY <1>15 DEF Clean
  <2>5. active' = active /\ Content(active)' = Content(active)
    BY <2>4, Deletes DEF Content
  <2> QED BY <1>15, <2>1, <2>3, <2>5 DEF Course
<1>16. CASE Cleaned /\ Course
  <2>1. pc = "clean" /\ pc' = "record" /\ UNCHANGED <<links, active, home, files, op, past>>
    BY <1>16 DEF Cleaned, Goes, profile
  <2>2. Content(active).pins >= past.pins
    BY <1>16, <2>1 DEF Course, Wanted
  <2> QED BY <1>16, <2>1, <2>2 DEF Course, Content
<1>17. CASE (Stage \/ Publish \/ RecordFails) /\ Course
  <2>1. /\ pc \in Recording /\ pc' \in Recording /\ UNCHANGED <<links, active, home, files, past>>
        /\ op'.kind = op.kind /\ op'.want = op.want
    BY <1>17 DEF Stage, Publish, RecordFails, Goes, profile, OpTyped
  <2> QED BY <1>17, <2>1 DEF Course, Content
<1>18. \/ WriteUnanswered \/ QuestionFails \/ BuildFails \/ SwapCut \/ ActivateFails \/ Unswitch
       \/ Undelete \/ Unapply \/ ReuseGone \/ ReapplyFails \/ CleanFails \/ Commit \/ Undo \/ UndoFails
       \/ UndoActs \/ RolledBack \/ Crash \/ Recover
       => pc' \notin Requesting
  BY DEF WriteUnanswered, QuestionFails, BuildFails, SwapCut, ActivateFails, Unswitch, Undelete,
       Unapply, ReuseGone, ReapplyFails, CleanFails, Fail, Commit, Undo, UndoFails, UndoActs,
       Looks, Undone, NotUndone, RolledBack, Crash, Recover
<1>19. AgentDies \/ UserCommits \/ UserTakes \/ UserLeaves \/ UNCHANGED vars
       => UNCHANGED <<profile, files, pc, op, past>>
  BY DEF AgentDies, UserCommits, UserTakes, UserLeaves, vars, profile
<1> QED BY <1>a, <1>1, <1>2, <1>3, <1>4, <1>5, <1>6, <1>7, <1>8, <1>9, <1>10, <1>11, <1>12, <1>13,
       <1>14, <1>15, <1>16, <1>17, <1>18, <1>19 DEF Next

LEMMA DoneKept ==
  ASSUME Inv, CourseInv, [Next]_vars
  PROVE  DoneIsWhole'
<1>0. PastTyped /\ OpTyped /\ Wanted /\ Wanted' /\ DoneIsWhole
  BY WantedKept DEF Inv, Typed, CourseInv
<1> SUFFICES ASSUME ~past'.meddled, pc' = "idle", past'.said = "done" PROVE DoneIsWhole'
  BY DEF DoneIsWhole, Alone
<1>1. ~UserActs /\ (~Begin => ~past.meddled /\ Course)
  BY Unmeddled DEF CourseInv
<1>2. CASE Commit
  <2>1. /\ pc = "commit" /\ UNCHANGED <<links, active, home, files>>
        /\ past'.want = op.want /\ past'.pins = past.pins /\ past'.kind = past.kind /\ past'.ran = past.ran
    BY <1>0, <1>2 DEF Commit, profile, PastTyped
  <2>2. Course /\ Wanted
    BY <1>0, <1>1, <1>2 DEF Begin, Commit
  <2>3. /\ Content(active).pins >= past.pins /\ files = op.want /\ op.kind = past.kind
        /\ (op.kind = "change" => Content(active) = op.want) /\ (past.ran => home = Content(active))
    BY <2>1, <2>2 DEF Course, Wanted, Requesting, Recording, Made, Standing
  <2>4. Content(active)' = Content(active)
    BY <2>1 DEF Content
  <2> QED BY <2>1, <2>3, <2>4 DEF DoneIsWhole
<1>3. CASE UNCHANGED <<profile, files, pc, past>>
  BY <1>0, <1>3 DEF DoneIsWhole, Alone, profile, Content
<1>4. AgentDies \/ UserCommits \/ UserTakes \/ UserLeaves \/ UNCHANGED vars
       => UNCHANGED <<profile, files, pc, past>>
  BY DEF AgentDies, UserCommits, UserTakes, UserLeaves, vars, profile
<1>5. RolledBack => past'.said # "done"
  BY <1>0 DEF RolledBack, PastTyped
<1>6. \/ Begin \/ Write \/ WriteUnanswered \/ QuestionFails \/ BuildFails \/ Check \/ FindBuilt
      \/ WaitProfileLocks \/ Look \/ Build \/ Swap \/ SwapCut \/ Read \/ Activate \/ ActivateFails
      \/ Unswitch \/ Undelete \/ Unapply \/ Reuse \/ ReuseGone \/ Reapply \/ ReapplyFails \/ Clean
      \/ Cleaned \/ CleanFails \/ Stage \/ Publish \/ RecordFails \/ Undo \/ UndoFails \/ UndoActs
      \/ Crash \/ Recover
      => pc' # "idle"
  BY DEF Begin, Write, WriteUnanswered, QuestionFails, BuildFails, Check, FindBuilt,
       WaitProfileLocks, Look, Build, Swap, SwapCut, Read, Activate, ActivateFails, Unswitch,
       Undelete, Unapply, Reuse, ReuseGone, Reapply, ReapplyFails, Clean, Cleaned, CleanFails,
       Stage, Publish, RecordFails, Undo, UndoFails, UndoActs, Crash, Recover, Goes, Fail, Ends,
       Looks, Undone, NotUndone
<1> QED BY <1>1, <1>2, <1>3, <1>4, <1>5, <1>6 DEF Next

(* A request runs its course: from what it wrote, the generation nix made  *)
(* of it, the link and the home follow one another while nobody meddles.   *)
THEOREM RequestsRunTheirCourse == Spec => []CourseInv
<1>1. Inv /\ CourseInv /\ [Next]_vars => CourseInv'
  <2> SUFFICES ASSUME Inv, CourseInv, [Next]_vars PROVE CourseInv'
    OBVIOUS
  <2>1. Wanted' /\ Held'
    BY WantedKept, HeldKept DEF CourseInv
  <2>2. ~past'.meddled => Course'
    BY CourseKept
  <2>3. DoneIsWhole'
    BY DoneKept
  <2> QED BY <2>1, <2>2, <2>3 DEF CourseInv
<1> QED BY <1>1, InitCourse, ProfileInvariant, PTL DEF Spec

(* A request that answers done has written, built, linked and applied the  *)
(* list and the pins it wanted, and moved no input back, after whatever    *)
(* failures, crashes and recoveries came before it (settle_pins, decide,   *)
(* built_generation, activate and reuse).                                  *)
THEOREM SuccessIsWhole == Spec => []DoneIsWhole
<1>1. CourseInv => DoneIsWhole
  BY DEF CourseInv
<1> QED BY <1>1, RequestsRunTheirCourse, PTL

-----------------------------------------------------------------------------
(* What is left to undo of an activation, and of the files.                *)
Parts == {"none", "apply", "delete", "activation", "reuse"}
Part(p, a, n) == CASE a = "apply"      -> <<Apply>>
                   [] a = "delete"     -> <<Delete(n), Apply>>
                   [] a = "activation" -> undo_activation(p, n)
                   [] a = "reuse"      -> undo_reuse(p, n)
                   [] OTHER            -> <<>>
Filed(w, f) == IF f THEN <<Restore(w)>> ELSE <<>>
Rest(a) == CASE a = "activation" -> "delete" [] a \in {"delete", "reuse"} -> "apply" [] OTHER -> "none"
First(p, a, n) == CASE a = "apply"  -> Apply
                    [] a = "delete" -> Delete(n)
                    [] OTHER        -> Switch(p, n)

(* Undos of different kinds differ.                                        *)
LEMMA Kinds ==
  /\ Apply.undo = "apply"
  /\ \A p, n : Switch(p, n).undo = "switch" /\ Switch(p, n).to = p /\ Switch(p, n).expect = n
  /\ \A n : Delete(n).undo = "delete" /\ Delete(n).generation = n
  /\ \A w : Restore(w).undo = "files" /\ Restore(w).was = w
  BY DEF Apply, Switch, Delete, Restore

(* Lists of a few different elements.                                      *)
LEMMA Joined1 ==
  ASSUME NEW x, NEW w
  PROVE  <<x>> \o <<w>> = <<x, w>> /\ <<x>> \o <<>> = <<x>>
<1> DEFINE S == {x, w}
           s == <<x>>
           t == <<x, w>>
           r == <<w>>
<1>1. s \in Seq(S) /\ r \in Seq(S) /\ t \in Seq(S) /\ Len(s) = 1 /\ Len(r) = 1 /\ Len(t) = 2
  OBVIOUS
<1>2. s[1] = x /\ t[1] = x /\ t[2] = w /\ r[1] = w
  OBVIOUS
<1> HIDE DEF S, s, t, r
<1>3. /\ s \o r \in Seq(S) /\ Len(s \o r) = Len(s) + Len(r)
      /\ \A i \in 1..(Len(s) + Len(r)) :
            (s \o r)[i] = IF i <= Len(s) THEN s[i] ELSE r[i - Len(s)]
  BY ONLY <1>1, ConcatProperties
<1>4. \A i \in 1..2 : (s \o r)[i] = t[i]
  BY ONLY <1>1, <1>2, <1>3
<1>5. s \o r = t
  <2>1. Len(s \o r) = Len(t) /\ \A i \in 1..Len(s \o r) : (s \o r)[i] = t[i]
    BY <1>1, <1>3, <1>4
  <2>2. s \o r \in Seq(S) /\ t \in Seq(S)
    BY <1>1, <1>3
  <2> QED BY ONLY <2>1, <2>2, SeqEqual
<1>6. s \o <<>> = s
  BY <1>1, ConcatEmptySeq
<1> QED BY <1>5, <1>6 DEF s, t, r

LEMMA Joined2 ==
  ASSUME NEW x, NEW y, NEW w
  PROVE  <<x, y>> \o <<w>> = <<x, y, w>> /\ <<x, y>> \o <<>> = <<x, y>>
<1> DEFINE S == {x, y, w}
           s == <<x, y>>
           t == <<x, y, w>>
           r == <<w>>
<1>1. s \in Seq(S) /\ r \in Seq(S) /\ t \in Seq(S) /\ Len(s) = 2 /\ Len(r) = 1 /\ Len(t) = 3
  OBVIOUS
<1>2. s[1] = x /\ s[2] = y /\ t[1] = x /\ t[2] = y /\ t[3] = w /\ r[1] = w
  OBVIOUS
<1> HIDE DEF S, s, t, r
<1>3. /\ s \o r \in Seq(S) /\ Len(s \o r) = Len(s) + Len(r)
      /\ \A i \in 1..(Len(s) + Len(r)) :
            (s \o r)[i] = IF i <= Len(s) THEN s[i] ELSE r[i - Len(s)]
  BY ONLY <1>1, ConcatProperties
<1>4. \A i \in 1..3 : (s \o r)[i] = t[i]
  BY ONLY <1>1, <1>2, <1>3
<1>5. s \o r = t
  <2>1. Len(s \o r) = Len(t) /\ \A i \in 1..Len(s \o r) : (s \o r)[i] = t[i]
    BY <1>1, <1>3, <1>4
  <2>2. s \o r \in Seq(S) /\ t \in Seq(S)
    BY <1>1, <1>3
  <2> QED BY ONLY <2>1, <2>2, SeqEqual
<1>6. s \o <<>> = s
  BY <1>1, ConcatEmptySeq
<1> QED BY <1>5, <1>6 DEF s, t, r

LEMMA Joined3 ==
  ASSUME NEW x, NEW y, NEW z, NEW w
  PROVE  <<x, y, z>> \o <<w>> = <<x, y, z, w>> /\ <<x, y, z>> \o <<>> = <<x, y, z>>
<1> DEFINE S == {x, y, z, w}
           s == <<x, y, z>>
           t == <<x, y, z, w>>
           r == <<w>>
<1>1. s \in Seq(S) /\ r \in Seq(S) /\ t \in Seq(S) /\ Len(s) = 3 /\ Len(r) = 1 /\ Len(t) = 4
  OBVIOUS
<1>2. s[1] = x /\ s[2] = y /\ s[3] = z /\ t[1] = x /\ t[2] = y /\ t[3] = z /\ t[4] = w /\ r[1] = w
  OBVIOUS
<1> HIDE DEF S, s, t, r
<1>3. /\ s \o r \in Seq(S) /\ Len(s \o r) = Len(s) + Len(r)
      /\ \A i \in 1..(Len(s) + Len(r)) :
            (s \o r)[i] = IF i <= Len(s) THEN s[i] ELSE r[i - Len(s)]
  BY ONLY <1>1, ConcatProperties
<1>4. \A i \in 1..4 : (s \o r)[i] = t[i]
  BY ONLY <1>1, <1>2, <1>3
<1>5. s \o r = t
  <2>1. Len(s \o r) = Len(t) /\ \A i \in 1..Len(s \o r) : (s \o r)[i] = t[i]
    BY <1>1, <1>3, <1>4
  <2>2. s \o r \in Seq(S) /\ t \in Seq(S)
    BY <1>1, <1>3
  <2> QED BY ONLY <2>1, <2>2, SeqEqual
<1>6. s \o <<>> = s
  BY <1>1, ConcatEmptySeq
<1> QED BY <1>5, <1>6 DEF s, t, r

LEMMA FewInTurn ==
  ASSUME NEW x, NEW y, NEW z, NEW w, w # x, y # x, z # x
  PROVE  /\ <<x>> # <<>> /\ Head(<<x>>) = x /\ Tail(<<x>>) = <<>>
         /\ \A i \in 2..Len(<<x>>) : <<x>>[i] # <<x>>[1]
         /\ <<x, y>> # <<>> /\ Head(<<x, y>>) = x /\ Tail(<<x, y>>) = <<y>>
         /\ \A i \in 2..Len(<<x, y>>) : <<x, y>>[i] # <<x, y>>[1]
         /\ <<x, y, z>> # <<>> /\ Head(<<x, y, z>>) = x /\ Tail(<<x, y, z>>) = <<y, z>>
         /\ \A i \in 2..Len(<<x, y, z>>) : <<x, y, z>>[i] # <<x, y, z>>[1]
         /\ <<x, y, z, w>> # <<>> /\ Head(<<x, y, z, w>>) = x /\ Tail(<<x, y, z, w>>) = <<y, z, w>>
         /\ \A i \in 2..Len(<<x, y, z, w>>) : <<x, y, z, w>>[i] # <<x, y, z, w>>[1]
<1>1. /\ <<x>> # <<>> /\ Head(<<x>>) = x /\ Tail(<<x>>) = <<>>
      /\ \A i \in 2..Len(<<x>>) : <<x>>[i] # <<x>>[1]
  OBVIOUS
<1>2. /\ <<x, y>> # <<>> /\ Head(<<x, y>>) = x /\ Tail(<<x, y>>) = <<y>>
      /\ \A i \in 2..Len(<<x, y>>) : <<x, y>>[i] # <<x, y>>[1]
  OBVIOUS
<1>3. /\ <<x, y, z>> # <<>> /\ Head(<<x, y, z>>) = x /\ Tail(<<x, y, z>>) = <<y, z>>
      /\ \A i \in 2..Len(<<x, y, z>>) : <<x, y, z>>[i] # <<x, y, z>>[1]
  OBVIOUS
<1>4. /\ <<x, y, z, w>> # <<>> /\ Head(<<x, y, z, w>>) = x /\ Tail(<<x, y, z, w>>) = <<y, z, w>>
      /\ \A i \in 2..Len(<<x, y, z, w>>) : <<x, y, z, w>>[i] # <<x, y, z, w>>[1]
  OBVIOUS
<1> QED BY <1>1, <1>2, <1>3, <1>4

(* A list of undos whose first is unlike the others.                       *)
InTurn(s, first, rest) ==
    s # <<>> /\ Head(s) = first /\ Tail(s) = rest /\ \A i \in 2..Len(s) : s[i] # s[1]

(* The undos left of an activation, one after the other.                   *)
LEMMA PartsInTurn ==
  ASSUME NEW p, NEW n, NEW w, NEW a \in Parts \ {"none"}, NEW f \in BOOLEAN
  PROVE  /\ InTurn(Part(p, a, n), First(p, a, n), Part(p, Rest(a), n))
         /\ InTurn(Part(p, a, n) \o Filed(w, f), First(p, a, n), Part(p, Rest(a), n) \o Filed(w, f))
<1> DEFINE S == Switch(p, n)
           D == Delete(n)
           A == Apply
           R == Restore(w)
<1>1. S # D /\ S # A /\ S # R /\ D # A /\ D # R /\ A # R
  BY Kinds
<1>2. CASE a = "apply"
  <2>1. Part(p, a, n) = <<A>> /\ First(p, a, n) = A /\ Part(p, Rest(a), n) = <<>>
    BY <1>2 DEF Part, First, Rest
  <2> HIDE DEF S, D, A, R
  <2>2. InTurn(<<A>>, A, <<>>) /\ InTurn(<<A, R>>, A, <<R>>)
    BY <1>1, FewInTurn DEF InTurn
  <2>3. <<A>> \o <<R>> = <<A, R>> /\ <<A>> \o <<>> = <<A>>
    BY Joined1
  <2>a. <<>> \o <<R>> = <<R>> /\ <<>> \o <<>> = <<>>
    OBVIOUS
  <2>4. Filed(w, f) = IF f THEN <<R>> ELSE <<>>
    BY DEF Filed, R
  <2> QED BY <2>1, <2>2, <2>3, <2>a, <2>4
<1>3. CASE a = "delete"
  <2>1. Part(p, a, n) = <<D, A>> /\ First(p, a, n) = D /\ Part(p, Rest(a), n) = <<A>>
    BY <1>3 DEF Part, First, Rest
  <2> HIDE DEF S, D, A, R
  <2>2. InTurn(<<D, A>>, D, <<A>>) /\ InTurn(<<D, A, R>>, D, <<A, R>>)
    BY <1>1, FewInTurn DEF InTurn
  <2>3. /\ <<D, A>> \o <<R>> = <<D, A, R>> /\ <<D, A>> \o <<>> = <<D, A>>
    BY Joined2
  <2>a. <<A>> \o <<R>> = <<A, R>> /\ <<A>> \o <<>> = <<A>>
    BY Joined1
  <2>4. Filed(w, f) = IF f THEN <<R>> ELSE <<>>
    BY DEF Filed, R
  <2> QED BY <2>1, <2>2, <2>3, <2>a, <2>4
<1>4. CASE a = "reuse"
  <2>1. Part(p, a, n) = <<S, A>> /\ First(p, a, n) = S /\ Part(p, Rest(a), n) = <<A>>
    BY <1>4 DEF Part, First, Rest, undo_reuse
  <2> HIDE DEF S, D, A, R
  <2>2. InTurn(<<S, A>>, S, <<A>>) /\ InTurn(<<S, A, R>>, S, <<A, R>>)
    BY <1>1, FewInTurn DEF InTurn
  <2>3. /\ <<S, A>> \o <<R>> = <<S, A, R>> /\ <<S, A>> \o <<>> = <<S, A>>
    BY Joined2
  <2>a. <<A>> \o <<R>> = <<A, R>> /\ <<A>> \o <<>> = <<A>>
    BY Joined1
  <2>4. Filed(w, f) = IF f THEN <<R>> ELSE <<>>
    BY DEF Filed, R
  <2> QED BY <2>1, <2>2, <2>3, <2>a, <2>4
<1>5. CASE a = "activation"
  <2>1. Part(p, a, n) = <<S, D, A>> /\ First(p, a, n) = S /\ Part(p, Rest(a), n) = <<D, A>>
    BY <1>5 DEF Part, First, Rest, undo_activation
  <2> HIDE DEF S, D, A, R
  <2>2. InTurn(<<S, D, A>>, S, <<D, A>>) /\ InTurn(<<S, D, A, R>>, S, <<D, A, R>>)
    BY <1>1, FewInTurn DEF InTurn
  <2>3. /\ <<S, D, A>> \o <<R>> = <<S, D, A, R>> /\ <<S, D, A>> \o <<>> = <<S, D, A>>
    BY Joined3
  <2>a. <<D, A>> \o <<R>> = <<D, A, R>> /\ <<D, A>> \o <<>> = <<D, A>>
    BY Joined2
  <2>4. Filed(w, f) = IF f THEN <<R>> ELSE <<>>
    BY DEF Filed, R
  <2> QED BY <2>1, <2>2, <2>3, <2>a, <2>4
<1> QED BY <1>2, <1>3, <1>4, <1>5 DEF Parts

(* The first undo of a list is crossed off where it stands.                *)
LEMMA DropsFirst ==
  ASSUME NEW S, NEW s \in Seq(S), s # <<>>, \A i \in 2..Len(s) : s[i] # s[1]
  PROVE  Drop(s, Head(s)) = Tail(s)
<1> DEFINE at == CHOOSE i \in DOMAIN s : s[i] = Head(s)
<1>1. Len(s) \in Nat \ {0} /\ DOMAIN s = 1..Len(s) /\ Head(s) = s[1]
  OBVIOUS
<1>2. \A i \in DOMAIN s : s[i] = Head(s) => i = 1
  BY <1>1
<1>3. 1 \in DOMAIN s /\ s[1] = Head(s)
  BY <1>1
<1>4. at = 1
  BY <1>2, <1>3
<1> HIDE DEF at
<1>5. Drop(s, Head(s)) = SubSeq(s, 1, at - 1) \o SubSeq(s, at + 1, Len(s))
  BY <1>3 DEF Drop, at
<1>6. SubSeq(s, 1, at - 1) = <<>>
  BY <1>1, <1>4
<1>7. SubSeq(s, at + 1, Len(s)) = Tail(s)
  BY <1>1, <1>4
<1>8. Tail(s) \in Seq(S) /\ \A y \in Seq(S) : <<>> \o y = y
  OBVIOUS
<1> QED BY <1>5, <1>6, <1>7, <1>8

(* A rollback tries what was announced and then what was done.             *)
LEMMA RollsInTurn ==
  ASSUME JournalTyped, todo = RollBack(journal)
  PROVE  LET d == journal.done
             a == journal.announced
         IN  /\ a # <<>> => /\ todo # <<>> /\ Head(todo) = [act |-> Head(a), sure |-> FALSE]
                            /\ Tail(todo) = RollBack([done |-> d, announced |-> Tail(a)])
             /\ a = <<>> /\ d # <<>> => /\ todo # <<>> /\ Head(todo) = [act |-> Head(d), sure |-> TRUE]
                                        /\ Tail(todo) = RollBack([done |-> Tail(d), announced |-> <<>>])
             /\ a = <<>> /\ d = <<>> => todo = <<>>
<1> DEFINE d == journal.done
           a == journal.announced
           L == todo
           S == Spares
<1>0. L = RollBack([done |-> d, announced |-> a]) /\ d \in Seq(S) /\ a \in Seq(S)
  BY DEF JournalTyped
<1> HIDE DEF d, a, L, S
<1> DEFINE T == [act : S, sure : BOOLEAN]
<1>1. \A u \in Seq(S) : /\ Unsure(u) \in [1..Len(u) -> T] /\ Sure(u) \in [1..Len(u) -> T]
                        /\ Len(u) \in Nat
  BY DEF Unsure, Sure
<1>2. \A u \in Seq(S) : \A i \in 1..Len(u) : /\ Unsure(u)[i] = [act |-> u[i], sure |-> FALSE]
                                             /\ Sure(u)[i] = [act |-> u[i], sure |-> TRUE]
  <2>1. \A u \in Seq(S) : DOMAIN u = 1..Len(u)
    OBVIOUS
  <2>2. \A u : \A i \in DOMAIN u : /\ Unsure(u)[i] = [act |-> u[i], sure |-> FALSE]
                                   /\ Sure(u)[i] = [act |-> u[i], sure |-> TRUE]
    BY Zenon DEF Unsure, Sure
  <2> QED BY <2>1, <2>2, Zenon
<1> HIDE DEF T
<1>3. \A n \in Nat : \A g \in [1..n -> T] : g \in Seq(T) /\ Len(g) = n
  OBVIOUS
<1>4. \A u \in Seq(S) : /\ Unsure(u) \in Seq(T) /\ Len(Unsure(u)) = Len(u)
                        /\ Sure(u) \in Seq(T) /\ Len(Sure(u)) = Len(u)
  BY <1>1, <1>3, Zenon
<1>5. \A u \in Seq(S) : u # <<>> => /\ Tail(Unsure(u)) = Unsure(Tail(u)) /\ Tail(Sure(u)) = Sure(Tail(u))
                                    /\ Head(Unsure(u)) = [act |-> Head(u), sure |-> FALSE]
                                    /\ Head(Sure(u)) = [act |-> Head(u), sure |-> TRUE]
  <2> SUFFICES ASSUME NEW u \in Seq(S), u # <<>>
               PROVE  /\ Tail(Unsure(u)) = Unsure(Tail(u)) /\ Tail(Sure(u)) = Sure(Tail(u))
                      /\ Head(Unsure(u)) = [act |-> Head(u), sure |-> FALSE]
                      /\ Head(Sure(u)) = [act |-> Head(u), sure |-> TRUE]
    OBVIOUS
  <2>1. Tail(u) \in Seq(S) /\ Len(u) \in Nat \ {0} /\ Len(Tail(u)) = Len(u) - 1
    OBVIOUS
  <2>2. \A i \in 1..(Len(u) - 1) : Tail(u)[i] = u[i + 1] /\ i \in 1..Len(Tail(u))
    BY <2>1
  <2>3. Unsure(u) \in Seq(T) /\ Sure(u) \in Seq(T) /\ Len(Unsure(u)) = Len(u) /\ Len(Sure(u)) = Len(u)
    BY <1>4
  <2>4. /\ Unsure(Tail(u)) \in Seq(T) /\ Sure(Tail(u)) \in Seq(T)
        /\ Len(Unsure(Tail(u))) = Len(u) - 1 /\ Len(Sure(Tail(u))) = Len(u) - 1
    BY <1>4, <2>1
  <2>5. \A i \in 1..(Len(u) - 1) : Tail(Unsure(u))[i] = Unsure(Tail(u))[i]
    <3> TAKE i \in 1..(Len(u) - 1)
    <3>1. Tail(Unsure(u))[i] = Unsure(u)[i + 1]
      BY <2>1, <2>3
    <3>0. i + 1 \in 1..Len(u)
      BY <2>1
    <3>2. Unsure(u)[i + 1] = [act |-> u[i + 1], sure |-> FALSE]
      BY <1>2, <3>0, Zenon
    <3>3. Unsure(Tail(u))[i] = [act |-> Tail(u)[i], sure |-> FALSE]
      BY <1>2, <2>1, <2>2, Zenon
    <3> QED BY <2>2, <3>1, <3>2, <3>3
  <2>6. \A i \in 1..(Len(u) - 1) : Tail(Sure(u))[i] = Sure(Tail(u))[i]
    <3> TAKE i \in 1..(Len(u) - 1)
    <3>1. Tail(Sure(u))[i] = Sure(u)[i + 1]
      BY <2>1, <2>3
    <3>0. i + 1 \in 1..Len(u)
      BY <2>1
    <3>2. Sure(u)[i + 1] = [act |-> u[i + 1], sure |-> TRUE]
      BY <1>2, <3>0, Zenon
    <3>3. Sure(Tail(u))[i] = [act |-> Tail(u)[i], sure |-> TRUE]
      BY <1>2, <2>1, <2>2, Zenon
    <3> QED BY <2>2, <3>1, <3>2, <3>3
  <2>7. Tail(Unsure(u)) = Unsure(Tail(u))
    <3>1. Tail(Unsure(u)) \in Seq(T) /\ Len(Tail(Unsure(u))) = Len(u) - 1
      BY <2>1, <2>3
    <3> QED BY <2>4, <2>5, <3>1, SeqEqual
  <2>8. Tail(Sure(u)) = Sure(Tail(u))
    <3>1. Tail(Sure(u)) \in Seq(T) /\ Len(Tail(Sure(u))) = Len(u) - 1
      BY <2>1, <2>3
    <3> QED BY <2>4, <2>6, <3>1, SeqEqual
  <2>9. Head(Unsure(u)) = Unsure(u)[1] /\ Head(Sure(u)) = Sure(u)[1] /\ Head(u) = u[1] /\ 1 \in 1..Len(u)
    BY <2>1, <2>3
  <2> QED BY <1>2, <2>7, <2>8, <2>9
<1>6. \A x, y \in Seq(T) : x # <<>> => x \o y # <<>> /\ Head(x \o y) = Head(x) /\ Tail(x \o y) = Tail(x) \o y
  OBVIOUS
<1>7. \A y \in Seq(T) : <<>> \o y = y
  OBVIOUS
<1>8. Unsure(<<>>) = <<>> /\ Sure(<<>>) = <<>>
  <2>1. <<>> \in Seq(S) /\ Len(<<>>) = 0
    OBVIOUS
  <2>2. /\ Unsure(<<>>) \in Seq(T) /\ Len(Unsure(<<>>)) = 0
        /\ Sure(<<>>) \in Seq(T) /\ Len(Sure(<<>>)) = 0
    BY <1>4, <2>1
  <2>3. \A x \in Seq(T) : Len(x) = 0 => x = <<>>
    OBVIOUS
  <2> QED BY <2>2, <2>3
<1>9. L = Unsure(a) \o Sure(d)
  BY <1>0 DEF RollBack
<1>10. CASE a # <<>>
  <2>1. Unsure(a) \in Seq(T) /\ Sure(d) \in Seq(T) /\ Unsure(a) # <<>>
    BY <1>0, <1>4, <1>10
  <2>2. RollBack([done |-> d, announced |-> Tail(a)]) = Unsure(Tail(a)) \o Sure(d)
    BY DEF RollBack
  <2>3. Tail(Unsure(a)) = Unsure(Tail(a)) /\ Head(Unsure(a)) = [act |-> Head(a), sure |-> FALSE]
    BY <1>0, <1>5, <1>10
  <2>4. /\ Unsure(a) \o Sure(d) # <<>> /\ Head(Unsure(a) \o Sure(d)) = Head(Unsure(a))
        /\ Tail(Unsure(a) \o Sure(d)) = Tail(Unsure(a)) \o Sure(d)
    BY <1>6, <2>1
  <2> QED BY <1>9, <1>10, <2>2, <2>3, <2>4 DEF d, a, L
<1>11. CASE a = <<>> /\ d # <<>>
  <2>1. Sure(d) \in Seq(T) /\ Sure(d) # <<>> /\ Tail(d) \in Seq(S)
    BY <1>0, <1>4, <1>11
  <2>2. L = Sure(d)
    BY <1>7, <1>8, <1>9, <1>11, <2>1
  <2>3. RollBack([done |-> Tail(d), announced |-> <<>>]) = Unsure(<<>>) \o Sure(Tail(d))
    BY DEF RollBack
  <2>4. RollBack([done |-> Tail(d), announced |-> <<>>]) = Sure(Tail(d))
    BY <1>4, <1>7, <1>8, <2>1, <2>3
  <2> QED BY <1>0, <1>5, <1>11, <2>1, <2>2, <2>4 DEF d, a, L
<1>12. CASE a = <<>> /\ d = <<>>
  BY <1>8, <1>9, <1>12 DEF d, a, L
<1> QED BY <1>10, <1>11, <1>12 DEF d, a

(* A journal that holds what is left of an activation and of the files:    *)
(* both announced, the activation or both done, or the files announced.    *)
Recorded(j, p, w, a, f, n) ==
    \/ j = [done |-> Filed(w, f), announced |-> Part(p, a, n)]
    \/ j = [done |-> Part(p, a, n) \o Filed(w, f), announced |-> <<>>]
    \/ a = "none" /\ j = [done |-> <<>>, announced |-> Filed(w, f)]

(* The undo a rollback tries next is the one its journal crosses off.      *)
LEMMA Reverts ==
  ASSUME JournalTyped, todo = RollBack(journal), NEW first, NEW rest
  PROVE  /\ InTurn(journal.announced, first, rest) =>
              /\ todo # <<>> /\ Head(todo).act = first
              /\ Reverted(Head(todo)) = [done |-> journal.done, announced |-> rest]
              /\ Tail(todo) = RollBack(Reverted(Head(todo)))
         /\ journal.announced = <<>> /\ InTurn(journal.done, first, rest) =>
              /\ todo # <<>> /\ Head(todo).act = first
              /\ Reverted(Head(todo)) = [done |-> rest, announced |-> <<>>]
              /\ Tail(todo) = RollBack(Reverted(Head(todo)))
         /\ journal.announced = <<>> /\ journal.done = <<>> => todo = <<>>
<1>1. /\ journal = [done |-> journal.done, announced |-> journal.announced]
      /\ journal.done \in Seq(Spares) /\ journal.announced \in Seq(Spares)
  BY DEF JournalTyped
<1> DEFINE d == journal.done
           a == journal.announced
<1>2. todo = RollBack([done |-> d, announced |-> a]) /\ d \in Seq(Spares) /\ a \in Seq(Spares)
  BY <1>1
<1>a. /\ a # <<>> => /\ todo # <<>> /\ Head(todo) = [act |-> Head(a), sure |-> FALSE]
                     /\ Tail(todo) = RollBack([done |-> d, announced |-> Tail(a)])
      /\ a = <<>> /\ d # <<>> => /\ todo # <<>> /\ Head(todo) = [act |-> Head(d), sure |-> TRUE]
                                 /\ Tail(todo) = RollBack([done |-> Tail(d), announced |-> <<>>])
      /\ a = <<>> /\ d = <<>> => todo = <<>>
  BY RollsInTurn
<1>3. CASE InTurn(a, first, rest)
  <2>1. a # <<>> /\ Head(a) = first /\ Tail(a) = rest /\ Drop(a, first) = rest
    BY <1>1, <1>3, DropsFirst DEF InTurn
  <2>2. /\ todo # <<>> /\ Head(todo) = [act |-> first, sure |-> FALSE]
        /\ Tail(todo) = RollBack([done |-> d, announced |-> rest])
    BY <1>a, <2>1
  <2>3. Reverted(Head(todo)) = [journal EXCEPT !.announced = Drop(a, first)]
    BY <1>1, <2>2 DEF Reverted
  <2>4. Reverted(Head(todo)) = [done |-> d, announced |-> rest]
    BY <1>1, <2>1, <2>3
  <2> QED BY <2>1, <2>2, <2>4
<1>4. CASE a = <<>> /\ InTurn(d, first, rest)
  <2>1. d # <<>> /\ Head(d) = first /\ Tail(d) = rest /\ Drop(d, first) = rest
    BY <1>1, <1>4, DropsFirst DEF InTurn
  <2>2. /\ todo # <<>> /\ Head(todo) = [act |-> first, sure |-> TRUE]
        /\ Tail(todo) = RollBack([done |-> rest, announced |-> <<>>])
    BY <1>a, <1>4, <2>1
  <2>3. Reverted(Head(todo)) = [journal EXCEPT !.done = Drop(d, first)]
    BY <1>1, <2>2 DEF Reverted
  <2>4. Reverted(Head(todo)) = [done |-> rest, announced |-> <<>>]
    BY <1>1, <1>4, <2>1, <2>3
  <2>5. ~InTurn(a, first, rest)
    BY <1>4 DEF InTurn
  <2> QED BY <2>1, <2>2, <2>4, <2>5
<1>5. ASSUME a = <<>>, d = <<>> PROVE todo = <<>>
  BY <1>a, <1>5
<1> QED BY <1>3, <1>4, <1>5

LEMMA RestoresInTurn == \A w : InTurn(<<Restore(w)>>, Restore(w), <<>>)
  BY DEF InTurn

LEMMA NextOf ==
  ASSUME JournalTyped, todo = RollBack(journal), todo # <<>>,
         NEW p, NEW w, NEW a \in Parts, NEW f \in BOOLEAN, NEW n, Recorded(journal, p, w, a, f, n)
  PROVE  /\ Tail(todo) = RollBack(Reverted(Head(todo)))
         /\ \/ /\ a # "none" /\ Head(todo).act = First(p, a, n)
               /\ Recorded(Reverted(Head(todo)), p, w, Rest(a), f, n)
            \/ /\ a = "none" /\ f /\ Head(todo).act = Restore(w)
               /\ Recorded(Reverted(Head(todo)), p, w, a, FALSE, n)
<1>1. Part(p, "none", n) = <<>> /\ Filed(w, FALSE) = <<>> /\ Filed(w, TRUE) = <<Restore(w)>>
  BY DEF Part, Filed
<1>2. Part(p, "none", n) \o Filed(w, f) = Filed(w, f)
  <2>1. <<>> \o <<>> = <<>> /\ <<>> \o <<Restore(w)>> = <<Restore(w)>>
    OBVIOUS
  <2> QED BY <1>1, <2>1
<1>3. CASE a # "none"
  <2>1. /\ InTurn(Part(p, a, n), First(p, a, n), Part(p, Rest(a), n))
        /\ InTurn(Part(p, a, n) \o Filed(w, f), First(p, a, n), Part(p, Rest(a), n) \o Filed(w, f))
    BY <1>3, PartsInTurn
  <2>2. CASE journal = [done |-> Filed(w, f), announced |-> Part(p, a, n)]
    <3>1. journal.done = Filed(w, f) /\ InTurn(journal.announced, First(p, a, n), Part(p, Rest(a), n))
      BY <2>1, <2>2
    <3>2. /\ Head(todo).act = First(p, a, n) /\ Tail(todo) = RollBack(Reverted(Head(todo)))
          /\ Reverted(Head(todo)) = [done |-> journal.done, announced |-> Part(p, Rest(a), n)]
      BY <3>1, Reverts
    <3> QED BY <1>3, <3>1, <3>2 DEF Recorded
  <2>3. CASE journal = [done |-> Part(p, a, n) \o Filed(w, f), announced |-> <<>>]
    <3>1. /\ journal.announced = <<>>
          /\ InTurn(journal.done, First(p, a, n), Part(p, Rest(a), n) \o Filed(w, f))
      BY <2>1, <2>3
    <3>2. /\ Head(todo).act = First(p, a, n) /\ Tail(todo) = RollBack(Reverted(Head(todo)))
          /\ Reverted(Head(todo)) = [done |-> Part(p, Rest(a), n) \o Filed(w, f), announced |-> <<>>]
      BY <3>1, Reverts
    <3> QED BY <1>3, <3>2 DEF Recorded
  <2> QED BY <1>3, <2>2, <2>3 DEF Recorded
<1>4. CASE a = "none"
  <2>1. CASE journal = [done |-> Filed(w, f), announced |-> <<>>]
    <3>1. f
      <4>1. ~f => journal.announced = <<>> /\ journal.done = <<>>
        BY <1>1, <2>1
      <4> QED BY <4>1, Reverts
    <3>2. journal.announced = <<>> /\ InTurn(journal.done, Restore(w), <<>>)
      BY <1>1, <2>1, <3>1, RestoresInTurn
    <3>3. /\ Head(todo).act = Restore(w) /\ Tail(todo) = RollBack(Reverted(Head(todo)))
          /\ Reverted(Head(todo)) = [done |-> <<>>, announced |-> <<>>]
      BY <3>2, Reverts
    <3> QED BY <1>1, <1>4, <3>1, <3>3 DEF Recorded
  <2>2. CASE journal = [done |-> <<>>, announced |-> Filed(w, f)]
    <3>1. f
      <4>1. ~f => journal.announced = <<>> /\ journal.done = <<>>
        BY <1>1, <2>2
      <4> QED BY <4>1, Reverts
    <3>2. journal.done = <<>> /\ InTurn(journal.announced, Restore(w), <<>>)
      BY <1>1, <2>2, <3>1, RestoresInTurn
    <3>3. /\ Head(todo).act = Restore(w) /\ Tail(todo) = RollBack(Reverted(Head(todo)))
          /\ Reverted(Head(todo)) = [done |-> <<>>, announced |-> <<>>]
      BY <3>2, Reverts
    <3> QED BY <1>1, <1>4, <3>1, <3>3 DEF Recorded
  <2> QED BY <1>1, <1>2, <1>4, <2>1, <2>2 DEF Recorded
<1> QED BY <1>3, <1>4

-----------------------------------------------------------------------------
(* The way back from every step of a request nobody meddles with.          *)
Early == {"write", "check", "find", "wait", "look", "clean"}
TakingBack == {"unswitch", "undelete", "unapply"}
Under == (Requesting \ Recording) \cup TakingBack
Undoing == {"undo", "undo2"}

(* The profile is what these undos make the one the request found.         *)
Reaches(a, f, n) ==
    /\ ~f => files = past.files
    /\ a \in {"none", "apply", "reuse"} => DOMAIN links = DOMAIN past.links
    /\ a \in {"delete", "activation"} =>
          n \notin DOMAIN past.links /\ DOMAIN links \subseteq DOMAIN past.links \cup {n}
    /\ a \in {"none", "apply", "delete"} => active = past.active
    /\ a \in {"activation", "reuse"} => active \in {past.active, n}
    /\ a = "none" => active = None \/ home \in {past.home, Content(active)}

Undoable(parts) ==
    \E a \in parts, f \in BOOLEAN, n \in Nat \ {0} :
        Recorded(journal, past.active, past.files, a, f, n) /\ Reaches(a, f, n)

(* The generation an activation is about.                                  *)
Aim == IF pc = "build" THEN op.predicted ELSE op.new

Before ==
    /\ journal.done \in {<<>>, <<Restore(past.files)>>}
    /\ journal.done = <<>> => files = past.files
    /\ pc = "write" => journal.done = <<>>
    /\ pc \in Early => journal.announced = <<>>
    /\ pc \in Standing => active = past.active /\ home = past.home /\ DOMAIN links = DOMAIN past.links
    /\ pc \notin Early =>
         /\ op.previous = past.active /\ op.before = DOMAIN past.links
         /\ Aim \in Nat \ {0} /\ Aim # past.active /\ active \in {past.active, Aim}
         /\ Aim \in op.before => /\ journal.announced = undo_reuse(past.active, Aim)
                                 /\ DOMAIN links = DOMAIN past.links
         /\ Aim \notin op.before => /\ journal.announced = undo_activation(past.active, Aim)
                                    /\ DOMAIN links \subseteq DOMAIN past.links \cup {Aim}

WayBack ==
    /\ pc # "idle" => past.active \in DOMAIN past.links \cup {None}
    /\ pc \in Under => Before
    /\ pc \notin Under \cup {"idle"} => Undoable(Parts)
    /\ pc \in Undoing => todo = RollBack(journal)

Mapped ==
    /\ links = [h \in DOMAIN links |-> links[h]]
    /\ past.links = [h \in DOMAIN past.links |-> past.links[h]]

BackInv == Mapped /\ (~past.meddled /\ ~past.stuck => WayBack) /\ UndoneProfileIsBack

LEMMA InitBack == ASSUME Init PROVE BackInv
<1>1. links \in {<<>>, <<[list |-> Seed, pins |-> Embedded]>>, <<Unread, [list |-> Seed, pins |-> Embedded]>>}
  BY DEF Init
<1>2. pc = "idle" /\ past = NoPast
  BY DEF Init
<1>3. links = [h \in DOMAIN links |-> links[h]]
  <2>1. \A x : <<x>> = [h \in DOMAIN <<x>> |-> <<x>>[h]]
    OBVIOUS
  <2>2. \A x, y : <<x, y>> = [h \in DOMAIN <<x, y>> |-> <<x, y>>[h]]
    <3> TAKE x, y
    <3>1. <<x, y>> \in Seq({x, y}) /\ Len(<<x, y>>) = 2
      OBVIOUS
    <3>2. \A s \in Seq({x, y}) : s \in [1..Len(s) -> {x, y}]
      OBVIOUS
    <3>3. <<x, y>> \in [1..2 -> {x, y}]
      BY <3>1, <3>2
    <3> QED BY <3>3
  <2>3. <<>> = [h \in DOMAIN <<>> |-> <<>>[h]]
    OBVIOUS
  <2> DEFINE x == [list |-> Seed, pins |-> Embedded]
  <2>4. links = <<>> \/ links = <<x>> \/ links = <<Unread, x>>
    BY <1>1
  <2> HIDE DEF x
  <2>5. CASE links = <<>>
    BY <2>3, <2>5
  <2>6. CASE links = <<x>>
    <3>1. <<x>> = [h \in DOMAIN <<x>> |-> <<x>>[h]]
      BY <2>1
    <3> QED BY <2>6, <3>1
  <2>7. CASE links = <<Unread, x>>
    <3>1. <<Unread, x>> = [h \in DOMAIN <<Unread, x>> |-> <<Unread, x>>[h]]
      BY <2>2
    <3> QED BY <2>7, <3>1
  <2> QED BY <2>4, <2>5, <2>6, <2>7
<1>4. past.links = <<>> /\ <<>> = [h \in DOMAIN <<>> |-> <<>>[h]]
  BY <1>2 DEF NoPast
<1>5. WayBack
  BY <1>2 DEF WayBack, Under, Requesting, Standing, Made, Recording, TakingBack, Undoing
<1>6. UndoneProfileIsBack
  BY <1>2 DEF UndoneProfileIsBack, NoPast
<1> QED BY <1>3, <1>4, <1>5, <1>6 DEF BackInv, Mapped

LEMMA MappedKept == ASSUME Inv, Mapped, [Next]_vars PROVE Mapped'
<1>0. ProfileTyped /\ PastTyped
  BY DEF Inv, Typed
<1>1. ASSUME NEW g, NEW x, links' = Linked(g, x) PROVE links' = [h \in DOMAIN links' |-> links'[h]]
  BY <1>1 DEF Linked
<1>2. ASSUME NEW g, delete(g) PROVE links' = [h \in DOMAIN links' |-> links'[h]]
  BY <1>2 DEF delete
<1>3. links' = links \/ (\E g, x : links' = Linked(g, x)) \/ (\E g : delete(g))
  <2>1. Build \/ UserActs => links' = links \/ (\E g, x : links' = Linked(g, x)) \/ (\E g : delete(g))
    BY DEF Build, UserActs
  <2>2. Undelete \/ Clean => links' = links \/ (\E g : delete(g))
    BY DEF Undelete, Clean
  <2>3. UndoActs \/ Crash => links' = links \/ (\E g : delete(g))
    BY DEF UndoActs, Crash, Carried, switch_to, profile
  <2>4. \/ Begin \/ Write \/ WriteUnanswered \/ AgentDies \/ QuestionFails \/ BuildFails \/ Check \/ FindBuilt
        \/ WaitProfileLocks \/ Look \/ Swap \/ SwapCut \/ Read \/ Activate \/ ActivateFails
        \/ Unswitch \/ Unapply \/ Reuse \/ ReuseGone \/ Reapply \/ ReapplyFails \/ Cleaned
        \/ CleanFails \/ Stage \/ Publish \/ RecordFails \/ UserCommits \/ Commit \/ Undo
        \/ UndoFails \/ RolledBack \/ Recover \/ UserTakes \/ UserLeaves \/ UNCHANGED vars
        => links' = links
    BY DEF profile, switch_to, vars, Begin, Write, WriteUnanswered, AgentDies, QuestionFails, BuildFails,
         Check, FindBuilt, WaitProfileLocks, Look, Swap, SwapCut, Read, Activate, ActivateFails,
         Unswitch, Unapply, Reuse, ReuseGone, Reapply, ReapplyFails, Cleaned, CleanFails, Stage,
         Publish, RecordFails, UserCommits, Commit, Undo, UndoFails, RolledBack, Recover, UserTakes,
         UserLeaves
  <2> QED BY <2>1, <2>2, <2>3, <2>4 DEF Next
<1>4. links' = [h \in DOMAIN links' |-> links'[h]]
  BY <1>1, <1>2, <1>3 DEF Mapped
<1>5. past'.links = past.links \/ past'.links = links \/ \E g : past'.links = Without(past.links, g)
  <2>1. Begin => past'.links = links
    BY DEF Begin, NoPast
  <2>2. Clean => past'.links = past.links \/ \E g : past'.links = Without(past.links, g)
    <3> SUFFICES ASSUME Clean PROVE past'.links = past.links \/ \E g : past'.links = Without(past.links, g)
      OBVIOUS
    <3>1. past' = past \/ \E g : past' = [past EXCEPT !.links = Without(@, g), !.theirs = @ \ {g}]
      BY DEF Clean
    <3> QED BY <1>0, <3>1 DEF PastTyped
  <2>3. UserActs => past'.links = past.links \/ \E g : past'.links = Without(past.links, g)
    <3> SUFFICES ASSUME UserActs PROVE past'.links = past.links \/ \E g : past'.links = Without(past.links, g)
      OBVIOUS
    <3>1. \/ \E g : past' = [Meddled EXCEPT !.theirs = @ \cup {g}]
          \/ past' = Meddled
          \/ \E g : past' = [Meddled EXCEPT !.links = Without(@, g), !.theirs = @ \ {g}]
      BY DEF UserActs
    <3>2. {"links", "theirs"} \subseteq DOMAIN Meddled /\ Meddled.links = past.links
      BY <1>0 DEF Meddled, PastTyped
    <3> HIDE DEF Meddled
    <3> QED BY <3>1, <3>2
  <2> QED BY <2>1, <2>2, <2>3, PastTypedKept
<1>6. past'.links = [h \in DOMAIN past'.links |-> past'.links[h]]
  <2>1. \A g : Without(past.links, g) = [h \in DOMAIN Without(past.links, g) |-> Without(past.links, g)[h]]
    BY DEF Without
  <2> QED BY <1>5, <2>1 DEF Mapped
<1> QED BY <1>4, <1>6 DEF Mapped

(* What a request remembers of the profile it found.                       *)
LEMMA PastSame ==
  ASSUME Inv, [Next]_vars, ~past'.meddled, ~past'.stuck, ~Begin
  PROVE  /\ ~past.meddled /\ ~past.stuck /\ ~UserActs /\ ~NotUndone
         /\ past'.active = past.active /\ past'.files = past.files /\ past'.home = past.home
         /\ Clean \/ past'.links = past.links
<1>0. PastTyped
  BY DEF Inv, Typed
<1>1. ~past.meddled /\ ~UserActs
  BY Unmeddled
<1>2. ~NotUndone
  BY <1>0 DEF NotUndone, PastTyped
<1>3. \/ past' = past \/ past' = [past EXCEPT !.ran = TRUE]
      \/ Commit \/ RolledBack \/ Crash
      \/ \E g : past' = [past EXCEPT !.links = Without(@, g), !.theirs = @ \ {g}]
  <2>3. Undo \/ UndoFails \/ UndoActs => past' = past \/ NotUndone
    BY DEF Undo, UndoFails, UndoActs, Looks, Undone
  <2>4. Activate \/ Reapply => past' = [past EXCEPT !.ran = TRUE]
    BY DEF Activate, Reapply, Ends
  <2>5. Clean => past' = past \/ \E g : past' = [past EXCEPT !.links = Without(@, g), !.theirs = @ \ {g}]
    BY DEF Clean
  <2>6. \/ Write \/ WriteUnanswered \/ AgentDies \/ QuestionFails \/ BuildFails \/ Check \/ FindBuilt
        \/ WaitProfileLocks \/ Look \/ Build \/ Swap \/ SwapCut \/ Read \/ ActivateFails
        \/ Unswitch \/ Undelete \/ Unapply \/ Reuse \/ ReuseGone \/ ReapplyFails \/ Cleaned
        \/ CleanFails \/ Stage \/ Publish \/ RecordFails \/ UserCommits
        \/ Recover \/ UserTakes \/ UserLeaves \/ UNCHANGED vars
        => past' = past
    BY DEF vars, Write, WriteUnanswered, AgentDies, QuestionFails, BuildFails, Check, FindBuilt,
         WaitProfileLocks, Look, Build, Swap, SwapCut, Read, ActivateFails, Unswitch, Undelete,
         Unapply, Reuse, ReuseGone, ReapplyFails, Cleaned, CleanFails, Stage, Publish, RecordFails,
         UserCommits, Recover, UserTakes, UserLeaves, Goes
  <2> QED BY <1>1, <1>2, <2>3, <2>4, <2>5, <2>6 DEF Next
<1>4. /\ past'.stuck = past.stuck
      /\ past'.active = past.active /\ past'.files = past.files /\ past'.home = past.home
  BY <1>0, <1>3 DEF Commit, RolledBack, Crash, PastTyped
<1> QED BY <1>1, <1>2, <1>4, PastTypedKept

(* What a request under way has journalled undoes it.                      *)
LEMMA BeforeUndoable ==
  ASSUME Inv, pc \in Under, Before
  PROVE  /\ pc \in Early => Undoable({"none"})
         /\ pc \notin Early => Undoable({"reuse", "activation"})
<1>0. journal = [done |-> journal.done, announced |-> journal.announced]
  BY DEF Inv, Typed, JournalTyped
<1> DEFINE f == journal.done # <<>>
<1>1. journal.done = Filed(past.files, f) /\ f \in BOOLEAN /\ (~f => files = past.files)
  BY DEF Before, Filed
<1> HIDE DEF f
<1>2. CASE pc \in Early
  <2>1. Part(past.active, "none", 1) = <<>> /\ 1 \in Nat \ {0}
    BY DEF Part
  <2>2. Recorded(journal, past.active, past.files, "none", f, 1)
    BY <1>0, <1>1, <1>2, <2>1 DEF Recorded, Before
  <2>3. Reaches("none", f, 1)
    BY <1>1, <1>2 DEF Reaches, Before, Early, Standing
  <2> QED BY <1>1, <1>2, <2>1, <2>2, <2>3 DEF Undoable
<1>3. CASE pc \notin Early /\ Aim \in op.before
  <2>1. Part(past.active, "reuse", Aim) = undo_reuse(past.active, Aim) /\ Aim \in Nat \ {0}
    BY <1>3 DEF Part, Before
  <2>2. Recorded(journal, past.active, past.files, "reuse", f, Aim)
    BY <1>0, <1>1, <1>3, <2>1 DEF Recorded, Before
  <2>3. Reaches("reuse", f, Aim)
    BY <1>1, <1>3 DEF Reaches, Before
  <2> HIDE DEF Aim
  <2> QED BY <1>1, <1>3, <2>1, <2>2, <2>3 DEF Undoable
<1>4. CASE pc \notin Early /\ Aim \notin op.before
  <2>1. Part(past.active, "activation", Aim) = undo_activation(past.active, Aim) /\ Aim \in Nat \ {0}
    BY <1>4 DEF Part, Before
  <2>2. Recorded(journal, past.active, past.files, "activation", f, Aim)
    BY <1>0, <1>1, <1>4, <2>1 DEF Recorded, Before
  <2>3. Reaches("activation", f, Aim)
    BY <1>1, <1>4 DEF Reaches, Before
  <2> HIDE DEF Aim
  <2> QED BY <1>1, <1>4, <2>1, <2>2, <2>3 DEF Undoable
<1> QED BY <1>2, <1>3, <1>4

LEMMA UndoableSame ==
  ASSUME NEW parts \in SUBSET Parts, Undoable(parts), UNCHANGED <<links, active, files, journal>>,
         past'.active = past.active, past'.files = past.files, past'.home = past.home,
         past'.links = past.links, home' = home \/ "none" \notin parts
  PROVE  Undoable(Parts)'
<1>1. PICK a \in parts, f \in BOOLEAN, n \in Nat \ {0} :
          Recorded(journal, past.active, past.files, a, f, n) /\ Reaches(a, f, n)
  BY DEF Undoable
<1>2. Recorded(journal', past'.active, past'.files, a, f, n)
  BY <1>1
<1>3. Reaches(a, f, n)'
  BY <1>1 DEF Reaches, Content
<1> QED BY <1>1, <1>2, <1>3 DEF Undoable

LEMMA BeginsBefore == ASSUME Inv, Begin PROVE Before'
<1>1. /\ pc' = "write" /\ UNCHANGED <<links, active, home, files, journal>> /\ journal = NoJournal
      /\ past'.active = active /\ past'.files = files /\ past'.home = home /\ past'.links = links
  BY DEF Begin, profile, NoPast, Inv, Resting
<1> QED BY <1>1 DEF Before, NoJournal, Early, Standing

(* A request stays undoable while it is under way.                         *)
LEMMA BeforeKept ==
  ASSUME Inv, CourseInv, [Next]_vars, ~past'.meddled, ~past'.stuck, pc' \in Under,
         pc \in Under => Before,
         ~Begin => past.active \in DOMAIN past.links \cup {None}
  PROVE  Before'
<1>0. /\ ProfileTyped /\ OpTyped /\ PastTyped /\ JournalTyped /\ Resting /\ Held
      /\ journal = [done |-> journal.done, announced |-> journal.announced]
  BY DEF Inv, Typed, JournalTyped, CourseInv
<1> USE <1>0
<1>a. ~Begin => ~UserActs /\ Course
  BY Unmeddled DEF CourseInv
<1>b. ~Begin => /\ past'.active = past.active /\ past'.files = past.files /\ past'.home = past.home
                /\ Clean \/ past'.links = past.links
  BY PastSame
<1> USE DEF Under, Requesting, Recording, Made, Standing, TakingBack, Early
<1>1. CASE Begin
  BY <1>1, BeginsBefore
<1>2. CASE UNCHANGED <<profile, files, pc, op, journal, past>>
  BY <1>2 DEF Before, Aim, profile
<1>3. CASE Write /\ ~Begin
  <2>1. /\ pc = "write" /\ pc' = "check" /\ UNCHANGED <<links, active, home>>
        /\ past' = past /\ files' = op.want
        /\ journal'.announced = journal.announced
        /\ journal'.done = IF files = op.want THEN journal.done ELSE <<Restore(files)>> \o journal.done
    BY <1>3 DEF Write, Goes, profile
  <2>2. <<Restore(files)>> \o <<>> = <<Restore(files)>>
    BY Joined1
  <2>3. journal.done = <<>> /\ journal.announced = <<>> /\ files = past.files
    BY <2>1 DEF Before
  <2>4. journal'.done = IF files = op.want THEN <<>> ELSE <<Restore(past.files)>>
    BY <2>1, <2>2, <2>3
  <2>5. <<Restore(past.files)>> # <<>>
    OBVIOUS
  <2>6. journal'.done \in {<<>>, <<Restore(past'.files)>>} /\ (journal'.done = <<>> => files' = past'.files)
    BY <2>1, <2>3, <2>4, <2>5
  <2> QED BY <2>1, <2>3, <2>6 DEF Before
<1>4. CASE (Check \/ FindBuilt \/ WaitProfileLocks) /\ ~Begin
  <2>1. /\ pc \in {"check", "find", "wait"} /\ pc' \in {"find", "wait", "look", "clean"}
        /\ UNCHANGED <<links, active, home, files, journal, past>>
    BY <1>4 DEF Check, FindBuilt, WaitProfileLocks, Goes, profile
  <2> QED BY <2>1 DEF Before
<1>5. CASE Look /\ ~Begin
  <2> DEFINE n == Newest(DOMAIN links) + 1
  <2>1. n \in Nat \ {0} /\ n \notin DOMAIN links
    BY NewestIs DEF ProfileTyped
  <2>2. /\ pc = "look" /\ UNCHANGED <<links, active, home, files, past>>
        /\ op'.previous = active /\ op'.before = DOMAIN links /\ op'.predicted = n
        /\ journal'.done = journal.done
    BY <1>5 DEF Look, Goes, profile, OpTyped
  <2>3. /\ active = past.active /\ home = past.home /\ DOMAIN links = DOMAIN past.links
        /\ journal.done \in {<<>>, <<Restore(past.files)>>} /\ (journal.done = <<>> => files = past.files)
    BY <2>2 DEF Before
  <2>4. CASE op.built \in DOMAIN links
    <3>1. op.built # active
      BY <1>5, <1>a, <2>2, <2>4 DEF Course, Content
    <3>2. op'.new = op.built /\ pc' = "switch" /\ journal'.announced = undo_reuse(active, op.built)
      BY <1>5, <2>4, <3>1 DEF Look, Goes, OpTyped
    <3>3. op.built \in Nat \ {0}
      BY <2>4 DEF ProfileTyped, Generation
    <3> HIDE DEF n
    <3> QED BY <2>2, <2>3, <2>4, <3>1, <3>2, <3>3 DEF Before, Aim
  <2>5. CASE op.built \notin DOMAIN links
    <3>1. pc' = "build" /\ journal'.announced = undo_activation(active, n)
      BY <1>5, <2>5 DEF Look, Goes, OpTyped
    <3>2. n # past.active
      BY <1>5, <2>1, <2>3 DEF None
    <3> HIDE DEF n
    <3> QED BY <2>1, <2>2, <2>3, <3>1, <3>2 DEF Before, Aim
  <2> QED BY <2>4, <2>5
<1>6. CASE Build /\ ~Begin
  <2>1. /\ pc = "build" /\ pc' = "swap" /\ UNCHANGED <<active, home, files, journal, past>>
        /\ op'.new = Numbered /\ op'.previous = op.previous /\ op'.before = op.before
        /\ links' = Linked(Numbered, files)
    BY <1>6 DEF Build, Goes, OpTyped
  <2>2. Numbered = op.predicted
    <3>1. (\A g \in DOMAIN links : links[g] # files) /\ op.predicted = Newest(DOMAIN links) + 1
      BY <1>6, <1>a, <2>1 DEF Course
    <3>2. DOMAIN links # {} => Newest(DOMAIN links) \in DOMAIN links
      BY NewestIs DEF ProfileTyped
    <3>3. ~(DOMAIN links # {} /\ Content(Newest(DOMAIN links)) = files)
      BY <3>1, <3>2 DEF Content
    <3> QED BY <3>1, <3>3 DEF Numbered
  <2>3. DOMAIN links' = DOMAIN links \cup {op.predicted}
    BY <2>1, <2>2 DEF Linked
  <2>4. op.predicted \notin DOMAIN links
    BY <1>6, <1>a, <2>1, NewestIs DEF Course, ProfileTyped
  <2> QED BY <2>1, <2>2, <2>3, <2>4 DEF Before, Aim
<1>7. CASE Swap /\ ~Begin
  <2>1. pc = "swap" /\ pc' = "read" /\ active' = op.new /\ UNCHANGED <<links, files, op, journal, past>>
    BY <1>7 DEF Swap, Goes
  <2> QED BY <2>1 DEF Before, Aim
<1>8. CASE Read /\ ~Begin
  <2>1. active = op.new /\ op.new \in DOMAIN links
    BY <1>8, <1>a DEF Read, Course
  <2>2. active # None
    BY <2>1 DEF ProfileTyped, Generation, None
  <2>3. /\ pc = "read" /\ pc' = "activate" /\ UNCHANGED <<links, active, files, journal, past>>
        /\ op'.new = op.new /\ op'.previous = op.previous /\ op'.before = op.before
    BY <1>8, <2>1, <2>2 DEF Read, Goes, profile, OpTyped
  <2> QED BY <2>3 DEF Before, Aim
<1>9. CASE (ActivateFails \/ ReapplyFails) /\ ~Begin
  <2>1. /\ pc \in {"activate", "apply"} /\ pc' \in TakingBack
        /\ UNCHANGED <<links, active, files, op, journal, past>>
    BY <1>9 DEF ActivateFails, ReapplyFails
  <2> QED BY <2>1 DEF Before, Aim
<1>10. CASE (Unswitch \/ Reuse) /\ ~Begin
  <2>1. /\ pc \in {"unswitch", "switch"} /\ pc' \in {"undelete", "apply"}
        /\ active' \in {active, op.previous, op.new}
        /\ UNCHANGED <<links, files, op, journal, past>>
    BY <1>10 DEF Unswitch, Reuse, switch_to, Goes
  <2> QED BY <2>1 DEF Before, Aim
<1>11. CASE Undelete /\ ~Begin
  <2>1. pc = "undelete" /\ pc' = "unapply" /\ UNCHANGED <<files, op, journal, past>>
    BY <1>11 DEF Undelete
  <2>2. UNCHANGED <<links, active>> \/ (delete(op.new) /\ op.new \notin op.before)
    BY <1>11 DEF Undelete
  <2>3. /\ active' = active /\ DOMAIN links' \subseteq DOMAIN links
        /\ op.new \in op.before => links' = links
    BY <2>2, Deletes
  <2> QED BY <2>1, <2>3 DEF Before, Aim
<1>12. CASE Clean /\ ~Begin
  <2>1. pc = "clean" /\ pc' = pc /\ UNCHANGED <<home, files, journal>>
    BY <1>12 DEF Clean
  <2>2. \/ UNCHANGED <<links, active, past>>
        \/ \E g : delete(g) /\ past' = [past EXCEPT !.links = Without(@, g), !.theirs = @ \ {g}]
    BY <1>12 DEF Clean
  <2>3. \/ UNCHANGED <<links, active>> /\ past'.links = past.links
        \/ \E g : delete(g) /\ past'.links = Without(past.links, g)
    BY <2>2 DEF PastTyped
  <2>4. DOMAIN links = DOMAIN past.links
    BY <2>1 DEF Before
  <2>5. active' = active /\ DOMAIN links' = DOMAIN past'.links
    BY <2>3, <2>4, Deletes DEF Without
  <2> QED BY <1>b, <1>12, <2>1, <2>5 DEF Before
<1>13. AgentDies \/ UserCommits \/ UserTakes \/ UserLeaves \/ UNCHANGED vars
       => UNCHANGED <<profile, files, pc, op, journal, past>>
  BY DEF AgentDies, UserCommits, UserTakes, UserLeaves, vars, profile
<1>14. \/ WriteUnanswered \/ QuestionFails \/ BuildFails \/ SwapCut \/ Activate \/ Unapply \/ ReuseGone
       \/ Reapply \/ Cleaned \/ CleanFails \/ Stage \/ Publish \/ RecordFails \/ Commit \/ Undo
       \/ UndoFails \/ UndoActs \/ RolledBack \/ Crash \/ Recover
       => pc' \notin Under
  BY DEF WriteUnanswered, QuestionFails, BuildFails, SwapCut, Activate, Unapply, ReuseGone, Reapply,
       Cleaned, CleanFails, Stage, Publish, RecordFails, Fail, Goes, Ends, Commit, Undo, UndoFails,
       UndoActs, Looks, Undone, NotUndone, RolledBack, Crash, Recover
<1> QED BY <1>a, <1>1, <1>2, <1>3, <1>4, <1>5, <1>6, <1>7, <1>8, <1>9, <1>10, <1>11, <1>12, <1>13, <1>14 DEF Next

(* What was written and not answered is put back.                          *)
LEMMA WrittenUndoable ==
  ASSUME Inv, pc = "write", Before, UNCHANGED <<links, active, home>>,
         past'.active = past.active, past'.files = past.files, past'.home = past.home,
         past'.links = past.links,
         journal' = [journal EXCEPT !.announced = <<Restore(files)>>]
  PROVE  Undoable(Parts)'
<1>1. /\ journal.done = <<>> /\ files = past.files /\ active = past.active /\ home = past.home
      /\ DOMAIN links = DOMAIN past.links
  BY DEF Before, Standing
<1>2. journal' = [done |-> <<>>, announced |-> Filed(past.files, TRUE)]
  BY <1>1 DEF Inv, Typed, JournalTyped, Filed
<1>3. Recorded(journal', past'.active, past'.files, "none", TRUE, 1)
  BY <1>2 DEF Recorded
<1>4. Reaches("none", TRUE, 1)'
  BY <1>1 DEF Reaches
<1>5. "none" \in Parts /\ TRUE \in BOOLEAN /\ 1 \in Nat \ {0}
  BY DEF Parts
<1> QED BY <1>3, <1>4, <1>5 DEF Undoable

(* What an activation leaves when it ends undoes it.                       *)
LEMMA EndedUndoable ==
  ASSUME Inv, pc \in {"activate", "apply"}, Before, UNCHANGED <<links, active, files>>,
         past'.active = past.active, past'.files = past.files, past'.home = past.home,
         past'.links = past.links,
         journal' = [done |-> journal.announced \o journal.done, announced |-> <<>>]
  PROVE  Undoable(Parts)'
<1>1. PICK f \in BOOLEAN : journal.done = Filed(past.files, f) /\ (~f => files = past.files)
  BY DEF Before, Filed
<1>2. PICK n \in Nat \ {0} : n = op.new
  BY DEF Before, Aim, Early
<1>3. PICK a \in {"reuse", "activation"} : a = IF n \in op.before THEN "reuse" ELSE "activation"
  OBVIOUS
<1>4. journal.announced = Part(past.active, a, n)
  BY <1>2, <1>3 DEF Before, Aim, Early, Part
<1>5. Reaches(a, f, n)
  BY <1>1, <1>2, <1>3 DEF Before, Aim, Early, Reaches
<1>6. Recorded(journal', past'.active, past'.files, a, f, n)
  BY <1>1, <1>4 DEF Recorded
<1>7. Reaches(a, f, n)'
  BY <1>3, <1>5 DEF Reaches
<1>8. a \in Parts
  BY DEF Parts
<1> QED BY <1>6, <1>7, <1>8 DEF Undoable

(* Carrying out an undo, and then crossing it off or not.                  *)
LEMMA UndoneUndoable ==
  ASSUME Inv, past.active \in DOMAIN past.links \cup {None}, Undoable(Parts),
         todo = RollBack(journal), todo # <<>>, NEW u, u = Head(todo).act,
         past'.active = past.active, past'.files = past.files, past'.home = past.home,
         past'.links = past.links,
         \/ u.undo = "switch" /\ active' = u.to /\ UNCHANGED <<links, home, files>>
         \/ u.undo = "delete" /\ delete(u.generation) /\ UNCHANGED <<home, files>>
         \/ u.undo = "delete" /\ active = u.generation /\ UNCHANGED <<links, active, home, files>>
         \/ u = Apply /\ home' = Applied /\ UNCHANGED <<links, active, files>>
         \/ u.undo = "files" /\ files' = u.was /\ UNCHANGED <<links, active, home>>
  PROVE  /\ journal' = Reverted(Head(todo)) => Undoable(Parts)' /\ Tail(todo) = RollBack(journal')
         /\ journal' = journal /\ u.undo # "files" => Undoable(Parts)'
<1>0. ProfileTyped /\ JournalTyped /\ OldGenerationsAreKept
  BY DEF Inv, Typed
<1>1. PICK a \in Parts, f \in BOOLEAN, n \in Nat \ {0} :
          Recorded(journal, past.active, past.files, a, f, n) /\ Reaches(a, f, n)
  BY DEF Undoable
<1>2. /\ Tail(todo) = RollBack(Reverted(Head(todo)))
      /\ \/ /\ a # "none" /\ u = First(past.active, a, n)
            /\ Recorded(Reverted(Head(todo)), past.active, past.files, Rest(a), f, n)
         \/ /\ a = "none" /\ f /\ u = Restore(past.files)
            /\ Recorded(Reverted(Head(todo)), past.active, past.files, a, FALSE, n)
  <2>1. PICK p, w : p = past.active /\ w = past.files
    OBVIOUS
  <2>2. Recorded(journal, p, w, a, f, n)
    BY <1>1, <2>1
  <2>3. /\ Tail(todo) = RollBack(Reverted(Head(todo)))
        /\ \/ /\ a # "none" /\ Head(todo).act = First(p, a, n)
              /\ Recorded(Reverted(Head(todo)), p, w, Rest(a), f, n)
           \/ /\ a = "none" /\ f /\ Head(todo).act = Restore(w)
              /\ Recorded(Reverted(Head(todo)), p, w, a, FALSE, n)
    <3>1. JournalTyped
      BY <1>0
    <3>2. todo = RollBack(journal) /\ todo # <<>> /\ a \in Parts /\ f \in BOOLEAN
      OBVIOUS
    <3> QED BY ONLY <2>2, <3>1, <3>2, NextOf, Zenon
  <2> QED BY <2>1, <2>3
<1>3. CASE a \in {"activation", "reuse"}
  <2>1. u = Switch(past.active, n) /\ Rest(a) \in {"delete", "apply"} /\ (a = "reuse" <=> Rest(a) = "apply")
    BY <1>2, <1>3 DEF First, Rest
  <2>2. active' = past.active /\ UNCHANGED <<links, home, files>>
    BY <2>1, Kinds
  <2>3. Reaches(a, f, n)'
    BY <1>1, <1>3, <2>2 DEF Reaches
  <2>4. PICK r : r = Rest(a)
    OBVIOUS
  <2>5. Reaches(r, f, n)'
    BY <1>1, <1>3, <2>1, <2>2, <2>4 DEF Reaches
  <2>6. r \in Parts
    BY <2>1, <2>4 DEF Parts
  <2>7. journal' = journal => Undoable(Parts)'
    BY <1>1, <2>3 DEF Undoable
  <2>8. journal' = Reverted(Head(todo)) => Undoable(Parts)'
    <3>1. Recorded(Reverted(Head(todo)), past.active, past.files, r, f, n)
      BY <1>2, <1>3, <2>4
    <3> QED BY <2>5, <2>6, <3>1 DEF Undoable
  <2> QED BY <1>2, <2>7, <2>8
<1>4. CASE a = "delete"
  <2>1. u = Delete(n) /\ Rest(a) = "apply"
    BY <1>2, <1>4 DEF First, Rest
  <2>2. u.undo = "delete" /\ u.generation = n /\ u # Apply
    BY <2>1, Kinds
  <2>a. active # n
    BY <1>1, <1>4 DEF Reaches, None
  <2>3. UNCHANGED <<active, home, files>> /\ DOMAIN links' = DOMAIN links \ {n}
    BY <1>0, <2>2, <2>a, Deletes
  <2>4. DOMAIN links' = DOMAIN past.links /\ active' = past.active
    BY <1>0, <1>1, <1>4, <2>3 DEF Reaches, OldGenerationsAreKept
  <2>5. Reaches("apply", f, n)' /\ Reaches("delete", f, n)'
    BY <1>1, <1>4, <2>3, <2>4 DEF Reaches
  <2>6. journal' = journal => Undoable(Parts)'
    BY <1>1, <1>4, <2>5 DEF Undoable
  <2>7. journal' = Reverted(Head(todo)) => Undoable(Parts)'
    <3>1. Recorded(Reverted(Head(todo)), past.active, past.files, "apply", f, n) /\ "apply" \in Parts
      BY <1>2, <1>4, <2>1 DEF Parts
    <3> QED BY <2>5, <3>1 DEF Undoable
  <2> QED BY <1>2, <2>6, <2>7
<1>5. CASE a = "apply"
  <2>1. u = Apply /\ Rest(a) = "none"
    BY <1>2, <1>5 DEF First, Rest
  <2>2. home' = Applied /\ UNCHANGED <<links, active, files>>
    BY <2>1, Kinds
  <2>3. Reaches("none", f, n)' /\ Reaches("apply", f, n)'
    BY <1>1, <1>5, <2>2 DEF Reaches, Applied, Content
  <2>4. journal' = journal => Undoable(Parts)'
    BY <1>1, <1>5, <2>3 DEF Undoable
  <2>5. journal' = Reverted(Head(todo)) => Undoable(Parts)'
    <3>1. Recorded(Reverted(Head(todo)), past.active, past.files, "none", f, n) /\ "none" \in Parts
      BY <1>2, <1>5, <2>1 DEF Parts
    <3> QED BY <2>3, <3>1 DEF Undoable
  <2> QED BY <1>2, <2>4, <2>5
<1>6. CASE a = "none"
  <2>1. u = Restore(past.files) /\ u.undo = "files" /\ u.was = past.files /\ u # Apply
    BY <1>2, <1>6, Kinds
  <2>2. files' = past.files /\ UNCHANGED <<links, active, home>>
    BY <2>1
  <2>3. Reaches("none", FALSE, n)'
    BY <1>1, <1>6, <2>2 DEF Reaches, Content
  <2>4. journal' = Reverted(Head(todo)) => Undoable(Parts)'
    <3>1. Recorded(Reverted(Head(todo)), past.active, past.files, "none", FALSE, n) /\ "none" \in Parts
      BY <1>2, <1>6 DEF Parts
    <3> QED BY <2>3, <3>1 DEF Undoable
  <2> QED BY <1>2, <2>1, <2>4
<1> QED BY <1>3, <1>4, <1>5, <1>6 DEF Parts

(* Nothing but a request wakes an idle mix.                                *)
LEMMA Wakes == ASSUME [Next]_vars, pc = "idle", ~Begin PROVE pc' = "idle"
<1>1. AgentDies \/ UserCommits \/ UserTakes \/ UserActs \/ UserLeaves \/ UNCHANGED vars => pc' = pc
  BY DEF AgentDies, UserCommits, UserTakes, UserActs, UserLeaves, vars
<1>2. \/ Write \/ WriteUnanswered \/ QuestionFails \/ BuildFails \/ Check \/ FindBuilt
      \/ WaitProfileLocks \/ Look \/ Build \/ Swap \/ SwapCut \/ Read \/ Activate \/ ActivateFails
      \/ Unswitch \/ Undelete \/ Unapply \/ Reuse \/ ReuseGone \/ Reapply \/ ReapplyFails \/ Clean
      \/ Cleaned \/ CleanFails \/ Stage \/ Publish \/ RecordFails \/ Commit \/ Undo \/ UndoFails
      \/ UndoActs \/ RolledBack \/ Crash \/ Recover
      => pc # "idle"
  BY DEF Write, WriteUnanswered, QuestionFails, BuildFails, Check, FindBuilt, WaitProfileLocks,
       Look, Build, Swap, SwapCut, Read, Activate, ActivateFails, Unswitch, Undelete, Unapply,
       Reuse, ReuseGone, Reapply, ReapplyFails, Clean, Cleaned, CleanFails, Stage, Publish,
       RecordFails, Commit, Undo, UndoFails, UndoActs, RolledBack, Crash, Recover
<1> QED BY <1>1, <1>2 DEF Next

LEMMA ApplyingUndoable ==
  ASSUME Inv, Undoable(Parts), todo = RollBack(journal), todo # <<>>, Head(todo).act = Apply
  PROVE  Undoable(Parts \ {"none"})
<1>1. PICK a \in Parts, f \in BOOLEAN, n \in Nat \ {0} :
          Recorded(journal, past.active, past.files, a, f, n) /\ Reaches(a, f, n)
  BY DEF Undoable
<1>2. PICK p, w : p = past.active /\ w = past.files
  OBVIOUS
<1>3. Recorded(journal, p, w, a, f, n) /\ JournalTyped
  BY <1>1, <1>2 DEF Inv, Typed
<1>4. a # "none" \/ Head(todo).act = Restore(w)
  <2>1. todo = RollBack(journal) /\ todo # <<>> /\ a \in Parts /\ f \in BOOLEAN
    OBVIOUS
  <2> QED BY ONLY <1>3, <2>1, NextOf, Zenon
<1>5. a # "none"
  BY <1>4, Kinds
<1> QED BY <1>1, <1>5 DEF Undoable

(* Once it is over, or being undone, a request can still be undone.        *)
LEMMA UndoableKept ==
  ASSUME Inv, CourseInv, [Next]_vars, ~past'.meddled, ~past'.stuck, WayBack, ~Begin,
         pc' \notin Under \cup {"idle"}
  PROVE  Undoable(Parts)' /\ (pc' \in Undoing => todo' = RollBack(journal'))
<1>0. /\ ProfileTyped /\ OpTyped /\ PastTyped /\ JournalTyped /\ Resting
      /\ journal = [done |-> journal.done, announced |-> journal.announced]
  BY DEF Inv, Typed, JournalTyped
<1> USE <1>0
<1>a. /\ ~UserActs /\ ~NotUndone /\ past'.active = past.active /\ past'.files = past.files
      /\ past'.home = past.home /\ (Clean \/ past'.links = past.links)
  BY PastSame
<1>b. Course
  BY Unmeddled DEF CourseInv
<1> USE DEF Under, Requesting, Recording, Made, Standing, TakingBack, Early, Undoing
<1>c. pc \in Under => /\ Undoable(Parts) /\ Before
                      /\ pc \notin Early => Undoable({"reuse", "activation"})
  <2> SUFFICES ASSUME pc \in Under PROVE /\ Undoable(Parts) /\ Before
                                         /\ pc \notin Early => Undoable({"reuse", "activation"})
    OBVIOUS
  <2>1. Before
    BY DEF WayBack
  <2>2. (pc \in Early => Undoable({"none"})) /\ (pc \notin Early => Undoable({"reuse", "activation"}))
    BY <2>1, BeforeUndoable
  <2>3. \A parts \in SUBSET Parts : Undoable(parts) => Undoable(Parts)
    BY DEF Undoable
  <2>4. {"none"} \in SUBSET Parts /\ {"reuse", "activation"} \in SUBSET Parts
    BY DEF Parts
  <2> QED BY <2>1, <2>2, <2>3, <2>4
<1>d. Parts \in SUBSET Parts /\ {"reuse", "activation"} \in SUBSET Parts /\ "none" \notin {"reuse", "activation"}
  BY DEF Parts
<1>e. pc \in Undoing => Undoable(Parts) /\ todo = RollBack(journal) /\ past.active \in DOMAIN past.links \cup {None}
  BY DEF WayBack
(* The steps that leave the profile and the journal alone.                 *)
<1>1. ASSUME Undoable(Parts), UNCHANGED <<links, active, home, files, journal>>, ~Clean
      PROVE  Undoable(Parts)'
  BY <1>1, <1>a, <1>d, UndoableSame
<1>2. CASE QuestionFails \/ BuildFails \/ SwapCut \/ ReuseGone \/ CleanFails
  <2>1. /\ pc \in Under /\ UNCHANGED <<links, active, home, files, journal>>
        /\ todo' = RollBack(journal) /\ pc' = "undo" /\ pc' # pc
    BY <1>2 DEF QuestionFails, BuildFails, SwapCut, ReuseGone, CleanFails, Fail, profile
  <2>2. ~Clean
    BY <2>1 DEF Clean
  <2> QED BY <1>1, <1>c, <2>1, <2>2
<1>3. CASE Check \/ Cleaned
  <2>1. pc \in {"check", "clean"} /\ pc' \notin Undoing /\ UNCHANGED <<links, active, home, files, journal>> 
    BY <1>3 DEF Check, Cleaned, Goes, profile
  <2>2. ~Clean
    BY <1>3 DEF Check, Cleaned, Clean, Goes
  <2> QED BY <1>1, <1>c, <2>1, <2>2
<1>4. CASE Stage \/ Publish \/ RecordFails \/ UserCommits
  <2>1. pc \in Recording /\ pc' \notin Undoing /\ UNCHANGED <<links, active, home, files, journal>>
    BY <1>4 DEF Stage, Publish, RecordFails, UserCommits, Goes, profile
  <2>2. ~Clean /\ Undoable(Parts)
    BY <2>1 DEF Clean, WayBack
  <2> QED BY <1>1, <2>1, <2>2
<1>5. CASE AgentDies \/ UserTakes \/ UserLeaves \/ UNCHANGED vars
  <2>1. UNCHANGED <<links, active, home, files, journal, pc, todo>>
    BY <1>5 DEF AgentDies, UserTakes, UserLeaves, vars, profile
  <2>2. ~Clean /\ Undoable(Parts)
    BY <2>1 DEF Clean, WayBack
  <2> QED BY <1>1, <1>e, <2>1, <2>2
<1>6. CASE Unapply
  <2>1. /\ pc = "unapply" /\ pc' = "undo" /\ UNCHANGED <<links, active, files, journal>>
        /\ todo' = RollBack(journal)
    BY <1>6 DEF Unapply, Fail
  <2>2. ~Clean /\ Undoable({"reuse", "activation"})
    BY <1>c, <2>1 DEF Clean
  <2>3. Undoable(Parts)'
    BY <1>a, <1>d, <2>1, <2>2, UndoableSame
  <2> QED BY <2>1, <2>3
<1>7. CASE WriteUnanswered
  <2>1. /\ pc = "write" /\ UNCHANGED <<links, active, home>> /\ past' = past
        /\ journal' = [journal EXCEPT !.announced = <<Restore(files)>>]
        /\ todo' = RollBack(journal')
    BY <1>7 DEF WriteUnanswered, Fail, profile
  <2>2. Undoable(Parts)'
    BY <1>c, <2>1, WrittenUndoable
  <2> QED BY <2>1, <2>2
<1>8. CASE Activate
  <2>1. /\ pc = "activate" /\ pc' = "record" /\ UNCHANGED <<links, active, files>>
        /\ journal' = [done |-> Settled(op) \o journal.done, announced |-> <<>>]
    BY <1>8 DEF Activate, Ends
  <2>2. Before /\ ~Clean
    BY <1>c, <2>1 DEF Clean
  <2>3. Settled(op) = journal.announced
    BY <2>1, <2>2 DEF Settled, Before, Aim
  <2>4. Undoable(Parts)'
    BY <1>a, <2>1, <2>2, <2>3, EndedUndoable
  <2> QED BY <2>1, <2>4
<1>9. CASE Reapply
  <2>1. /\ pc = "apply" /\ pc' = "record" /\ UNCHANGED <<links, active, files>>
        /\ journal' = [done |-> journal.announced \o journal.done, announced |-> <<>>]
    BY <1>9 DEF Reapply, Ends
  <2>2. Before /\ ~Clean
    BY <1>c, <2>1 DEF Clean
  <2>3. Undoable(Parts)'
    BY <1>a, <2>1, <2>2, EndedUndoable
  <2> QED BY <2>1, <2>3
<1>10. CASE Recover
  <2>1. UNCHANGED <<links, active, home, files, journal>> /\ todo' = RollBack(journal) /\ pc = "crashed"
    BY <1>10 DEF Recover, profile
  <2>2. ~Clean /\ Undoable(Parts)
    BY <2>1 DEF Clean, WayBack
  <2> QED BY <1>1, <2>1, <2>2
<1>11. CASE RolledBack
  <2>1. /\ pc = "undo" /\ pc' \in {"idle", "crashed"} /\ UNCHANGED <<links, active, home, files>>
        /\ pc' = "crashed" => journal' = journal
    BY <1>11 DEF RolledBack, profile
  <2>2. ~Clean
    BY <2>1 DEF Clean
  <2> QED BY <1>1, <1>e, <2>1, <2>2
<1>12. CASE Undo
  <2> DEFINE u == Head(todo).act
  <2>1. pc = "undo" /\ todo # <<>> /\ ~Clean
    BY <1>12 DEF Undo, Clean
  <2>2. CASE pc' = "undo2" /\ UNCHANGED <<todo, journal, home, files>>
    <3>1. UNCHANGED <<links, active>>
      BY <1>12 DEF Undo
    <3> QED BY <1>1, <1>e, <2>1, <2>2, <3>1
  <2>3. CASE Undone
    <3>1. \/ u.undo = "switch" /\ active' = u.to /\ UNCHANGED <<links, home, files>>
          \/ u.undo = "delete" /\ active = u.generation /\ UNCHANGED <<links, active, home, files>>
          \/ u = Apply /\ home' = Applied /\ UNCHANGED <<links, active, files>>
          \/ u.undo = "files" /\ files' = u.was /\ UNCHANGED <<links, active, home>>
      BY <1>12, <1>a, <2>3 DEF Undo, Looks, Undone
    <3>2. PICK v : v = u
      OBVIOUS
    <3>3. past' = past /\ journal' = Reverted(Head(todo)) /\ todo' = Tail(todo)
      BY <2>3 DEF Undone
    <3>4. /\ past.active \in DOMAIN past.links \cup {None} /\ Undoable(Parts)
          /\ todo = RollBack(journal) /\ todo # <<>> /\ v = Head(todo).act
      BY <1>e, <2>1, <3>2
    <3>5. \/ v.undo = "switch" /\ active' = v.to /\ UNCHANGED <<links, home, files>>
          \/ v.undo = "delete" /\ delete(v.generation) /\ UNCHANGED <<home, files>>
          \/ v.undo = "delete" /\ active = v.generation /\ UNCHANGED <<links, active, home, files>>
          \/ v = Apply /\ home' = Applied /\ UNCHANGED <<links, active, files>>
          \/ v.undo = "files" /\ files' = v.was /\ UNCHANGED <<links, active, home>>
      BY <3>1, <3>2
    <3> QED BY <3>3, <3>4, <3>5, UndoneUndoable
  <2> QED BY <1>12, <1>a, <2>2, <2>3 DEF Undo, Looks, Undone
<1>13. CASE UndoActs
  <2> DEFINE u == Head(todo).act
  <2>1. pc = "undo2" /\ todo # <<>> /\ ~Clean /\ Carried(u) /\ Undone /\ UNCHANGED <<home, files>>
    BY <1>13, <1>a DEF UndoActs, Clean, Resting
  <2>2. PICK v : v = u
    OBVIOUS
  <2>3. past' = past /\ journal' = Reverted(Head(todo)) /\ todo' = Tail(todo)
    BY <2>1 DEF Undone
  <2>4. /\ past.active \in DOMAIN past.links \cup {None} /\ Undoable(Parts)
        /\ todo = RollBack(journal) /\ todo # <<>> /\ v = Head(todo).act
    BY <1>e, <2>1, <2>2
  <2>5. \/ v.undo = "switch" /\ active' = v.to /\ UNCHANGED <<links, home, files>>
        \/ v.undo = "delete" /\ delete(v.generation) /\ UNCHANGED <<home, files>>
        \/ v.undo = "delete" /\ active = v.generation /\ UNCHANGED <<links, active, home, files>>
        \/ v = Apply /\ home' = Applied /\ UNCHANGED <<links, active, files>>
        \/ v.undo = "files" /\ files' = v.was /\ UNCHANGED <<links, active, home>>
    BY <2>1, <2>2 DEF Carried, switch_to
  <2> QED BY <2>3, <2>4, <2>5, UndoneUndoable
<1>14. UndoFails => NotUndone
  BY DEF UndoFails
<1>15. \/ Write \/ FindBuilt \/ WaitProfileLocks \/ Look \/ Build \/ Swap \/ Read \/ Reuse
       => pc' \in Under
  BY DEF Write, FindBuilt, WaitProfileLocks, Look, Build, Swap, Read, Reuse, Goes
<1>16. ActivateFails \/ Unswitch \/ Undelete \/ ReapplyFails => pc' \in TakingBack
  BY DEF ActivateFails, Unswitch, Undelete, ReapplyFails
<1>17. Commit \/ Clean => pc' \in {"idle", "clean"}
  BY DEF Commit, Clean
<1>18. CASE Crash
  <2>1. pc' = "crashed" /\ ~Clean /\ pc \notin {"idle", "crashed"}
    BY <1>18 DEF Crash, Clean
  <2>2. Undoable(Parts)
    BY <1>c, <2>1 DEF WayBack
  <2>3. CASE UNCHANGED <<profile, files, journal>>
    BY <1>1, <2>1, <2>2, <2>3 DEF profile
  <2>4. CASE pc \in {"activate", "apply", "unapply"} /\ UNCHANGED <<links, active, files, journal>>
    <3>1. Undoable({"reuse", "activation"})
      BY <1>c, <2>4
    <3> QED BY <1>a, <1>d, <2>1, <2>4, <3>1, UndoableSame
  <2>5. CASE /\ pc = "undo" /\ todo # <<>> /\ Head(todo).act = Apply
             /\ UNCHANGED <<links, active, files, journal>>
    <3>1. Undoable(Parts \ {"none"})
      BY <1>e, <2>5, ApplyingUndoable
    <3>2. Parts \ {"none"} \in SUBSET Parts /\ "none" \notin Parts \ {"none"}
      OBVIOUS
    <3> QED BY <1>a, <2>1, <2>5, <3>1, <3>2, UndoableSame
  <2>6. CASE /\ pc = "write" /\ UNCHANGED profile
             /\ journal' = [journal EXCEPT !.announced = <<Restore(files)>>]
    <3>1. Before /\ UNCHANGED <<links, active, home>>
      BY <1>c, <2>6 DEF profile
    <3>2. Undoable(Parts)'
      BY <1>a, <2>1, <2>6, <3>1, WrittenUndoable
    <3> QED BY <2>1, <3>2
  <2>7. CASE pc = "undo2" /\ Carried(Head(todo).act) /\ UNCHANGED <<home, files, journal>>
    <3>1. PICK v : v = Head(todo).act
      OBVIOUS
    <3>2. /\ past.active \in DOMAIN past.links \cup {None} /\ Undoable(Parts)
          /\ todo = RollBack(journal) /\ todo # <<>> /\ v = Head(todo).act
      BY <1>e, <2>7, <3>1 DEF Resting
    <3>3. \/ v.undo = "switch" /\ active' = v.to /\ UNCHANGED <<links, home, files>>
          \/ v.undo = "delete" /\ delete(v.generation) /\ UNCHANGED <<home, files>>
          \/ v.undo = "delete" /\ active = v.generation /\ UNCHANGED <<links, active, home, files>>
          \/ v = Apply /\ home' = Applied /\ UNCHANGED <<links, active, files>>
          \/ v.undo = "files" /\ files' = v.was /\ UNCHANGED <<links, active, home>>
      BY <2>7, <3>1 DEF Carried, switch_to
    <3>4. v.undo # "files" /\ journal' = journal
      BY <2>7, <3>1 DEF Carried
    <3>5. Undoable(Parts)'
      BY <1>a, <2>1, <3>2, <3>3, <3>4, UndoneUndoable
    <3> QED BY <2>1, <3>5
  <2> QED BY <1>18, <2>3, <2>4, <2>5, <2>6, <2>7 DEF Crash, Applying
<1> QED BY <1>a, <1>2, <1>3, <1>4, <1>5, <1>6, <1>7, <1>8, <1>9, <1>10, <1>11, <1>12, <1>13, <1>14, <1>15,
       <1>16, <1>17, <1>18 DEF Next

(* A rollback that has nothing left to do has a journal with nothing left. *)
LEMMA NothingLeft ==
  ASSUME JournalTyped, todo = RollBack(journal), todo = <<>>,
         NEW p, NEW w, NEW a \in Parts, NEW f \in BOOLEAN, NEW n, Recorded(journal, p, w, a, f, n)
  PROVE  a = "none" /\ ~f
<1>1. journal.announced = <<>> /\ journal.done = <<>>
  BY RollsInTurn
<1>2. a # "none" => Part(p, a, n) # <<>> /\ Part(p, a, n) \o Filed(w, f) # <<>>
  BY PartsInTurn DEF InTurn
<1>3. a = "none"
  BY <1>1, <1>2 DEF Recorded
<1>4. f => Filed(w, f) # <<>> /\ <<>> \o Filed(w, f) # <<>>
  BY DEF Filed
<1>5. ~f
  BY <1>1, <1>3, <1>4 DEF Recorded, Part
<1> QED BY <1>3, <1>5

LEMMA WayBackKept ==
  ASSUME Inv, CourseInv, BackInv, [Next]_vars, ~past'.meddled, ~past'.stuck
  PROVE  WayBack'
<1>0. PastTyped /\ Held /\ (Clean => Course /\ active = past.active)
  <2>1. PastTyped /\ Held
    BY DEF Inv, Typed, CourseInv
  <2>2. ASSUME Clean PROVE Course /\ active = past.active
    <3>1. ~Begin /\ pc = "clean"
      BY <2>2 DEF Clean, Begin
    <3>2. WayBack /\ Course
      BY <3>1, PastSame DEF BackInv, CourseInv
    <3> QED BY <3>1, <3>2 DEF WayBack, Before, Under, Requesting, Standing, Made, Recording
  <2> QED BY <2>1, <2>2
<1>1. CASE Begin
  <2>1. pc' = "write" /\ UNCHANGED <<links, active>> /\ past'.active = active /\ past'.links = links
    BY <1>1 DEF Begin, profile, NoPast
  <2>2. pc' \in Under /\ pc' \notin Undoing
    BY <2>1 DEF Under, Undoing, Requesting, Standing, Made, Recording
  <2>3. Before'
    BY <1>1, <2>1, <2>2, BeginsBefore
  <2>4. past'.active \in DOMAIN past'.links \cup {None}
    BY <1>0, <2>1 DEF Held
  <2> QED BY <2>2, <2>3, <2>4 DEF WayBack
<1>2. CASE ~Begin /\ pc' = "idle"
  BY <1>2 DEF WayBack, Under, Undoing, Requesting, Standing, Made, Recording, TakingBack
<1>3. CASE ~Begin /\ pc' # "idle"
  <2>1. pc # "idle"
    BY <1>3, Wakes
  <2>2. WayBack
    BY <1>3, PastSame DEF BackInv
  <2>3. past.active \in DOMAIN past.links \cup {None}
    BY <2>1, <2>2 DEF WayBack
  <2>4. pc' \in Under => Before'
    BY <1>3, <2>2, <2>3, BeforeKept DEF WayBack
  <2>5. pc' \notin Under => Undoable(Parts)' /\ (pc' \in Undoing => todo' = RollBack(journal'))
    BY <1>3, <2>2, UndoableKept
  <2>6. past'.active = past.active /\ (Clean \/ past'.links = past.links)
    BY <1>3, PastSame
  <2>7. Clean => past'.links = past.links \/ \E g : g # active /\ past'.links = Without(past.links, g)
    <3> SUFFICES ASSUME Clean
                 PROVE  past'.links = past.links \/ \E g : g # active /\ past'.links = Without(past.links, g)
      OBVIOUS
    <3>1. past' = past \/ \E g : g # active /\ past' = [past EXCEPT !.links = Without(@, g), !.theirs = @ \ {g}]
      BY DEF Clean
    <3> QED BY <1>0, <3>1 DEF PastTyped
  <2>8. past'.active \in DOMAIN past'.links \cup {None}
    BY <1>0, <2>3, <2>6, <2>7 DEF Without
  <2>9. pc' \in Under => pc' \notin Undoing
    BY DEF Under, Undoing, Requesting, Standing, Made, Recording, TakingBack
  <2> QED BY <1>3, <2>4, <2>5, <2>8, <2>9 DEF WayBack
<1> QED BY <1>1, <1>2, <1>3

LEMMA UndoneKept ==
  ASSUME Inv, CourseInv, BackInv, [Next]_vars, Inv', Mapped'
  PROVE  UndoneProfileIsBack'
<1>0. PastTyped
  BY DEF Inv, Typed
<1> SUFFICES ASSUME ~past'.meddled, ~past'.stuck, pc' = "idle", past'.said = "undone"
             PROVE  UndoneProfileIsBack'
  BY DEF UndoneProfileIsBack, Alone
<1>1. ~Begin
  BY DEF Begin
<1>2. WayBack /\ ~past.meddled /\ ~past.stuck /\ ~UserActs
  BY <1>1, PastSame DEF BackInv
<1>3. CASE RolledBack
  <2>1. /\ pc = "undo" /\ todo = <<>> /\ UNCHANGED <<links, active, home, files>>
        /\ past'.files = past.files /\ past'.links = past.links /\ past'.active = past.active
        /\ past'.home = past.home
    BY <1>0, <1>3 DEF RolledBack, profile, PastTyped
  <2>2. Undoable(Parts) /\ todo = RollBack(journal)
    BY <1>2, <2>1 DEF WayBack, Under, Undoing, Requesting, Standing, Made, Recording, TakingBack
  <2>3. PICK a \in Parts, f \in BOOLEAN, n \in Nat \ {0} :
          Recorded(journal, past.active, past.files, a, f, n) /\ Reaches(a, f, n)
    BY <2>2 DEF Undoable
  <2>4. a = "none" /\ ~f
    BY <2>1, <2>2, <2>3, NothingLeft DEF Inv, Typed
  <2>5. /\ files = past.files /\ DOMAIN links = DOMAIN past.links /\ active = past.active
        /\ active = None \/ home \in {past.home, Content(active)}
    BY <2>3, <2>4 DEF Reaches
  <2>6. links = past.links
    <3>1. \A g \in DOMAIN links : links[g] = past.links[g]
      BY <2>5 DEF Inv, OldGenerationsAreKept
    <3>2. links = [h \in DOMAIN links |-> links[h]] /\ past.links = [h \in DOMAIN past.links |-> past.links[h]]
      BY DEF BackInv, Mapped
    <3> QED BY <2>5, <3>1, <3>2
  <2>7. Content(active)' = Content(active)
    BY <2>1 DEF Content
  <2> QED BY <2>1, <2>5, <2>6, <2>7 DEF UndoneProfileIsBack
<1>4. CASE UNCHANGED <<profile, files, pc, past>>
  BY <1>4 DEF BackInv, UndoneProfileIsBack, Alone, profile, Content
<1>5. AgentDies \/ UserCommits \/ UserTakes \/ UserLeaves \/ UNCHANGED vars
       => UNCHANGED <<profile, files, pc, past>>
  BY DEF AgentDies, UserCommits, UserTakes, UserLeaves, vars, profile
<1>6. Commit => past'.said # "undone"
  BY <1>0 DEF Commit, PastTyped
<1>7. \/ Begin \/ Write \/ WriteUnanswered \/ QuestionFails \/ BuildFails \/ Check \/ FindBuilt
      \/ WaitProfileLocks \/ Look \/ Build \/ Swap \/ SwapCut \/ Read \/ Activate \/ ActivateFails
      \/ Unswitch \/ Undelete \/ Unapply \/ Reuse \/ ReuseGone \/ Reapply \/ ReapplyFails \/ Clean
      \/ Cleaned \/ CleanFails \/ Stage \/ Publish \/ RecordFails \/ Undo \/ UndoFails \/ UndoActs
      \/ Crash \/ Recover
      => pc' # "idle"
  BY DEF Begin, Write, WriteUnanswered, QuestionFails, BuildFails, Check, FindBuilt,
       WaitProfileLocks, Look, Build, Swap, SwapCut, Read, Activate, ActivateFails, Unswitch,
       Undelete, Unapply, Reuse, ReuseGone, Reapply, ReapplyFails, Clean, Cleaned, CleanFails,
       Stage, Publish, RecordFails, Undo, UndoFails, UndoActs, Crash, Recover, Goes, Fail, Ends,
       Looks, Undone, NotUndone
<1> QED BY <1>2, <1>3, <1>4, <1>5, <1>6, <1>7 DEF Next

(* Whatever a request has done, its journal undoes: from every step of it, *)
(* of its rollback and of a recovery, the undos that are left lead back to *)
(* the profile it found.                                                   *)
THEOREM EveryStepHasAWayBack == Spec => []BackInv
<1>1. Inv /\ Inv' /\ CourseInv /\ BackInv /\ [Next]_vars => BackInv'
  <2> SUFFICES ASSUME Inv, Inv', CourseInv, BackInv, [Next]_vars PROVE BackInv'
    OBVIOUS
  <2>1. Mapped'
    BY MappedKept DEF BackInv
  <2>2. ~past'.meddled /\ ~past'.stuck => WayBack'
    BY WayBackKept
  <2>3. UndoneProfileIsBack'
    BY <2>1, UndoneKept
  <2> QED BY <2>1, <2>2, <2>3 DEF BackInv
<1> QED BY <1>1, InitBack, ProfileInvariant, RequestsRunTheirCourse, PTL DEF Spec

(* A request that failed, or was killed and recovered, leaves the files,   *)
(* the generations and the active one as it found them and the home as one *)
(* of them has it, wherever it stopped and however often mix was killed    *)
(* while it undid, unless an undo failed or the user meddled (activate,    *)
(* reuse, undo_activation and the recovery of the file journal).           *)
THEOREM FailureLeavesNothing == Spec => []UndoneProfileIsBack
<1>1. BackInv => UndoneProfileIsBack
  BY DEF BackInv
<1> QED BY <1>1, EveryStepHasAWayBack, PTL
=============================================================================
