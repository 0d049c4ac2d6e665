---------------------------- MODULE JournalLaws ----------------------------
(***************************************************************************)
(* What recovery must make of every journal a request can leave behind.    *)
(* The behaviours grow one journal, record by record, the way drive()      *)
(* writes it (crates/shell/src/drive.rs); every state is a place where the *)
(* process may have died.  The laws compare recover() with definitions     *)
(* that do not fold over the records.                                      *)
(***************************************************************************)
EXTENDS Journal
LOCAL INSTANCE SequencesExt

CONSTANTS
    UndoLists,      \* the undo lists an action may announce or return
    MaxRecords,     \* bound on the length of a journal
    MaxSeq          \* bound on the number of actions performed

VARIABLES
    records,        \* the journal
    seq,            \* drive's seq: the number of the action being performed
    announced       \* drive's announced: the undo announced last, or None

vars == <<records, seq, announced>>

None == <<"none">>

ASSUME LawsAssumption ==
    /\ MaxRecords \in Nat /\ MaxSeq \in Nat
    /\ UndoLists \subseteq Seq(Action) /\ <<>> \in UndoLists

Planned(plan) ==     \* what recovery would perform, in order
    IF plan.does = "RollBack" THEN plan.uncertain \o plan.certain ELSE <<>>

Write(r) == /\ Len(records) < MaxRecords
            /\ records' = Append(records, r)

Open == ~Contains(records, Committing) /\ ~Contains(records, Ended)

Init == records = <<Began>> /\ seq = 0 /\ announced = None

(* The prepared closure: it may run more than once for one action.         *)
Announces(u) ==
    /\ Open /\ seq < MaxSeq
    /\ announced' = u
    /\ Write(Prepared(seq, u))
    /\ UNCHANGED seq

(* Mutant: a success uses up two numbers.                                  *)
SucceedsTwice(u) ==
    /\ Open /\ seq < MaxSeq
    /\ Write(IF announced = u THEN Done(seq) ELSE Settled(seq, u))
    /\ seq' = seq + 2
    /\ announced' = None

(* An action succeeded: Done if it returned what it announced last.        *)
Succeeds(u) ==
    /\ Open /\ seq < MaxSeq
    /\ Write(IF announced = u THEN Done(seq) ELSE Settled(seq, u))
    /\ seq' = seq + 1
    /\ announced' = None

(* An action failed: nothing is recorded and its number is used up.        *)
Fails ==
    /\ Open /\ announced # None
    /\ seq' = seq + 1
    /\ announced' = None
    /\ UNCHANGED records

(* A rollback performed an undo that was still to be performed.            *)
Reverts(a) ==
    /\ announced = None
    /\ a \in ToSet(Planned(recover(records)))
    /\ Write(Reverted(a))
    /\ UNCHANGED <<seq, announced>>

Commits ==
    /\ Open /\ announced = None
    /\ Write(Committing)
    /\ UNCHANGED <<seq, announced>>

Ends ==
    /\ announced = None /\ ~Contains(records, Ended)
    /\ Write(Ended)
    /\ UNCHANGED <<seq, announced>>

Next ==
    \/ \E u \in UndoLists : Announces(u) \/ Succeeds(u)
    \/ Fails
    \/ \E a \in Action : Reverts(a)
    \/ Commits
    \/ Ends

Spec == Init /\ [][Next]_vars

-----------------------------------------------------------------------------
(* The reference definitions.                                              *)

At(kind) == {i \in DOMAIN records : records[i].rec = kind}

LastBefore(i) ==     \* the last announcement of i's action before record i
    CHOOSE j \in At("Prepared") :
        /\ j < i /\ records[j].seq = records[i].seq
        /\ \A k \in At("Prepared") :
             k < i /\ records[k].seq = records[i].seq => k <= j

Sure ==              \* the records that confirm an action
    At("Settled") \cup {i \in At("Done") : \E j \in At("Prepared") :
                            j < i /\ records[j].seq = records[i].seq}

Doubtful ==          \* the last announcements of actions never confirmed
    {i \in At("Prepared") :
        /\ \A j \in Sure : records[j].seq # records[i].seq
        /\ \A j \in At("Prepared") : j > i => records[j].seq # records[i].seq}

UndoOf(i) == IF records[i].rec = "Done" THEN records[LastBefore(i)].undo
                                        ELSE records[i].undo

Owed(S, a) == {<<i, k>> \in S \X (1..4) :
                  k \in DOMAIN UndoOf(i) /\ UndoOf(i)[k] = a}

Reversions(a) == Cardinality({i \in At("Reverted") : records[i].action = a})

Less(m, n) == IF m > n THEN m - n ELSE 0

NonSync(s) == SelectSeq(s, LAMBDA a : ~is_sync(a))

-----------------------------------------------------------------------------
(* Whatever was announced or confirmed and is not recorded as undone is in *)
(* the plan exactly once per effect, and nothing else is: recover() never  *)
(* forgets an undo and never runs one twice, whatever was announced again, *)
(* settled differently, or undone before the crash.                        *)
EveryEffectIsOwedOnce(plan) ==
    Open =>
      \A a \in Action \ Sync :
         Count(Planned(plan), a) = Less(Cardinality(Owed(Sure \cup Doubtful, a)), Reversions(a))

(* The undos of confirmed actions run newest action first, and inside one  *)
(* action in the order it listed them: recover() never undoes an effect    *)
(* before a later one that was built on it.                                *)
NewestFirst(certain) ==
    (Open /\ At("Reverted") = {}) =>
      \A a, b \in Action \ Sync :
        (Cardinality(Owed(Sure, a)) = 1 /\ Cardinality(Owed(Sure, b)) = 1 /\ a # b) =>
          LET p == CHOOSE x \in Owed(Sure, a) : TRUE
              q == CHOOSE x \in Owed(Sure, b) : TRUE
              at(x) == CHOOSE i \in DOMAIN certain : certain[i] = x
          IN  (p[1] > q[1] \/ (p[1] = q[1] /\ p[2] < q[2])) => at(a) < at(b)

(* A sync that is owed runs after every undo listed before it, so systemd  *)
(* and the profile are brought in line with files already put back; and no *)
(* unit is started, stopped, enabled or disabled while a reload that was   *)
(* listed before it has not run (rollback_order).                          *)
SyncsFollowWhatTheySync(flat, out) ==
    LET nth(i) == Cardinality({j \in 1..i : flat[j] = flat[i]})
        place(i) ==     \* where the i-th listed action, not a sync, is performed
            CHOOSE k \in DOMAIN out : /\ out[k] = flat[i]
                                      /\ Cardinality({j \in 1..k : out[j] = out[k]}) = nth(i)
    IN  \A i \in DOMAIN flat : is_sync(flat[i]) =>
          \E k \in DOMAIN out :
             /\ out[k] = flat[i]
             /\ \A j \in 1..(i - 1) : ~is_sync(flat[j]) => place(j) < k
             /\ flat[i] = Reload =>
                  \A j \in (i + 1)..Len(flat) : needs_loaded_units(flat[j]) => k < place(j)

(* A rollback cut off resumes where it stopped: once the first undo of the *)
(* plan is recorded as reverted, what is left is the rest of the plan, in  *)
(* the same order.  An undo that is owed twice is excluded: recover()      *)
(* compares by value, and the record cancels the older of the two.         *)
ResumesWhereItStopped(steps) ==
    steps # <<>> =>
      \/ Count(steps, Head(steps)) > 1
      \/ is_sync(Head(steps))
      \/ NonSync(Planned(recover(Append(records, Reverted(Head(steps))))))
           = Tail(NonSync(steps))

(* From the moment the commit is recorded nothing is undone any more, and  *)
(* the backups it still has to delete are exactly those of the confirmed   *)
(* restores, undone or not; a finished journal asks for nothing.           *)
CommitIsFinal(plan) ==
    /\ Contains(records, Ended) => plan = Nothing
    /\ (Contains(records, Committing) /\ ~Contains(records, Ended)) =>
          /\ plan.does = "FinishCommit"
          /\ ToSet(plan.pending) =
               {from[a] : a \in {b \in Action : from[b] # NoPath /\ Owed(Sure, b) # {}}}

(* What recover() plans is what is owed: no more, no less, wherever the    *)
(* request, its rollback or its commit was cut off; and rollback_order()   *)
(* puts it in an order in which it can be carried out.                     *)
RecoveryIsRight == records # <<>> =>
    /\ \A plan \in {recover(records)} :
         \A steps \in {Planned(plan)} :
           EveryEffectIsOwedOnce(plan) /\ ResumesWhereItStopped(steps) /\ CommitIsFinal(plan)
    /\ \A undos \in {Undos(confirmed(records))} :
         \A out \in {rollback_order(undos)}, flat \in {FlattenSeq(Reverse(undos))} :
           NewestFirst(out) /\ SyncsFollowWhatTheySync(flat, out)
=============================================================================
