------------------------------- MODULE Runner -------------------------------
(***************************************************************************)
(* The engine every request runs through: Runner::step, a state machine    *)
(* that checks the steps of a plan one after another, performs the actions *)
(* a step asks for, and rolls back or commits                              *)
(* (crates/core/src/run/mod.rs).                                           *)
(*                                                                         *)
(* The runner performs nothing itself.  It hands out a query, an action or *)
(* an undo and waits for the answer; here the answers come from the sets   *)
(* below, in any combination.  Drive.tla puts the real driver in their     *)
(* place.  Rust runs the runner's own transitions in one loop, between two *)
(* answers; each is an action here.  The driver looks at the stop flag     *)
(* once per call of step(), so a stop can only arrive with an answer.      *)
(***************************************************************************)
EXTENDS Journal
LOCAL INSTANCE SequencesExt

CONSTANTS
    N,              \* the number of steps; steps are 0..N-1
    Shielded,       \* the steps whose spec says shielded()
    Deps,           \* step -> after() then within(), in that order
    Independent,    \* Runner::independent
    Plans,          \* step -> the action lists actions(facts) may return
    UndoLists,      \* the undo lists an action may return or announce
    Keep            \* the undos that are Action::Keep

Steps == 0..(N - 1)
NoStep == N

ASSUME RunnerAssumption ==
    /\ N \in Nat
    /\ Shielded \subseteq Steps
    /\ Deps \in [Steps -> Seq(Steps)]
    /\ Independent \in BOOLEAN
    /\ DOMAIN Plans = Steps
    /\ Keep \subseteq Action

VARIABLES
    phase,      \* Phase, a record tagged by at
    journal,    \* step -> the undos of its performed actions
    doubts,     \* step -> the undos announced by actions of it that failed
    stop,       \* the first stop seen: TRUE once there is one
    verdict,    \* Option<Verdict>
    after,      \* After: what follows the rollback
    causes,     \* step -> the failed step that made it fail or blocked it
    outcomes,   \* step -> StepOutcome; the code reports them if Independent
    failures,   \* the steps with a failed undo (rollback_failures)
    report      \* report.verdict, once Closed

runnerVars == <<phase, journal, doubts, stop, verdict, after, causes,
                outcomes, failures, report>>

-----------------------------------------------------------------------------
(* The phases.                                                             *)

Opening           == [at |-> "Opening"]
Checking(s, b)    == [at |-> "Checking", step |-> s, asked |-> b]
Executing(s, q, b) == [at |-> "Executing", step |-> s, queue |-> q, awaiting |-> b]
RollingBack(r)    == [at |-> "RollingBack", remaining |-> r, current |-> NoStep,
                      doubtful |-> <<>>, queue |-> <<>>, doubting |-> FALSE,
                      awaiting |-> FALSE]
CommittingPhase(b, r) == [at |-> "Committing", awaiting |-> b, reclaim |-> r]
Closing           == [at |-> "Closing"]
Closed            == [at |-> "Closed"]

Continue(n)       == n          \* After: a step to go on with, or one of
Close             == N + 1
Commit            == N + 2

RunnerInit ==
    /\ phase = Opening
    /\ journal = [s \in Steps |-> <<>>]
    /\ doubts = [s \in Steps |-> <<>>]
    /\ stop = FALSE
    /\ verdict = "None"
    /\ after = Close
    /\ causes = [s \in Steps |-> NoStep]
    /\ outcomes = [s \in Steps |-> "None"]
    /\ failures = {}
    /\ report = "None"

(* The guards the driver asks for.                                         *)

rolling_back == phase.at = "RollingBack"

shielded ==
    \/ rolling_back
    \/ phase.at = "Committing" /\ ~phase.reclaim
    \/ phase.at = "Executing" /\ phase.step \in Shielded

reclaims == \E s \in Steps : \E i \in DOMAIN journal[s] :
              \E k \in DOMAIN journal[s][i] : journal[s][i][k] \in Keep

-----------------------------------------------------------------------------
(* The helpers of step().  d is doubts as the driver has left them.        *)

record(s, o) == outcomes' = [outcomes EXCEPT ![s] = o]

(* Mutant: the verdict is overwritten.                                     *)
insert(v) == v

or_insert(v) == IF verdict = "None" THEN v ELSE verdict

owned(d, s) == journal[s] # <<>> \/ d[s] # <<>>

(* Mutant: a step with nothing but doubts is not undone.                   *)
roll_back_sure(d) ==
    /\ phase' = RollingBack({s \in Steps : journal[s] # <<>>})
    /\ UNCHANGED after

roll_back(d) ==
    /\ phase' = RollingBack({s \in Steps : owned(d, s)})
    /\ UNCHANGED after

(* Mutants: the same of one step; the steps before it are undone as well.  *)
roll_back_only_sure(d, s, next) ==
    /\ phase' = RollingBack(IF journal[s] # <<>> THEN {s} ELSE {})
    /\ after' = next
roll_back_all(d, s, next) ==
    /\ phase' = RollingBack({t \in Steps : owned(d, t)})
    /\ after' = next

roll_back_only(d, s, next) ==
    /\ phase' = RollingBack(IF owned(d, s) THEN {s} ELSE {})
    /\ after' = next

finish_or_commit ==
    phase' = IF \A s \in Steps : journal[s] = <<>>
             THEN Closing ELSE CommittingPhase(FALSE, FALSE)

fail(d, s) ==
    /\ causes' = [causes EXCEPT ![s] = s]
    /\ record(s, "Failed")
    /\ IF Independent
       THEN verdict' = or_insert("Failed") /\ roll_back_only(d, s, Continue(s + 1))
       ELSE verdict' = "Failed" /\ roll_back(d)

cancel(d, s) ==
    /\ verdict' = "Cancelled"
    /\ IF ~Independent
       THEN roll_back(d)
       ELSE IF s # NoStep /\ owned(d, s)
       THEN roll_back_only(d, s, Commit)
       ELSE finish_or_commit /\ UNCHANGED after

(* Mutant: a step is not held up by what it depends on.                    *)
caused_itself(s) == causes[s] # NoStep

caused(s) == \E i \in DOMAIN Deps[s] : causes[Deps[s][i]] # NoStep

blocker(s, i) ==    \* the first dependency of s that has a cause is the i-th
    /\ i \in DOMAIN Deps[s]
    /\ causes[Deps[s][i]] # NoStep
    /\ \A j \in 1..(i - 1) : causes[Deps[s][j]] = NoStep

(* Mutant: a step that is done takes the next one with it.                 *)
step_after_next == Checking(phase.step + 2, FALSE)

next_step == Checking(phase.step + 1, FALSE)

-----------------------------------------------------------------------------
(* The transitions the runner takes by itself.                             *)

Advance ==      \* Checking { asked: false }, all steps done
    /\ phase.at = "Checking" /\ ~phase.asked /\ phase.step = N
    /\ verdict' = or_insert("Succeeded")
    /\ finish_or_commit
    /\ UNCHANGED <<journal, doubts, stop, after, causes, outcomes, failures, report>>

CancelBeforeStep ==
    /\ phase.at = "Checking" /\ ~phase.asked /\ phase.step < N
    /\ stop
    /\ cancel(doubts, NoStep)
    /\ UNCHANGED <<journal, doubts, stop, causes, outcomes, failures, report>>

Block ==
    /\ phase.at = "Checking" /\ ~phase.asked /\ phase.step < N
    /\ ~stop
    /\ \E i \in DOMAIN Deps[phase.step] :
         /\ blocker(phase.step, i)
         /\ causes' = [causes EXCEPT ![phase.step] = causes[Deps[phase.step][i]]]
    /\ record(phase.step, "Blocked")
    /\ phase' = next_step
    /\ UNCHANGED <<journal, doubts, stop, verdict, after, failures, report>>

Ask ==          \* returns Next::Observe
    /\ phase.at = "Checking" /\ ~phase.asked /\ phase.step < N
    /\ ~stop /\ ~caused(phase.step)
    /\ phase' = Checking(phase.step, TRUE)
    /\ UNCHANGED <<journal, doubts, stop, verdict, after, causes, outcomes, failures, report>>

(* Mutants: a stop cuts a shielded step, too; it cuts no step.             *)
cut_any == stop
cut_none == FALSE

cut == stop /\ phase.step \notin Shielded     \* the step is cancellable and stopped

CancelStep ==
    /\ phase.at = "Executing" /\ ~phase.awaiting
    /\ cut
    /\ record(phase.step, "Cancelled")
    /\ cancel(doubts, phase.step)
    /\ UNCHANGED <<journal, doubts, stop, causes, failures, report>>

FinishStep ==
    /\ phase.at = "Executing" /\ ~phase.awaiting
    /\ ~cut
    /\ phase.queue = <<>>
    /\ record(phase.step, "Changed")
    /\ phase' = next_step
    /\ UNCHANGED <<journal, doubts, stop, verdict, after, causes, failures, report>>

Act ==          \* returns Next::Perform of the action at the queue's head
    /\ phase.at = "Executing" /\ ~phase.awaiting
    /\ ~cut
    /\ phase.queue # <<>>
    /\ phase' = Executing(phase.step, phase.queue, TRUE)
    /\ UNCHANGED <<journal, doubts, stop, verdict, after, causes, outcomes, failures, report>>

Resting == phase.at = "RollingBack" /\ phase.current = NoStep

AfterRollback ==
    /\ Resting /\ phase.remaining = {}
    /\ after' = Close
    /\ \/ after = Close /\ phase' = Closing
       \/ after = Commit /\ finish_or_commit
       \/ after \notin {Close, Commit} /\ phase' = Checking(after, FALSE)
    /\ UNCHANGED <<journal, doubts, stop, verdict, causes, outcomes, failures, report>>

each_in_order(undos) ==     \* announcement after announcement
    FlattenSeq([i \in DOMAIN undos |-> rollback_order(<<undos[i]>>)])

(* Mutant: the first step.                                                 *)
first(s) == \A t \in phase.remaining : t >= s

last(s) == \A t \in phase.remaining : t <= s

UndoStep ==     \* the last remaining step, its doubts before its journal
    /\ Resting
    /\ \E s \in phase.remaining :
         /\ last(s)
         /\ phase' = [phase EXCEPT
              !.remaining = @ \ {s},
              !.current = s,
              !.queue = rollback_order(journal[s]),
              !.doubtful = each_in_order(doubts[s])]
         /\ journal' = [journal EXCEPT ![s] = <<>>]
         /\ doubts' = [doubts EXCEPT ![s] = <<>>]
    /\ UNCHANGED <<stop, verdict, after, causes, outcomes, failures, report>>

Undoing == phase.at = "RollingBack" /\ phase.current # NoStep /\ ~phase.awaiting

UndoAct ==      \* returns Next::Perform of an undo
    /\ Undoing
    /\ phase.doubtful # <<>> \/ phase.queue # <<>>
    /\ phase' = [phase EXCEPT !.awaiting = TRUE, !.doubting = phase.doubtful # <<>>]
    /\ UNCHANGED <<journal, doubts, stop, verdict, after, causes, outcomes, failures, report>>

UndoneStep ==
    /\ Undoing
    /\ phase.doubtful = <<>> /\ phase.queue = <<>>
    /\ phase' = RollingBack(phase.remaining)
    /\ UNCHANGED <<journal, doubts, stop, verdict, after, causes, outcomes, failures, report>>

StartCommit ==  \* returns Next::Perform(Commit)
    /\ phase.at = "Committing" /\ ~phase.awaiting
    /\ phase' = CommittingPhase(TRUE, reclaims)
    /\ UNCHANGED <<journal, doubts, stop, verdict, after, causes, outcomes, failures, report>>

Finish ==       \* returns Next::Finished
    /\ phase.at = "Closing"
    /\ phase' = Closed
    /\ report' = or_insert("Succeeded")
    /\ verdict' = "None"
    /\ UNCHANGED <<journal, doubts, stop, after, causes, outcomes, failures>>

Internal ==
    \/ Advance \/ CancelBeforeStep \/ Block \/ Ask
    \/ CancelStep \/ FinishStep \/ Act
    \/ AfterRollback \/ UndoStep \/ UndoAct \/ UndoneStep
    \/ StartCommit \/ Finish

-----------------------------------------------------------------------------
(* The transitions an answer causes.  c says whether the driver found the  *)
(* scope stopped when it came back with the answer.                        *)

poll(c) == stop' = (stop \/ c)

Open(c) ==
    /\ phase = Opening
    /\ poll(c)
    /\ phase' = Checking(0, FALSE)
    /\ UNCHANGED <<journal, doubts, verdict, after, causes, outcomes, failures, report>>

Asked == phase.at = "Checking" /\ phase.asked

Facts(q, c) ==      \* the facts, and the actions they call for
    /\ Asked
    /\ poll(c)
    /\ IF q = <<>>
       THEN record(phase.step, "Satisfied") /\ phase' = next_step
       ELSE phase' = Executing(phase.step, q, FALSE) /\ UNCHANGED outcomes
    /\ UNCHANGED <<journal, doubts, verdict, after, causes, failures, report>>

NoFacts(c) ==       \* a query failed, or no action follows from the facts
    /\ Asked
    /\ poll(c)
    /\ fail(doubts, phase.step)
    /\ UNCHANGED <<journal, doubts, failures, report>>

Performing == phase.at = "Executing" /\ phase.awaiting

Performed(undo, c) ==
    /\ Performing
    /\ poll(c)
    /\ journal' = [journal EXCEPT ![phase.step] = Append(@, undo)]
    /\ phase' = Executing(phase.step, Tail(phase.queue), FALSE)
    /\ UNCHANGED <<doubts, verdict, after, causes, outcomes, failures, report>>

in_doubt(doubt) ==      \* nothing for an action that announced no undo
    IF doubt = <<>> THEN doubts
    ELSE [doubts EXCEPT ![phase.step] = Append(@, doubt)]

PerformFailed(doubt, c) ==
    /\ Performing
    /\ poll(c)
    /\ doubts' = in_doubt(doubt)
    /\ fail(in_doubt(doubt), phase.step)
    /\ UNCHANGED <<journal, failures, report>>

PerformCancelled(doubt) ==
    /\ Performing
    /\ stop' = TRUE
    /\ doubts' = in_doubt(doubt)
    /\ record(phase.step, "Cancelled")
    /\ cancel(in_doubt(doubt), phase.step)
    /\ UNCHANGED <<journal, causes, failures, report>>

Reverting == phase.at = "RollingBack" /\ phase.current # NoStep /\ phase.awaiting

popped ==
    IF phase.doubting
    THEN [phase EXCEPT !.awaiting = FALSE, !.doubting = FALSE, !.doubtful = Tail(@)]
    ELSE [phase EXCEPT !.awaiting = FALSE, !.queue = Tail(@)]

Undone(ok, c) ==
    /\ Reverting
    /\ poll(c)
    /\ phase' = popped
    /\ failures' = IF ok \/ phase.doubting THEN failures ELSE failures \cup {phase.current}
    /\ UNCHANGED <<journal, doubts, verdict, after, causes, outcomes, report>>

CommitAsked == phase.at = "Committing" /\ phase.awaiting

Committed(c) ==         \* done, or failed with no more than a warning
    /\ CommitAsked
    /\ poll(c)
    /\ verdict' = or_insert("Succeeded")
    /\ phase' = Closing
    /\ UNCHANGED <<journal, doubts, after, causes, outcomes, failures, report>>

CommitCancelled ==
    /\ CommitAsked
    /\ stop' = TRUE
    /\ verdict' = IF verdict \in {"None", "Succeeded"} THEN "Cancelled" ELSE verdict
    /\ phase' = Closing
    /\ UNCHANGED <<journal, doubts, after, causes, outcomes, failures, report>>

(* Any driver: an unshielded perform may come back cancelled.              *)
Answer ==
    \E c \in BOOLEAN :
      \/ Open(c)
      \/ Asked /\ \E q \in Plans[phase.step] : Facts(q, c)
      \/ NoFacts(c)
      \/ \E u \in UndoLists : Performed(u, c) \/ PerformFailed(u, c)
      \/ \E u \in UndoLists : ~shielded /\ PerformCancelled(u)
      \/ \E ok \in BOOLEAN : Undone(ok, c)
      \/ Committed(c)
      \/ ~shielded /\ CommitCancelled

Over == phase = Closed /\ UNCHANGED runnerVars

RunnerNext == Internal \/ Answer \/ Over

RunnerSpec == RunnerInit /\ [][RunnerNext]_runnerVars

-----------------------------------------------------------------------------
(* Properties.                                                             *)

UndoSeqs == Seq(Seq(Action))

PhaseOK ==
    /\ phase.at \in {"Opening", "Checking", "Executing", "RollingBack",
                     "Committing", "Closing", "Closed"}
    /\ phase.at = "Checking" =>
         phase.step \in 0..N /\ phase.asked \in BOOLEAN
    /\ phase.at = "Executing" =>
         phase.step \in Steps /\ phase.awaiting \in BOOLEAN
    /\ phase.at = "RollingBack" =>
         /\ phase.remaining \subseteq Steps
         /\ phase.current \in Steps \cup {NoStep}
         /\ phase.awaiting \in BOOLEAN /\ phase.doubting \in BOOLEAN
    /\ phase.at = "Committing" => phase.awaiting \in BOOLEAN /\ phase.reclaim \in BOOLEAN

StateOK ==
    /\ DOMAIN journal = Steps /\ DOMAIN doubts = Steps
    /\ stop \in BOOLEAN
    /\ verdict \in {"None", "Succeeded", "Failed", "Cancelled"}
    /\ after \in 0..N \cup {Close, Commit}
    /\ causes \in [Steps -> Steps \cup {NoStep}]
    /\ outcomes \in [Steps -> {"None", "Satisfied", "Changed", "Failed", "Cancelled", "Blocked"}]
    /\ failures \subseteq Steps
    /\ report \in {"None", "Succeeded", "Failed", "Cancelled"}

(* The runner's state has its type: it never checks, performs or goes on   *)
(* with a step the plan does not have, and asks one thing at a time.       *)
RunnerTypeOK == PhaseOK /\ StateOK

Complete(s) == outcomes[s] \in {"Satisfied", "Changed"}

(* A plan that is not independent takes effect as a whole or not at all:   *)
(* when it closes, either no step has an undo left (roll_back took every   *)
(* one, doubts included) or every step was carried through.                *)
PlanIsAtomic ==
    (phase = Closed /\ ~Independent) =>
      \/ \A s \in Steps : journal[s] = <<>> /\ doubts[s] = <<>>
      \/ \A s \in Steps : Complete(s)

(* Each step of an independent plan takes effect as a whole or not at all: *)
(* only a step that was carried through keeps its undos to the end, and no *)
(* doubt is left behind (roll_back_only of a failed or cancelled step).    *)
StepsAreAtomic ==
    (phase = Closed) =>
      \A s \in Steps : /\ doubts[s] = <<>>
                       /\ journal[s] # <<>> => outcomes[s] = "Changed"

(* Undoing goes strictly backwards: while a step is undone no later step   *)
(* has anything left to undo.                                              *)
NewestStepFirst ==
    (phase.at = "RollingBack" /\ phase.current # NoStep /\ ~Independent) =>
      \A s \in Steps : s >= phase.current => journal[s] = <<>> /\ doubts[s] = <<>>

(* A request that reports success carried every step through: no failure,  *)
(* block or stop on the way is overwritten by the commit or by a later     *)
(* step (verdict.get_or_insert).                                           *)
SuccessIsComplete ==
    (phase = Closed /\ report = "Succeeded") => \A s \in Steps : Complete(s)

(* No step is performed after a step it depends on failed or was blocked,  *)
(* and a blocked step names a step that really failed.                     *)
DependenciesHold ==
    \A s \in Steps :
      /\ Complete(s) => \A i \in DOMAIN Deps[s] :
                           Deps[s][i] < s => outcomes[Deps[s][i]] \notin {"Failed", "Blocked"}
      /\ outcomes[s] = "Blocked" => outcomes[causes[s]] = "Failed"

(* Once begun, a shielded step ends carried through or failed, never       *)
(* because of a stop.                                                      *)
ShieldedStepsAreNotCut == \A s \in Shielded : outcomes[s] # "Cancelled"

(* A stop is heeded: after the runner has seen it, no step that is not     *)
(* shielded has another action performed.                                  *)
NothingStartsAfterStop ==
    [][(stop /\ ~Performing /\ Performing') => phase.step \in Shielded]_runnerVars
=============================================================================
