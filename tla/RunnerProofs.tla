---------------------------- MODULE RunnerProofs ----------------------------
(***************************************************************************)
(* What Runner.tla promises, for plans of any length, any dependencies,    *)
(* any actions and any answers of the driver.                              *)
(*                                                                         *)
(* None of the properties is inductive: each speaks of the closed run, and *)
(* a run closes on one of five ways out of the middle of a plan.  Inv says *)
(* what holds in each phase.  Its core is Passed and Untouched: the run is *)
(* at one step, every earlier step has left nothing in doubt, and no later *)
(* step has been touched.  A rollback keeps Owed instead: only the steps   *)
(* still to be undone may hold an undo that must not stay.                 *)
(***************************************************************************)
EXTENDS Runner, TLAPS

-----------------------------------------------------------------------------
(* The inductive invariant.                                                *)

(* A rolling back phase has the fields of its variant and no others.       *)
Shape ==
    phase.at = "RollingBack" =>
      phase = [at |-> "RollingBack", remaining |-> phase.remaining,
               current |-> phase.current, doubtful |-> phase.doubtful,
               queue |-> phase.queue, doubting |-> phase.doubting,
               awaiting |-> phase.awaiting]

(* A step has a cause exactly if it failed or was blocked, and the cause   *)
(* is a step that failed.                                                  *)
Blamed ==
    \A s \in Steps :
      /\ causes[s] # NoStep <=> outcomes[s] \in {"Failed", "Blocked"}
      /\ causes[s] # NoStep => outcomes[causes[s]] = "Failed"

Untouched(n) ==
    \A s \in Steps : s >= n =>
      journal[s] = <<>> /\ doubts[s] = <<>> /\ outcomes[s] = "None"

Judged(n) ==
    \A s \in Steps : s < n =>
      outcomes[s] \in {"Satisfied", "Changed", "Failed", "Blocked"}

(* Nothing is in doubt, and only a step carried through keeps its undos.   *)
Settling == \A s \in Steps : /\ doubts[s] = <<>>
                             /\ journal[s] # <<>> => outcomes[s] = "Changed"

Passed(n) ==
    /\ Judged(n)
    /\ \A s \in Steps : s < n =>
         /\ doubts[s] = <<>>
         /\ journal[s] # <<>> => outcomes[s] = "Changed"
         /\ verdict = "None" => Complete(s)

(* The run goes on: only an independent one does after a failure.          *)
Going == verdict \in {"None", "Failed"} /\ (~Independent => verdict = "None")

InOpening == phase.at = "Opening" => verdict = "None" /\ Untouched(0)

InChecking ==
    phase.at = "Checking" =>
      /\ Going /\ Passed(phase.step) /\ Untouched(phase.step)
      /\ phase.asked => phase.step \in Steps

InExecuting ==
    phase.at = "Executing" =>
      /\ Going /\ Passed(phase.step) /\ Untouched(phase.step + 1)
      /\ doubts[phase.step] = <<>> /\ outcomes[phase.step] = "None"

(* Outside the steps still to be undone nothing is in doubt, and an undo   *)
(* is kept only for a step an independent plan carried through.            *)
Owed(remaining) ==
    \A s \in Steps : s \notin remaining =>
      /\ doubts[s] = <<>>
      /\ journal[s] # <<>> => Independent /\ outcomes[s] = "Changed"

(* What the rollback of one failed step goes on with.                      *)
Resuming ==
    after \in 0..N => verdict = "Failed" /\ Untouched(after) /\ Judged(after)

InRollingBack ==
    phase.at = "RollingBack" =>
      /\ verdict \in {"Failed", "Cancelled"}
      /\ Independent <=> after # Close
      /\ Owed(phase.remaining)
      /\ phase.current # NoStep => \A s \in phase.remaining : s < phase.current
      /\ Resuming

(* A whole plan is either undone or carried through.                       *)
Whole ==
    ~Independent => \/ \A s \in Steps : journal[s] = <<>>
                    \/ \A s \in Steps : Complete(s)

Earned(v) == v = "Succeeded" => \A s \in Steps : Complete(s)

InEnding ==
    phase.at \in {"Committing", "Closing", "Closed"} =>
      /\ Settling /\ Whole
      /\ phase.at # "Closed" => verdict # "None" /\ Earned(verdict)
      /\ phase.at = "Closed" => Earned(report)

Returned == phase.at # "RollingBack" => after = Close

Inv ==
    /\ RunnerTypeOK /\ Shape /\ Blamed
    /\ InOpening /\ InChecking /\ InExecuting /\ InRollingBack /\ InEnding
    /\ Returned

(* The run is at step s, which it may fail or cancel.                      *)
At(s) ==
    /\ s \in Steps /\ StateOK /\ Blamed /\ after = Close
    /\ Going /\ Passed(s) /\ Untouched(s + 1) /\ outcomes[s] = "None"

-----------------------------------------------------------------------------
(* Where a transition leads.                                               *)

USE RunnerAssumption DEF RunnerAssumption, Steps, NoStep, Close, Commit

(* A step of the plan comes up, asked for its facts or not.                 *)
LEMMA ToChecking ==
  ASSUME NEW n \in 0..N, NEW b \in BOOLEAN, phase' = Checking(n, b),
         StateOK', Blamed', Going', Passed(n)', Untouched(n)', after' = Close,
         b => n \in Steps
  PROVE  Inv'
<1>1. /\ PhaseOK' /\ Shape'
      /\ phase'.at = "Checking" /\ phase'.step = n /\ phase'.asked = b
  BY DEF PhaseOK, Shape, Checking
<1> QED BY <1>1 DEF Inv, RunnerTypeOK, InOpening, InChecking, InExecuting,
           InRollingBack, InEnding, Returned

(* A step is carried out, all the earlier ones being judged.                *)
LEMMA ToExecuting ==
  ASSUME NEW n \in Steps, NEW q, NEW b \in BOOLEAN, phase' = Executing(n, q, b),
         StateOK', Blamed', Going', Passed(n)', Untouched(n + 1)', after' = Close,
         doubts'[n] = <<>>, outcomes'[n] = "None"
  PROVE  Inv'
<1>1. /\ PhaseOK' /\ Shape'
      /\ phase'.at = "Executing" /\ phase'.step = n
  BY DEF PhaseOK, Shape, Executing
<1> QED BY <1>1 DEF Inv, RunnerTypeOK, InOpening, InChecking, InExecuting,
           InRollingBack, InEnding, Returned

(* A rollback of the steps R begins or goes on between two steps.           *)
LEMMA ToRollingBack ==
  ASSUME NEW R \in SUBSET Steps, phase' = RollingBack(R),
         StateOK', Blamed', verdict' \in {"Failed", "Cancelled"},
         Independent <=> after' # Close, Owed(R)', Resuming'
  PROVE  Inv'
<1>1. /\ PhaseOK' /\ Shape'
      /\ phase'.at = "RollingBack" /\ phase'.remaining = R /\ phase'.current = NoStep
  BY DEF PhaseOK, Shape, RollingBack
<1> QED BY <1>1 DEF Inv, RunnerTypeOK, InOpening, InChecking, InExecuting,
           InRollingBack, InEnding, Returned

(* The rollback moves on within one step.                                   *)
LEMMA StillRollingBack ==
  ASSUME Inv, phase.at = "RollingBack",
         phase'.at = "RollingBack", phase'.remaining = phase.remaining,
         phase'.current = phase.current, phase'.awaiting \in BOOLEAN,
         phase'.doubting \in BOOLEAN, Shape',
         stop' \in BOOLEAN, failures' \subseteq Steps,
         UNCHANGED <<journal, doubts, verdict, after, causes, outcomes, report>>
  PROVE  Inv'
<1>1. PhaseOK'
  BY DEF Inv, RunnerTypeOK, PhaseOK
<1>2. StateOK' /\ Blamed'
  BY DEF Inv, RunnerTypeOK, StateOK, Blamed
<1>3. Owed(phase.remaining)' /\ Resuming'
  BY DEF Inv, InRollingBack, Owed, Resuming, Untouched, Judged
<1> QED BY <1>1, <1>2, <1>3 DEF Inv, RunnerTypeOK, InOpening, InChecking,
           InExecuting, InRollingBack, InEnding, Returned

(* The run commits or closes with a verdict it has earned.                  *)
LEMMA ToClosing ==
  ASSUME phase' = Closing \/ \E a, b \in BOOLEAN : phase' = CommittingPhase(a, b),
         StateOK', Blamed', Settling', Whole', after' = Close,
         verdict' # "None", Earned(verdict)'
  PROVE  Inv'
<1>1. CASE phase' = Closing
  <2>1. PhaseOK' /\ Shape' /\ phase'.at = "Closing"
    BY <1>1 DEF PhaseOK, Shape, Closing
  <2> QED BY <2>1 DEF Inv, RunnerTypeOK, InOpening, InChecking, InExecuting,
             InRollingBack, InEnding, Returned
<1>2. ASSUME NEW a \in BOOLEAN, NEW b \in BOOLEAN, phase' = CommittingPhase(a, b)
      PROVE  Inv'
  <2>1. PhaseOK' /\ Shape' /\ phase'.at = "Committing"
    BY <1>2 DEF PhaseOK, Shape, CommittingPhase
  <2> QED BY <2>1 DEF Inv, RunnerTypeOK, InOpening, InChecking, InExecuting,
             InRollingBack, InEnding, Returned
<1> QED BY <1>1, <1>2

(* finish_or_commit leads to the closing phases.                            *)
LEMMA FinishesOrCommits ==
  ASSUME finish_or_commit, StateOK', Blamed', Settling', Whole', after' = Close,
         verdict' # "None", Earned(verdict)'
  PROVE  Inv'
  BY ToClosing DEF finish_or_commit

(* A step asked for its facts or carried out is the step at hand.           *)
LEMMA IsAt ==
  ASSUME Inv, Asked \/ phase.at = "Executing"
  PROVE  At(phase.step) /\ (phase.at = "Executing" => doubts[phase.step] = <<>>)
<1>1. CASE Asked
  <2>1. /\ phase.step \in Steps
        /\ Going /\ Passed(phase.step) /\ Untouched(phase.step)
    BY <1>1 DEF Inv, RunnerTypeOK, PhaseOK, InChecking, Asked
  <2>2. Untouched(phase.step + 1) /\ outcomes[phase.step] = "None"
    BY <2>1 DEF Untouched
  <2> QED BY <1>1, <2>1, <2>2 DEF Inv, RunnerTypeOK, Asked, Returned, At
<1>2. CASE phase.at = "Executing"
  BY <1>2 DEF Inv, RunnerTypeOK, PhaseOK, InExecuting, Returned, At
<1> QED BY <1>1, <1>2

(* fail(): the step at hand fails, d being the doubts it leaves.            *)
LEMMA Fails ==
  ASSUME NEW s, At(s), NEW d, DOMAIN d = Steps,
         \A t \in Steps : t # s => d[t] = doubts[t],
         doubts' = d, stop' \in BOOLEAN, UNCHANGED <<journal, failures, report>>,
         fail(d, s)
  PROVE  Inv'
<1>1. /\ s \in Steps /\ s + 1 \in 0..N
      /\ causes' = [causes EXCEPT ![s] = s]
      /\ outcomes' = [outcomes EXCEPT ![s] = "Failed"]
      /\ verdict' = "Failed"
  BY DEF fail, record, or_insert, At, Going
<1>2. after' \in 0..N \cup {Close, Commit}
  BY <1>1 DEF fail, roll_back_only, roll_back, Continue, At
<1>3. StateOK'
  BY <1>1, <1>2 DEF At, StateOK
<1>4. Blamed'
  BY <1>1 DEF Blamed, At, StateOK
<1>5. CASE Independent
  <2>1. phase' = RollingBack(IF owned(d, s) THEN {s} ELSE {}) /\ after' = s + 1
    BY <1>5 DEF fail, roll_back_only, Continue
  <2> PICK R \in SUBSET Steps : R = IF owned(d, s) THEN {s} ELSE {}
    BY <1>1
  <2>2. /\ outcomes'[s] = "Failed"
        /\ \A t \in Steps : t # s => outcomes'[t] = outcomes[t] /\ doubts'[t] = doubts[t]
    BY <1>1 DEF At, StateOK
  <2>3. Owed(R)'
    <3> SUFFICES ASSUME NEW t \in Steps, t \notin R
                 PROVE  /\ doubts'[t] = <<>>
                        /\ journal'[t] # <<>> => Independent /\ outcomes'[t] = "Changed"
      BY DEF Owed
    <3>1. CASE t = s
      BY <3>1 DEF owned
    <3>2. CASE t < s
      <4>1. doubts[t] = <<>> /\ (journal[t] # <<>> => outcomes[t] = "Changed")
        BY <3>2 DEF At, Passed
      <4> QED BY <1>5, <2>2, <3>2, <4>1
    <3>3. CASE t >= s + 1
      <4>1. doubts[t] = <<>> /\ journal[t] = <<>>
        BY <3>3 DEF At, Untouched
      <4> QED BY <1>1, <2>2, <3>3, <4>1
    <3> QED BY <1>1, <3>1, <3>2, <3>3
  <2>4. Untouched(s + 1)'
    <3> SUFFICES ASSUME NEW t \in Steps, t >= s + 1
                 PROVE  journal'[t] = <<>> /\ doubts'[t] = <<>> /\ outcomes'[t] = "None"
      BY DEF Untouched
    <3>1. journal[t] = <<>> /\ doubts[t] = <<>> /\ outcomes[t] = "None"
      BY DEF At, Untouched
    <3> QED BY <1>1, <2>2, <3>1
  <2>5. Judged(s + 1)'
    <3>1. \A t \in Steps : t < s + 1 => t < s \/ t = s
      BY <1>1
    <3> QED BY <2>2, <3>1 DEF Judged, At, Passed
  <2>6. Resuming'
    BY <1>1, <2>1, <2>4, <2>5 DEF Resuming
  <2>7. Independent <=> after' # Close
    BY <1>1, <1>5, <2>1
  <2> QED BY <1>1, <1>3, <1>4, <2>1, <2>3, <2>6, <2>7, ToRollingBack
<1>6. CASE ~Independent
  <2>1. phase' = RollingBack({t \in Steps : owned(d, t)}) /\ after' = Close
    BY <1>6 DEF fail, roll_back, At
  <2> PICK R \in SUBSET Steps : R = {t \in Steps : owned(d, t)}
    OBVIOUS
  <2>2. Owed(R)'
    BY DEF Owed, owned
  <2>3. Resuming'
    BY <2>1 DEF Resuming
  <2> QED BY <1>1, <1>3, <1>4, <1>6, <2>1, <2>2, <2>3, ToRollingBack
<1> QED BY <1>5, <1>6

(* cancel(): the step at hand is cut short by a stop.                       *)
LEMMA Cancels ==
  ASSUME NEW s, At(s), NEW d, DOMAIN d = Steps,
         \A t \in Steps : t # s => d[t] = doubts[t],
         doubts' = d, stop' \in BOOLEAN,
         UNCHANGED <<journal, causes, failures, report>>,
         record(s, "Cancelled"), cancel(d, s)
  PROVE  Inv'
<1>1. /\ s \in Steps
      /\ outcomes' = [outcomes EXCEPT ![s] = "Cancelled"]
      /\ verdict' = "Cancelled"
  BY DEF cancel, record, At
<1>2. after' \in {Close, Commit}
  BY <1>1 DEF cancel, roll_back_only, roll_back, At
<1>3. StateOK'
  BY <1>1, <1>2 DEF At, StateOK
<1>4. Blamed'
  BY <1>1 DEF Blamed, At, StateOK
<1>5. Resuming'
  BY <1>2 DEF Resuming
<1>6. CASE Independent /\ owned(d, s)
  <2>1. phase' = RollingBack({s}) /\ after' = Commit
    BY <1>1, <1>6 DEF cancel, roll_back_only
  <2>2. Owed({s})'
    BY <1>1, <1>6 DEF Owed, At, StateOK, Passed, Untouched
  <2>3. {s} \in SUBSET Steps /\ (Independent <=> after' # Close)
    BY <1>1, <1>6, <2>1
  <2> QED BY <1>1, <1>3, <1>4, <1>5, <2>1, <2>2, <2>3, ToRollingBack
<1>7. CASE Independent /\ ~owned(d, s)
  <2>1. finish_or_commit /\ after' = Close
    BY <1>1, <1>7 DEF cancel, At
  <2>2. Settling'
    BY <1>1, <1>7 DEF Settling, owned, At, StateOK, Passed, Untouched
  <2>3. Whole' /\ Earned(verdict)'
    BY <1>1, <1>7 DEF Whole, Earned
  <2> QED BY <1>1, <1>3, <1>4, <2>1, <2>2, <2>3, FinishesOrCommits
<1>8. CASE ~Independent
  <2>1. phase' = RollingBack({t \in Steps : owned(d, t)}) /\ after' = Close
    BY <1>8 DEF cancel, roll_back, At
  <2> PICK R \in SUBSET Steps : R = {t \in Steps : owned(d, t)}
    OBVIOUS
  <2>2. Owed(R)'
    BY DEF Owed, owned
  <2> QED BY <1>1, <1>3, <1>4, <1>5, <1>8, <2>1, <2>2, ToRollingBack
<1> QED BY <1>6, <1>7, <1>8

(* Going on to the step after s, whose outcome is settled.                 *)
LEMMA GoesOn ==
  ASSUME NEW s, At(s), doubts[s] = <<>>, phase' = Checking(s + 1, FALSE),
         NEW o, record(s, o), o \in {"Satisfied", "Changed"},
         journal[s] # <<>> => o = "Changed", stop' \in BOOLEAN,
         UNCHANGED <<journal, doubts, verdict, after, causes, failures, report>>
  PROVE  Inv'
<1>1. /\ s \in Steps /\ s + 1 \in 0..N
      /\ outcomes' = [outcomes EXCEPT ![s] = o]
  BY DEF record, At
<1>2. StateOK'
  BY <1>1 DEF At, StateOK
<1>3. Blamed'
  BY <1>1 DEF Blamed, At, StateOK
<1>4. Untouched(s + 1)' /\ Going'
  BY <1>1 DEF Untouched, Going, At, StateOK
<1>5. Passed(s + 1)'
  <2>1. \A t \in Steps : t # s => outcomes'[t] = outcomes[t]
    BY <1>1 DEF At, StateOK
  <2>2. outcomes'[s] = o
    BY <1>1 DEF At, StateOK
  <2>3. \A t \in Steps : t < s + 1 => t < s \/ t = s
    BY <1>1
  <2> QED BY <2>1, <2>2, <2>3 DEF Passed, Judged, Complete, At
<1> QED BY <1>1, <1>2, <1>3, <1>4, <1>5, ToChecking DEF At

-----------------------------------------------------------------------------
(* The invariant is inductive.                                             *)

(* Runner::new establishes the invariant.                                   *)
LEMMA InitInv == ASSUME RunnerInit PROVE Inv
<1>1. PhaseOK /\ Shape /\ phase.at = "Opening"
  BY DEF RunnerInit, Opening, PhaseOK, Shape
<1>2. StateOK
  BY DEF RunnerInit, StateOK
<1>3. Blamed /\ Untouched(0)
  BY DEF RunnerInit, Blamed, Untouched
<1> QED BY <1>1, <1>2, <1>3 DEF RunnerInit, Inv, RunnerTypeOK, InOpening, InChecking,
           InExecuting, InRollingBack, InEnding, Returned

(* A step is blocked because of t, which it depends on.                    *)
LEMMA BlocksStep ==
  ASSUME NEW s \in Steps, NEW t \in Steps, NEW c \in Steps, c = causes[t],
         StateOK, Blamed, Going, Passed(s), Untouched(s), after = Close,
         causes' = [causes EXCEPT ![s] = c],
         outcomes' = [outcomes EXCEPT ![s] = "Blocked"],
         phase' = Checking(s + 1, FALSE),
         UNCHANGED <<journal, doubts, stop, verdict, after, failures, report>>
  PROVE  Inv'
<1>1. /\ outcomes[c] = "Failed" /\ outcomes[t] \in {"Failed", "Blocked"}
      /\ outcomes[s] = "None"
  <2>1. causes[t] # NoStep
    OBVIOUS
  <2>2. outcomes[causes[t]] = "Failed" /\ outcomes[t] \in {"Failed", "Blocked"}
    BY <2>1 DEF Blamed
  <2>3. outcomes[s] = "None"
    BY DEF Untouched
  <2> QED BY <2>2, <2>3
<1>2. StateOK'
  <2>1. causes' \in [Steps -> Steps \cup {NoStep}]
    BY DEF StateOK
  <2> QED BY <2>1 DEF StateOK
<1>3. /\ causes'[s] = c /\ outcomes'[s] = "Blocked" /\ outcomes'[c] = "Failed"
      /\ \A u \in Steps : u # s => causes'[u] = causes[u] /\ outcomes'[u] = outcomes[u]
  BY <1>1 DEF StateOK
<1>4. Blamed'
  <2> SUFFICES ASSUME NEW u \in Steps
               PROVE  /\ causes'[u] # NoStep <=> outcomes'[u] \in {"Failed", "Blocked"}
                      /\ causes'[u] # NoStep => outcomes'[causes'[u]] = "Failed"
    BY DEF Blamed
  <2>1. CASE u = s
    BY <1>3, <2>1
  <2>2. CASE u # s
    <3>1. causes[u] # NoStep => outcomes[causes[u]] = "Failed"
      BY DEF Blamed
    <3>2. causes[u] # NoStep => causes[u] \in Steps /\ causes[u] # s
      BY <1>1, <3>1 DEF StateOK
    <3>3. causes[u] # NoStep <=> outcomes[u] \in {"Failed", "Blocked"}
      BY DEF Blamed
    <3> QED BY <1>3, <2>2, <3>1, <3>2, <3>3
  <2> QED BY <2>1, <2>2
<1>5. verdict # "None"
  <2>1. t >= s => outcomes[t] = "None"
    BY DEF Untouched
  <2>2. t < s
    BY <1>1, <2>1
  <2> QED BY <1>1, <2>2 DEF Passed, Complete
<1>6. Going' /\ Untouched(s + 1)'
  BY <1>3 DEF Going, Untouched
<1>7. Passed(s + 1)'
  <2>1. journal[s] = <<>> /\ doubts[s] = <<>>
    BY DEF Untouched
  <2>2. \A u \in Steps : u < s + 1 => u < s \/ u = s
    OBVIOUS
  <2> QED BY <1>3, <1>5, <2>1, <2>2 DEF Passed, Judged
<1>8. s + 1 \in 0..N
  OBVIOUS
<1> QED BY <1>2, <1>4, <1>6, <1>7, <1>8, ToChecking

(* The transitions out of Checking before a query.                          *)
LEMMA CheckingInv ==
  ASSUME Inv, Advance \/ CancelBeforeStep \/ Block \/ Ask
  PROVE  Inv'
<1>1. /\ phase.at = "Checking" /\ phase.step \in 0..N
      /\ StateOK /\ Blamed /\ after = Close
      /\ Going /\ Passed(phase.step) /\ Untouched(phase.step)
  BY DEF Inv, RunnerTypeOK, PhaseOK, InChecking, Returned,
     Advance, CancelBeforeStep, Block, Ask
<1>2. CASE Advance
  <2>1. /\ phase.step = N /\ verdict' = or_insert("Succeeded") /\ finish_or_commit
        /\ UNCHANGED <<journal, doubts, stop, after, causes, outcomes, failures, report>>
    BY <1>2 DEF Advance
  <2>2. \A s \in Steps : s < N
    OBVIOUS
  <2>3. Settling' /\ Blamed' /\ StateOK' /\ verdict' # "None"
    BY <1>1, <2>1, <2>2 DEF Settling, Blamed, StateOK, Passed, or_insert, Going
  <2>4. Whole' /\ Earned(verdict)'
    BY <1>1, <2>1, <2>2 DEF Whole, Earned, Complete, Passed, or_insert, Going
  <2> QED BY <1>1, <2>1, <2>3, <2>4, FinishesOrCommits
<1>3. CASE CancelBeforeStep
  <2>1. /\ verdict' = "Cancelled" /\ cancel(doubts, NoStep)
        /\ UNCHANGED <<journal, doubts, stop, causes, outcomes, failures, report>>
    BY <1>3 DEF CancelBeforeStep, cancel
  <2>2. after' = Close
    BY <1>1, <2>1 DEF cancel, roll_back
  <2>3. StateOK' /\ Blamed'
    BY <1>1, <2>1, <2>2 DEF StateOK, Blamed
  <2>4. CASE Independent
    <3>1. finish_or_commit
      BY <2>1, <2>4 DEF cancel
    <3>2. Settling' /\ Whole' /\ Earned(verdict)'
      BY <1>1, <2>1, <2>4 DEF Settling, Whole, Earned, Passed, Untouched
    <3> QED BY <2>1, <2>2, <2>3, <3>1, <3>2, FinishesOrCommits
  <2>5. CASE ~Independent
    <3> PICK R \in SUBSET Steps : R = {t \in Steps : owned(doubts, t)}
      OBVIOUS
    <3>1. phase' = RollingBack(R)
      BY <2>1, <2>5 DEF cancel, roll_back
    <3>2. Owed(R)' /\ Resuming'
      BY <2>1, <2>2 DEF Owed, owned, Resuming
    <3> QED BY <2>1, <2>2, <2>3, <2>5, <3>1, <3>2, ToRollingBack
  <2> QED BY <2>4, <2>5
<1>4. CASE Block
  <2> PICK s \in Steps : s = phase.step
    BY <1>1, <1>4 DEF Block
  <2>1. PICK i \in DOMAIN Deps[s] :
          /\ blocker(s, i)
          /\ causes' = [causes EXCEPT ![s] = causes[Deps[s][i]]]
    BY <1>4 DEF Block
  <2>2. PICK t \in Steps : t = Deps[s][i]
    BY <2>1
  <2>3. PICK c \in Steps : c = causes[t]
    BY <1>1, <2>1, <2>2 DEF StateOK, blocker
  <2>4. /\ phase' = Checking(s + 1, FALSE)
        /\ outcomes' = [outcomes EXCEPT ![s] = "Blocked"]
        /\ UNCHANGED <<journal, doubts, stop, verdict, after, failures, report>>
    BY <1>4 DEF Block, next_step, record
  <2>5. causes' = [causes EXCEPT ![s] = c]
    BY <2>1, <2>2, <2>3
  <2> QED BY <1>1, <2>3, <2>4, <2>5, BlocksStep
<1>5. CASE Ask
  <2>1. /\ phase.step \in Steps /\ phase' = Checking(phase.step, TRUE)
        /\ UNCHANGED <<journal, doubts, stop, verdict, after, causes, outcomes, failures, report>>
    BY <1>1, <1>5 DEF Ask
  <2> PICK s \in Steps : s = phase.step
    BY <2>1
  <2>2. StateOK' /\ Blamed' /\ Going' /\ Passed(s)' /\ Untouched(s)'
    BY <1>1, <2>1 DEF StateOK, Blamed, Going, Passed, Judged, Complete, Untouched
  <2> QED BY <1>1, <2>1, <2>2, ToChecking
<1> QED BY <1>2, <1>3, <1>4, <1>5

(* The transitions of Executing before an action.                           *)
LEMMA ExecutingInv ==
  ASSUME Inv, CancelStep \/ FinishStep \/ Act
  PROVE  Inv'
<1>1. /\ phase.at = "Executing" /\ At(phase.step) /\ doubts[phase.step] = <<>>
  BY IsAt DEF CancelStep, FinishStep, Act
<1>2. CASE CancelStep
  BY <1>1, <1>2, Cancels DEF CancelStep, At, StateOK
<1>3. CASE FinishStep
  BY <1>1, <1>3, GoesOn DEF FinishStep, next_step, At, StateOK
<1>4. CASE Act
  <2>1. /\ phase' = Executing(phase.step, phase.queue, TRUE)
        /\ UNCHANGED <<journal, doubts, stop, verdict, after, causes, outcomes, failures, report>>
    BY <1>4 DEF Act
  <2> PICK s \in Steps : s = phase.step
    BY <1>1 DEF At
  <2>2. StateOK' /\ Blamed' /\ Going' /\ Passed(s)' /\ Untouched(s + 1)'
    BY <1>1, <2>1 DEF At, StateOK, Blamed, Going, Passed, Judged, Complete, Untouched
  <2> QED BY <1>1, <2>1, <2>2, ToExecuting DEF At
<1> QED BY <1>2, <1>3, <1>4

(* The transitions of RollingBack before an undo.                           *)
LEMMA RollingBackInv ==
  ASSUME Inv, AfterRollback \/ UndoStep \/ UndoAct \/ UndoneStep
  PROVE  Inv'
<1>1. /\ phase.at = "RollingBack"
      /\ verdict \in {"Failed", "Cancelled"} /\ (Independent <=> after # Close)
      /\ Owed(phase.remaining) /\ Resuming /\ StateOK /\ Blamed
  BY DEF Inv, RunnerTypeOK, InRollingBack, AfterRollback, Resting, UndoStep,
     UndoAct, UndoneStep, Undoing
<1>2. CASE AfterRollback
  <2>1. /\ after' = Close /\ phase.remaining = {}
        /\ UNCHANGED <<journal, doubts, stop, verdict, causes, outcomes, failures, report>>
    BY <1>2 DEF AfterRollback
  <2>2. StateOK' /\ Blamed'
    BY <1>1, <2>1 DEF StateOK, Blamed
  <2>3. CASE after \in {Close, Commit}
    <3>1. phase' = Closing \/ finish_or_commit
      BY <1>2, <2>3 DEF AfterRollback
    <3>2. Settling' /\ Whole' /\ Earned(verdict)' /\ verdict' # "None"
      BY <1>1, <2>1 DEF Settling, Whole, Earned, Owed
    <3> QED BY <2>1, <2>2, <3>1, <3>2, FinishesOrCommits, ToClosing
  <2>4. CASE after \notin {Close, Commit}
    <3> PICK n \in 0..N : n = after
      BY <1>1, <2>4 DEF StateOK
    <3>1. phase' = Checking(n, FALSE)
      BY <1>2, <2>4 DEF AfterRollback
    <3>2. Untouched(n)' /\ Judged(n)' /\ verdict' = "Failed"
      BY <1>1, <2>1 DEF Resuming, Untouched, Judged
    <3>3. Passed(n)' /\ Going'
      BY <1>1, <2>1, <2>4, <3>2 DEF Passed, Owed, Going
    <3> QED BY <2>1, <2>2, <3>1, <3>2, <3>3, ToChecking
  <2> QED BY <2>3, <2>4
<1>3. CASE UndoStep
  <2>1. phase.at = "RollingBack" /\ phase.current = NoStep
    BY <1>3 DEF UndoStep, Resting
  <2>2. PICK s \in phase.remaining :
          /\ \A t \in phase.remaining : t <= s
          /\ phase' = [phase EXCEPT
               !.remaining = @ \ {s}, !.current = s,
               !.queue = rollback_order(journal[s]),
               !.doubtful = each_in_order(doubts[s])]
          /\ journal' = [journal EXCEPT ![s] = <<>>]
          /\ doubts' = [doubts EXCEPT ![s] = <<>>]
    BY <1>3 DEF UndoStep, last
  <2>3. s \in Steps /\ phase.remaining \subseteq Steps
    BY <2>1, <2>2 DEF Inv, RunnerTypeOK, PhaseOK
  <2>4. /\ phase'.at = "RollingBack" /\ phase'.remaining = phase.remaining \ {s}
        /\ phase'.current = s /\ phase'.awaiting = phase.awaiting
        /\ phase'.doubting = phase.doubting
        /\ Shape'
    BY <2>1, <2>2 DEF Inv, Shape
  <2>5. UNCHANGED <<stop, verdict, after, causes, outcomes, failures, report>>
    BY <1>3 DEF UndoStep
  <2>6. PhaseOK'
    BY <2>1, <2>3, <2>4 DEF Inv, RunnerTypeOK, PhaseOK
  <2>7. StateOK' /\ Blamed'
    BY <1>1, <2>2, <2>5 DEF StateOK, Blamed
  <2>8. Owed(phase.remaining)'
    BY <1>1, <2>2, <2>3, <2>4, <2>5 DEF StateOK, Owed
  <2>9. Resuming'
    BY <1>1, <2>2, <2>3, <2>5 DEF StateOK, Resuming, Untouched, Judged
  <2>10. \A t \in phase'.remaining : t < phase'.current
    BY <2>2, <2>3, <2>4
  <2> QED BY <1>1, <2>4, <2>5, <2>6, <2>7, <2>8, <2>9, <2>10 DEF Inv, RunnerTypeOK,
       InOpening, InChecking, InExecuting, InRollingBack, InEnding, Returned
<1>4. CASE UndoAct
  <2>1. /\ phase' = [phase EXCEPT !.awaiting = TRUE, !.doubting = phase.doubtful # <<>>]
        /\ UNCHANGED <<journal, doubts, stop, verdict, after, causes, outcomes, failures, report>>
    BY <1>4 DEF UndoAct
  <2>2. /\ phase'.at = "RollingBack" /\ phase'.remaining = phase.remaining
        /\ phase'.current = phase.current /\ phase'.awaiting \in BOOLEAN
        /\ phase'.doubting \in BOOLEAN /\ Shape'
    BY <1>1, <2>1 DEF Inv, Shape
  <2> QED BY <1>1, <2>1, <2>2, StillRollingBack DEF StateOK
<1>5. CASE UndoneStep
  <2>1. /\ phase' = RollingBack(phase.remaining)
        /\ UNCHANGED <<journal, doubts, stop, verdict, after, causes, outcomes, failures, report>>
    BY <1>5 DEF UndoneStep
  <2> PICK R \in SUBSET Steps : R = phase.remaining
    BY <1>1 DEF Inv, RunnerTypeOK, PhaseOK
  <2>2. StateOK' /\ Blamed' /\ Owed(R)' /\ Resuming'
    BY <1>1, <2>1 DEF StateOK, Blamed, Owed, Resuming, Untouched, Judged
  <2> QED BY <1>1, <2>1, <2>2, ToRollingBack
<1> QED BY <1>2, <1>3, <1>4, <1>5

(* The commit is asked for, and the run closes.                             *)
LEMMA EndingInv ==
  ASSUME Inv, StartCommit \/ Finish
  PROVE  Inv'
<1>1. /\ phase.at \in {"Committing", "Closing"} /\ after = Close
      /\ Settling /\ Whole /\ verdict # "None" /\ Earned(verdict) /\ StateOK /\ Blamed
  BY DEF Inv, RunnerTypeOK, InEnding, Returned, StartCommit, Finish
<1>2. CASE StartCommit
  <2>1. /\ phase' = CommittingPhase(TRUE, reclaims) /\ reclaims \in BOOLEAN
        /\ UNCHANGED <<journal, doubts, stop, verdict, after, causes, outcomes, failures, report>>
    BY <1>2 DEF StartCommit, reclaims
  <2>2. StateOK' /\ Blamed' /\ Settling' /\ Whole' /\ Earned(verdict)'
    BY <1>1, <2>1 DEF StateOK, Blamed, Settling, Whole, Complete, Earned
  <2> QED BY <1>1, <2>1, <2>2, ToClosing
<1>3. CASE Finish
  <2>1. /\ phase' = Closed /\ report' = verdict /\ verdict' = "None"
        /\ UNCHANGED <<journal, doubts, stop, after, causes, outcomes, failures>>
    BY <1>1, <1>3 DEF Finish, or_insert
  <2>2. PhaseOK' /\ Shape' /\ phase'.at = "Closed"
    BY <2>1 DEF PhaseOK, Shape, Closed
  <2>3. StateOK' /\ Blamed' /\ Settling' /\ Whole' /\ Earned(report)'
    BY <1>1, <2>1 DEF StateOK, Blamed, Settling, Whole, Complete, Earned
  <2> QED BY <1>1, <2>1, <2>2, <2>3 DEF Inv, RunnerTypeOK,
       InOpening, InChecking, InExecuting, InRollingBack, InEnding, Returned
<1> QED BY <1>2, <1>3

(* The transitions an answer of the driver causes.                          *)
LEMMA AnswerInv == ASSUME Inv, Answer PROVE Inv'
<1> PICK c \in BOOLEAN :
      \/ Open(c)
      \/ Asked /\ \E q \in Plans[phase.step] : Facts(q, c)
      \/ NoFacts(c)
      \/ \E u \in UndoLists : Performed(u, c) \/ PerformFailed(u, c)
      \/ \E u \in UndoLists : ~shielded /\ PerformCancelled(u)
      \/ \E ok \in BOOLEAN : Undone(ok, c)
      \/ Committed(c)
      \/ ~shielded /\ CommitCancelled
  BY DEF Answer
<1>0. stop \in BOOLEAN /\ (poll(c) => stop' \in BOOLEAN)
  BY DEF Inv, RunnerTypeOK, StateOK, poll
<1>1. CASE Open(c)
  <2>1. /\ phase.at = "Opening" /\ phase' = Checking(0, FALSE) /\ stop' \in BOOLEAN
        /\ UNCHANGED <<journal, doubts, verdict, after, causes, outcomes, failures, report>>
    BY <1>0, <1>1 DEF Open, Opening
  <2>2. /\ StateOK /\ Blamed /\ verdict = "None" /\ Untouched(0) /\ after = Close
    BY <2>1 DEF Inv, RunnerTypeOK, InOpening, Returned
  <2>3. StateOK' /\ Blamed' /\ Going' /\ Untouched(0)'
    BY <2>1, <2>2 DEF StateOK, Blamed, Going, Untouched
  <2>4. Passed(0)' /\ 0 \in 0..N
    BY DEF Passed, Judged
  <2> QED BY <2>1, <2>2, <2>3, <2>4, ToChecking
<1>2. ASSUME Asked, NEW q, Facts(q, c) PROVE Inv'
  <2>1. At(phase.step) /\ stop' \in BOOLEAN
    BY <1>0, <1>2, IsAt DEF Facts
  <2>2. journal[phase.step] = <<>> /\ doubts[phase.step] = <<>>
    BY <1>2, <2>1 DEF Inv, InChecking, Asked, Untouched, At
  <2>3. CASE q = <<>>
    BY <1>2, <2>1, <2>2, <2>3, GoesOn DEF Facts, next_step
  <2>4. CASE q # <<>>
    <3>1. /\ phase' = Executing(phase.step, q, FALSE)
          /\ UNCHANGED <<journal, doubts, verdict, after, causes, outcomes, failures, report>>
      BY <1>2, <2>4 DEF Facts
    <3> PICK s \in Steps : s = phase.step
      BY <2>1 DEF At
    <3>2. StateOK' /\ Blamed' /\ Going' /\ Passed(s)' /\ Untouched(s + 1)'
      BY <2>1, <3>1 DEF At, StateOK, Blamed, Going, Passed, Judged, Complete, Untouched
    <3> QED BY <2>1, <2>2, <3>1, <3>2, ToExecuting DEF At
  <2> QED BY <2>3, <2>4
<1>3. CASE NoFacts(c)
  <2>1. At(phase.step) /\ stop' \in BOOLEAN
    BY <1>0, <1>3, IsAt DEF NoFacts
  <2> QED BY <1>3, <2>1, Fails DEF NoFacts, At, StateOK
<1>4. ASSUME NEW u, Performed(u, c) PROVE Inv'
  <2>1. /\ phase' = Executing(phase.step, Tail(phase.queue), FALSE) /\ stop' \in BOOLEAN
        /\ journal' = [journal EXCEPT ![phase.step] = Append(@, u)]
        /\ UNCHANGED <<doubts, verdict, after, causes, outcomes, failures, report>>
    BY <1>0, <1>4 DEF Performed
  <2>2. At(phase.step) /\ doubts[phase.step] = <<>>
    BY <1>4, IsAt DEF Performed, Performing
  <2> PICK s \in Steps : s = phase.step
    BY <2>2 DEF At
  <2>3. StateOK' /\ Blamed' /\ Going'
    BY <2>1, <2>2 DEF At, StateOK, Blamed, Going
  <2>4. \A t \in Steps : t # s => journal'[t] = journal[t]
    BY <2>1, <2>2 DEF At, StateOK
  <2>5. Passed(s)' /\ Untouched(s + 1)'
    BY <2>1, <2>2, <2>4 DEF At, Passed, Judged, Complete, Untouched
  <2> QED BY <2>1, <2>2, <2>3, <2>5, ToExecuting DEF At
<1>5. ASSUME NEW u, Performing
      PROVE  /\ At(phase.step) /\ DOMAIN in_doubt(u) = Steps
             /\ \A t \in Steps : t # phase.step => in_doubt(u)[t] = doubts[t]
  <2>1. At(phase.step)
    BY <1>5, IsAt DEF Performing
  <2> QED BY <2>1 DEF in_doubt, At, StateOK
<1>6. ASSUME NEW u, PerformFailed(u, c) PROVE Inv'
  BY <1>0, <1>5, <1>6, Fails DEF PerformFailed
<1>7. ASSUME NEW u, PerformCancelled(u) PROVE Inv'
  BY <1>5, <1>7, Cancels DEF PerformCancelled
<1>8. ASSUME NEW ok \in BOOLEAN, Undone(ok, c) PROVE Inv'
  <2>1. /\ phase.at = "RollingBack" /\ phase.current # NoStep /\ stop' \in BOOLEAN
        /\ phase' = IF phase.doubting
                    THEN [phase EXCEPT !.awaiting = FALSE, !.doubting = FALSE, !.doubtful = Tail(@)]
                    ELSE [phase EXCEPT !.awaiting = FALSE, !.queue = Tail(@)]
        /\ failures' = IF ok \/ phase.doubting THEN failures ELSE failures \cup {phase.current}
        /\ UNCHANGED <<journal, doubts, verdict, after, causes, outcomes, report>>
    BY <1>0, <1>8 DEF Undone, Reverting, popped
  <2>2. /\ phase'.at = "RollingBack" /\ phase'.remaining = phase.remaining
        /\ phase'.current = phase.current /\ phase'.awaiting \in BOOLEAN
        /\ phase'.doubting \in BOOLEAN /\ Shape'
    <3>1. CASE phase.doubting
      BY <2>1, <3>1 DEF Inv, Shape
    <3>2. CASE ~phase.doubting
      BY <2>1, <3>2 DEF Inv, Shape, RunnerTypeOK, PhaseOK
    <3> QED BY <3>1, <3>2
  <2>3. failures' \subseteq Steps
    BY <2>1 DEF Inv, RunnerTypeOK, PhaseOK, StateOK
  <2> QED BY <2>1, <2>2, <2>3, StillRollingBack
<1>9. ASSUME CommitAsked, phase' = Closing, stop' \in BOOLEAN,
             verdict' \in {"Succeeded", "Failed", "Cancelled"},
             verdict' = "Succeeded" => verdict = "Succeeded",
             UNCHANGED <<journal, doubts, after, causes, outcomes, failures, report>>
      PROVE  Inv'
  <2>1. /\ Settling /\ Whole /\ Earned(verdict) /\ StateOK /\ Blamed /\ after = Close
    BY <1>9 DEF Inv, RunnerTypeOK, InEnding, Returned, CommitAsked
  <2>2. StateOK' /\ Blamed' /\ Settling' /\ Whole' /\ Earned(verdict)'
    BY <1>9, <2>1 DEF StateOK, Blamed, Settling, Whole, Complete, Earned
  <2> QED BY <1>9, <2>1, <2>2, ToClosing
<1>10. CASE Committed(c)
  <2>1. CommitAsked /\ verdict \in {"Succeeded", "Failed", "Cancelled"}
    BY <1>10 DEF Committed, CommitAsked, Inv, RunnerTypeOK, StateOK, InEnding
  <2> QED BY <1>0, <1>9, <1>10, <2>1 DEF Committed, or_insert
<1>11. CASE CommitCancelled
  <2>1. CommitAsked /\ verdict \in {"Succeeded", "Failed", "Cancelled"}
    BY <1>11 DEF CommitCancelled, CommitAsked, Inv, RunnerTypeOK, StateOK, InEnding
  <2> QED BY <1>9, <1>11, <2>1 DEF CommitCancelled
<1> QED BY <1>1, <1>2, <1>3, <1>4, <1>6, <1>7, <1>8, <1>10, <1>11

(* Every transition keeps the invariant.                                    *)
LEMMA NextInv == ASSUME Inv, [RunnerNext]_runnerVars PROVE Inv'
<1>1. CASE Internal
  BY <1>1, CheckingInv, ExecutingInv, RollingBackInv, EndingInv DEF Internal
<1>2. CASE Answer
  BY <1>2, AnswerInv
<1>3. CASE UNCHANGED runnerVars
  BY <1>3 DEF runnerVars, Inv, RunnerTypeOK, PhaseOK, StateOK, Shape, Blamed,
     InOpening, InChecking, InExecuting, InRollingBack, InEnding, Returned, Going,
     Passed, Judged, Untouched, Owed, Resuming, Settling, Whole, Earned, Complete
<1> QED BY <1>1, <1>2, <1>3 DEF RunnerNext, Over

(* Runner::step keeps the invariant of every phase.                        *)
THEOREM RunnerInvariant == RunnerSpec => []Inv
<1>1. RunnerInit => Inv
  BY InitInv
<1>2. Inv /\ [RunnerNext]_runnerVars => Inv'
  BY NextInv
<1> QED BY <1>1, <1>2, PTL DEF RunnerSpec

(* The state of the runner has the types of its struct at all times.       *)
THEOREM RunnerTypes == RunnerSpec => []RunnerTypeOK
<1>1. Inv => RunnerTypeOK
  BY DEF Inv
<1> QED BY <1>1, RunnerInvariant, PTL

(* A whole plan ends carried through or with every undo taken out of the   *)
(* journal for the rollback, however it failed or was stopped.             *)
THEOREM WholePlans == RunnerSpec => []PlanIsAtomic
<1>1. Inv => PlanIsAtomic
  BY DEF Inv, PlanIsAtomic, InEnding, Settling, Whole, Closed
<1> QED BY <1>1, RunnerInvariant, PTL

(* A closed run keeps undos of carried through steps only, and no doubt.   *)
THEOREM IndependentSteps == RunnerSpec => []StepsAreAtomic
<1>1. Inv => StepsAreAtomic
  BY DEF Inv, StepsAreAtomic, InEnding, Settling, Closed
<1> QED BY <1>1, RunnerInvariant, PTL

(* The rollback of a whole plan goes strictly backwards.                   *)
THEOREM Backwards == RunnerSpec => []NewestStepFirst
<1>1. ASSUME Inv, phase.at = "RollingBack", phase.current # NoStep, ~Independent,
             NEW s \in Steps, s >= phase.current
      PROVE  journal[s] = <<>> /\ doubts[s] = <<>>
  <2>1. s \notin phase.remaining
    BY <1>1 DEF Inv, InRollingBack, RunnerTypeOK, PhaseOK
  <2> QED BY <1>1, <2>1 DEF Inv, InRollingBack, Owed
<1>2. Inv => NewestStepFirst
  BY <1>1 DEF NewestStepFirst
<1> QED BY <1>2, RunnerInvariant, PTL

(* Success is reported only if every step was carried through.             *)
THEOREM TrueSuccess == RunnerSpec => []SuccessIsComplete
<1>1. Inv => SuccessIsComplete
  BY DEF Inv, SuccessIsComplete, InEnding, Earned, Closed
<1> QED BY <1>1, RunnerInvariant, PTL

-----------------------------------------------------------------------------
(* What one transition can do.                                             *)

Busy == Asked \/ phase.at = "Executing"

(* Only four transitions lead to a query or an action of a step.            *)
LEMMA Moves ==
  ASSUME Inv, [RunnerNext]_runnerVars
  PROVE  \/ UNCHANGED runnerVars
         \/ Ask \/ Act
         \/ \E q \in Plans[phase.step] : \E c \in BOOLEAN : Facts(q, c)
         \/ \E u : \E c \in BOOLEAN : Performed(u, c)
         \/ ~Busy'
<1>1. CASE Internal
  <2>1. ASSUME phase'.at \in {"RollingBack", "Committing", "Closing", "Closed"} PROVE ~Busy'
    BY <2>1 DEF Busy, Asked
  <2>2. ASSUME NEW n, phase' = Checking(n, FALSE) PROVE ~Busy'
    BY <2>2 DEF Busy, Asked, Checking
  <2>3. ASSUME NEW R, phase' = RollingBack(R) PROVE ~Busy'
    BY <2>1, <2>3 DEF RollingBack
  <2>4. ASSUME finish_or_commit \/ phase' = Closing PROVE ~Busy'
    BY <2>1, <2>4 DEF finish_or_commit, Closing, CommittingPhase
  <2>5. ASSUME NEW s, cancel(doubts, s) PROVE ~Busy'
    BY <2>3, <2>4, <2>5 DEF cancel, roll_back, roll_back_only
  <2>6. CASE Advance \/ AfterRollback
    BY <2>2, <2>4, <2>6 DEF Advance, AfterRollback
  <2>7. CASE CancelBeforeStep \/ CancelStep
    BY <2>5, <2>7 DEF CancelBeforeStep, CancelStep
  <2>8. CASE Block \/ FinishStep
    BY <2>2, <2>8 DEF Block, FinishStep, next_step
  <2>9. CASE UndoStep \/ UndoAct \/ UndoneStep
    <3>1. phase.at = "RollingBack"
      BY <2>9 DEF UndoStep, UndoAct, UndoneStep, Resting, Undoing
    <3>2. \/ phase'.at = phase.at
          \/ phase' = RollingBack(phase.remaining)
      <4>1. CASE UndoStep
        BY <3>1, <4>1 DEF UndoStep, Inv, Shape
      <4>2. CASE UndoAct
        BY <3>1, <4>2 DEF UndoAct, Inv, Shape
      <4>3. CASE UndoneStep
        BY <4>3 DEF UndoneStep
      <4> QED BY <2>9, <4>1, <4>2, <4>3
    <3> QED BY <2>1, <2>3, <3>1, <3>2
  <2>10. CASE StartCommit \/ Finish
    BY <2>1, <2>10 DEF StartCommit, Finish, CommittingPhase, Closed
  <2> QED BY <1>1, <2>6, <2>7, <2>8, <2>9, <2>10 DEF Internal
<1>2. CASE Answer
  <2>1. ASSUME phase'.at \in {"RollingBack", "Committing", "Closing", "Closed"} PROVE ~Busy'
    BY <2>1 DEF Busy, Asked
  <2>2. ASSUME NEW R, phase' = RollingBack(R) PROVE ~Busy'
    BY <2>1, <2>2 DEF RollingBack
  <2>3. ASSUME finish_or_commit \/ phase' = Closing PROVE ~Busy'
    BY <2>1, <2>3 DEF finish_or_commit, Closing, CommittingPhase
  <2>4. ASSUME NEW s, NEW d, cancel(d, s) \/ fail(d, s) PROVE ~Busy'
    BY <2>2, <2>3, <2>4 DEF cancel, fail, roll_back, roll_back_only
  <2>5. ASSUME NEW c \in BOOLEAN, Open(c) PROVE ~Busy'
    BY <2>5 DEF Open, Checking, Busy, Asked
  <2>6. ASSUME NEW c \in BOOLEAN, NEW u,
               NoFacts(c) \/ PerformFailed(u, c) \/ PerformCancelled(u)
        PROVE  ~Busy'
    BY <2>4, <2>6 DEF NoFacts, PerformFailed, PerformCancelled
  <2>7. ASSUME NEW c \in BOOLEAN, NEW ok \in BOOLEAN, Undone(ok, c) PROVE ~Busy'
    <3>1. phase'.at = "RollingBack"
      <4>1. /\ phase.at = "RollingBack" /\ Shape
            /\ \/ phase' = [phase EXCEPT !.awaiting = FALSE, !.doubting = FALSE, !.doubtful = Tail(@)]
               \/ phase' = [phase EXCEPT !.awaiting = FALSE, !.queue = Tail(@)]
        BY <2>7 DEF Undone, Reverting, popped, Inv
      <4> QED BY <4>1 DEF Shape
    <3> QED BY <2>1, <3>1
  <2>8. ASSUME NEW c \in BOOLEAN, Committed(c) \/ CommitCancelled PROVE ~Busy'
    BY <2>3, <2>8 DEF Committed, CommitCancelled
  <2> QED BY <1>2, <2>5, <2>6, <2>7, <2>8 DEF Answer
<1> QED BY <1>1, <1>2 DEF RunnerNext, Over

(* A stop is heeded: only Act has an action performed, and it looks first. *)
THEOREM StopsAreHeeded == RunnerSpec => NothingStartsAfterStop
<1>1. ASSUME Inv, [RunnerNext]_runnerVars, stop, ~Performing, Performing'
      PROVE  phase.step \in Shielded
  <2>1. CASE UNCHANGED runnerVars
    BY <1>1, <2>1 DEF runnerVars, Performing
  <2>2. CASE Ask
    BY <1>1, <2>2 DEF Ask
  <2>3. CASE Act
    BY <1>1, <2>3 DEF Act, cut
  <2>4. ASSUME NEW q, NEW c \in BOOLEAN, Facts(q, c) PROVE ~Performing'
    BY <2>4 DEF Facts, next_step, Performing, Checking, Executing
  <2>5. ASSUME NEW u, NEW c \in BOOLEAN, Performed(u, c) PROVE ~Performing'
    BY <2>5 DEF Performed, Performing, Executing
  <2>6. CASE ~Busy'
    BY <1>1, <2>6 DEF Busy, Performing
  <2> QED BY <1>1, <2>1, <2>2, <2>3, <2>4, <2>5, <2>6, Moves
<1>2. Inv /\ [RunnerNext]_runnerVars
        => [(stop /\ ~Performing /\ Performing') => phase.step \in Shielded]_runnerVars
  BY <1>1
<1> QED BY <1>2, RunnerInvariant, PTL DEF RunnerSpec, NothingStartsAfterStop

(* A transition records the outcome of the step at hand, or none.          *)
LEMMA OneOutcome ==
  ASSUME Inv, [RunnerNext]_runnerVars
  PROVE  \/ outcomes' = outcomes
         \/ \E o : /\ phase.at \in {"Checking", "Executing"} /\ phase.step \in Steps
                   /\ record(phase.step, o)
                   /\ o \in {"Satisfied", "Changed"} => Busy
                   /\ o = "Cancelled" => phase.step \notin Shielded
<1>1. phase.at = "Checking" => phase.step \in 0..N
  BY DEF Inv, RunnerTypeOK, PhaseOK
<1>2. Busy => phase.at \in {"Checking", "Executing"} /\ phase.step \in Steps
  BY IsAt DEF Busy, At, Asked
<1>3. CASE Internal
  <2>1. CASE Block
    BY <1>1, <2>1 DEF Block
  <2>2. CASE CancelStep
    BY <1>2, <2>2 DEF CancelStep, cut, Busy
  <2>3. CASE FinishStep
    BY <1>2, <2>3 DEF FinishStep, Busy
  <2>4. CASE Advance \/ CancelBeforeStep \/ Ask \/ Act
    BY <2>4 DEF Advance, CancelBeforeStep, Ask, Act
  <2>5. CASE AfterRollback \/ UndoStep \/ UndoAct \/ UndoneStep \/ StartCommit \/ Finish
    BY <2>5 DEF AfterRollback, UndoStep, UndoAct, UndoneStep, StartCommit, Finish
  <2> QED BY <1>3, <2>1, <2>2, <2>3, <2>4, <2>5 DEF Internal
<1>4. CASE Answer
  <2>1. ASSUME NEW c \in BOOLEAN, NEW q, Facts(q, c)
        PROVE  \/ outcomes' = outcomes
               \/ Busy /\ record(phase.step, "Satisfied")
    BY <2>1 DEF Facts, Busy
  <2>2. ASSUME NEW c \in BOOLEAN, NEW u, NoFacts(c) \/ PerformFailed(u, c)
        PROVE  Busy /\ record(phase.step, "Failed")
    BY <2>2 DEF NoFacts, PerformFailed, fail, Busy, Performing
  <2>3. ASSUME NEW u, ~shielded, PerformCancelled(u)
        PROVE  Busy /\ record(phase.step, "Cancelled") /\ phase.step \notin Shielded
    BY <2>3 DEF PerformCancelled, Performing, shielded, Busy
  <2>4. ASSUME NEW c \in BOOLEAN, NEW u, NEW ok \in BOOLEAN,
               Open(c) \/ Performed(u, c) \/ Undone(ok, c) \/ Committed(c) \/ CommitCancelled
        PROVE  outcomes' = outcomes
    BY <2>4 DEF Open, Performed, Undone, Committed, CommitCancelled
  <2> QED BY <1>2, <1>4, <2>1, <2>2, <2>3, <2>4 DEF Answer
<1> QED BY <1>3, <1>4 DEF RunnerNext, Over, runnerVars

(* A shielded step is never cancelled: the runner does not look at the     *)
(* stop and no driver may answer Cancelled.                                *)
THEOREM ShieldsHold == RunnerSpec => []ShieldedStepsAreNotCut
<1>1. RunnerInit => ShieldedStepsAreNotCut
  BY DEF RunnerInit, ShieldedStepsAreNotCut
<1>2. ASSUME Inv, ShieldedStepsAreNotCut, [RunnerNext]_runnerVars
      PROVE  ShieldedStepsAreNotCut'
  <2>1. CASE outcomes' = outcomes
    BY <1>2, <2>1 DEF ShieldedStepsAreNotCut
  <2>2. ASSUME NEW o, phase.step \in Steps, record(phase.step, o),
               o = "Cancelled" => phase.step \notin Shielded
        PROVE  ShieldedStepsAreNotCut'
    BY <1>2, <2>2 DEF ShieldedStepsAreNotCut, record, Inv, RunnerTypeOK, StateOK
  <2> QED BY <1>2, <2>1, <2>2, OneOutcome
<1> QED BY <1>1, <1>2, RunnerInvariant, PTL DEF RunnerSpec

(* No step carried through has an earlier dependency that failed or was    *)
(* blocked; the step at hand has no dependency with a cause at all.        *)
Clean(s) ==
    \A i \in DOMAIN Deps[s] :
      Deps[s][i] < s => outcomes[Deps[s][i]] \notin {"Failed", "Blocked"}

Cleared ==
    /\ \A s \in Steps : Complete(s) => Clean(s)
    /\ Busy => ~caused(phase.step)

(* A step none of whose dependencies has a cause is clean.                  *)
LEMMA StepCleared ==
  ASSUME Inv, NEW s \in Steps, ~caused(s)
  PROVE  Clean(s)
<1> SUFFICES ASSUME NEW i \in DOMAIN Deps[s]
             PROVE  outcomes[Deps[s][i]] \notin {"Failed", "Blocked"}
  BY DEF Clean
<1>1. Deps[s][i] \in Steps /\ causes[Deps[s][i]] = NoStep
  BY DEF caused
<1> QED BY <1>1 DEF Inv, Blamed

(* The outcome of a step at or after s does not concern s.                  *)
LEMMA CleanKept ==
  ASSUME NEW s \in Steps, Clean(s), NEW n \in Steps, s <= n,
         \A t \in Steps : t # n => outcomes'[t] = outcomes[t]
  PROVE  Clean(s)'
<1> SUFFICES ASSUME NEW i \in DOMAIN Deps[s], Deps[s][i] < s
             PROVE  outcomes'[Deps[s][i]] \notin {"Failed", "Blocked"}
  BY DEF Clean
<1> PICK t \in Steps : t = Deps[s][i]
  OBVIOUS
<1>1. t # n
  OBVIOUS
<1> QED BY <1>1 DEF Clean

(* Cleared is kept by every transition.                                     *)
LEMMA ClearedKept ==
  ASSUME Inv, Cleared, [RunnerNext]_runnerVars
  PROVE  Cleared'
<1>1. Busy' => ~caused(phase.step)'
  <2>1. CASE UNCHANGED runnerVars
    BY <2>1 DEF runnerVars, Cleared, Busy, Asked, caused
  <2>2. CASE Ask
    BY <2>2 DEF Ask, caused, Checking
  <2>3. CASE Act
    BY <2>3 DEF Act, caused, Executing, Cleared, Busy
  <2>4. ASSUME NEW q, NEW c \in BOOLEAN, Facts(q, c), Busy'
        PROVE ~caused(phase.step)'
    <3>1. Asked /\ causes' = causes /\ ~caused(phase.step)
      BY <2>4 DEF Facts, Cleared, Busy
    <3>2. q # <<>> => phase'.step = phase.step
      BY <2>4 DEF Facts, Executing
    <3>3. ASSUME NEW n, phase' = Checking(n, FALSE) PROVE FALSE
      BY <2>4, <3>3 DEF Busy, Asked, Checking
    <3>4. q # <<>>
      BY <2>4, <3>3 DEF Facts, next_step
    <3> QED BY <3>1, <3>2, <3>4 DEF caused
  <2>5. ASSUME NEW u, NEW c \in BOOLEAN, Performed(u, c)
        PROVE  ~caused(phase.step)'
    BY <2>5 DEF Performed, Performing, caused, Executing, Cleared, Busy
  <2> QED BY <2>1, <2>2, <2>3, <2>4, <2>5, Moves
<1>2. ASSUME NEW s \in Steps, Complete(s)'
      PROVE  Clean(s)'
  <2>1. CASE outcomes' = outcomes
    BY <1>2, <2>1 DEF Cleared, Complete, Clean
  <2>2. ASSUME NEW o, phase.at \in {"Checking", "Executing"}, phase.step \in Steps,
               record(phase.step, o), o \in {"Satisfied", "Changed"} => Busy
        PROVE  Clean(s)'
    <3> PICK n \in Steps : n = phase.step
      BY <2>2
    <3>1. /\ outcomes'[n] = o
          /\ \A t \in Steps : t # n => outcomes'[t] = outcomes[t]
      BY <2>2 DEF record, Inv, RunnerTypeOK, StateOK
    <3>2. Untouched(n + 1)
      BY <2>2 DEF Inv, InChecking, InExecuting, Untouched
    <3>3. CASE s = n
      <4>1. ~caused(s)
        BY <1>2, <2>2, <3>1, <3>3 DEF Complete, Cleared
      <4>2. Clean(s) /\ s <= n
        BY <3>3, <4>1, StepCleared
      <4> QED BY <3>1, <4>2, CleanKept
    <3>4. CASE s # n
      <4>1. Complete(s)
        BY <1>2, <3>1, <3>4 DEF Complete
      <4>2. s >= n + 1 => outcomes[s] = "None"
        BY <3>2 DEF Untouched
      <4>3. s <= n
        BY <4>1, <4>2 DEF Complete
      <4> QED BY <3>1, <4>1, <4>3, CleanKept DEF Cleared
    <3> QED BY <3>3, <3>4
  <2> QED BY <2>1, <2>2, OneOutcome
<1> QED BY <1>1, <1>2 DEF Cleared

(* No step is carried through after a dependency failed or was blocked,    *)
(* and a blocked step names a step that failed.                            *)
THEOREM Dependencies == RunnerSpec => []DependenciesHold
<1>1. RunnerInit => Cleared
  BY DEF RunnerInit, Cleared, Complete, Busy, Asked, Opening
<1>2. Inv /\ Cleared /\ [RunnerNext]_runnerVars => Cleared'
  BY ClearedKept
<1>3. Inv /\ Cleared => DependenciesHold
  BY DEF DependenciesHold, Cleared, Clean, Inv, Blamed
<1> QED BY <1>1, <1>2, <1>3, RunnerInvariant, PTL DEF RunnerSpec
=============================================================================
