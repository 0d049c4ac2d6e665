------------------------------- MODULE Stream -------------------------------
(***************************************************************************)
(* A request as its client sees it: host() (crates/shell/src/request/mod.rs)*)
(* opens the root of the event tree, waits for a lock, finishes what was   *)
(* interrupted and lets the operation run; the runner (Runner.tla) tells   *)
(* the tree what it does, drive() adds what actions report, and the        *)
(* delivery task (crates/shell/src/request/delivery.rs) passes everything  *)
(* in the outbox on, at any time, to the readers.                          *)
(***************************************************************************)
EXTENDS Runner, Validate, Screen


CONSTANTS
    Readings,       \* the gauge troubles an action may report
    MaxTroubles,    \* bound: reports, failures and stops of a request
    Live, Wide,     \* the client has a terminal; a bar fits on it
    Level,          \* how much it shows: "Step" or "Action"
    MaxPreludes     \* bound: waits and recoveries before the plan

VARIABLES
    at,         \* where host() is
    stopped,    \* the scope has been stopped
    announced,  \* drive's stopping: Stopping was told
    channel,    \* what actions and queries reported, not yet told
    troubles,   \* how many reports, failures and stops there were
    tree,       \* the event tree and its outbox
    node,       \* the nodes host and the runner hold on to
    validator, screen, audit,   \* the readers
    exitCode,   \* what the client ends with: render's Exit
    acted       \* history: step, undo and how of every action that ended

hostVars == <<at, stopped, announced, channel, troubles>>
readerVars == <<validator, screen, audit, exitCode>>
streamVars == <<runnerVars, hostVars, tree, node, readerVars, acted>>

NoExit == 255

StepKey(s) == <<"step", s>>
PlanKeys == [i \in 1..N |-> StepKey(i - 1)]

StreamInit ==
    /\ RunnerInit
    /\ at = "Locking"
    /\ stopped = FALSE /\ announced = FALSE
    /\ channel = <<>> /\ troubles = 0
    /\ tree = NewTree(Start(<<"request">>, "Command"))
    /\ node = [plan |-> NoNode, steps |-> [s \in Steps |-> NoNode], acting |-> NoNode,
               undoing |-> NoNode, reclaim |-> NoNode, waiting |-> NoNode, performed |-> 0]
    /\ validator = NewValidator
    /\ screen = NewScreen(Live, Wide, Level)
    /\ audit = NewAudit
    /\ exitCode = NoExit
    /\ acted = <<>>

-----------------------------------------------------------------------------
(* What host() tells by itself.                                            *)

trouble ==
    /\ troubles < MaxTroubles
    /\ troubles' = troubles + 1

Busy == at \notin {"Over", "Unwound"}

(* tree.finish(ROOT, ..), its answer ignored, then drop(tree).             *)
conclude(t, e, problems_remain) ==
    IF is_open(t, ROOT) /\ t.open[ROOT].children = 0
    THEN finish(t, ROOT, for_root(e, problems_remain))
    ELSE dropped(t, stopped)

Refusal == IF stopped THEN {Ending("Failed"), CancelledEnding} ELSE {Ending("Failed")}

(* The scope is only looked at when drive() has an answer in hand or waits *)
(* for one: a stop that comes in between is as good as one at the next     *)
(* wait.                                                                   *)
Waits == at # "Running" \/ Asked \/ node.acting # NoNode

Interrupt ==
    /\ Busy /\ ~stopped /\ Waits
    /\ stopped' = TRUE
    /\ trouble
    /\ UNCHANGED <<runnerVars, at, announced, channel, tree, node, readerVars, acted>>

Acquire ==
    /\ at = "Locking"
    /\ at' = "Held"
    /\ UNCHANGED <<runnerVars, stopped, announced, channel, troubles, tree, node, readerVars, acted>>

Preludes == Cardinality(tree.open[ROOT].used)

start_wait ==
    /\ at = "Locking" /\ Preludes < MaxPreludes
    /\ at' = "Waiting"
    /\ tree' = start(tree, ROOT, Start(IF <<"machine-lock">> \in tree.open[ROOT].used
                                      THEN <<"user-lock">> ELSE <<"machine-lock">>, "LockWait"))
    /\ node' = [node EXCEPT !.waiting = tree.next]
    /\ UNCHANGED <<runnerVars, stopped, announced, channel, troubles, readerVars, acted>>

WaitEnds ==
    /\ at = "Waiting"
    /\ \/ /\ at' = "Locking"
          /\ tree' = finish(tree, node.waiting, Ending("Succeeded"))
          /\ UNCHANGED troubles
       \/ /\ trouble
          /\ at' = "Over"
          /\ tree' = conclude(finish(tree, node.waiting, Ending("Failed")), Ending("Failed"), FALSE)
       \/ /\ stopped
          /\ UNCHANGED troubles
          /\ at' = "Over"
          /\ tree' = conclude(finish(tree, node.waiting, CancelledEnding), CancelledEnding, FALSE)
    /\ UNCHANGED <<runnerVars, stopped, announced, channel, node, readerVars, acted>>

Free == at \in {"Held", "Ready"}

Refuse ==           \* no lock, no user, an error before the plan, Root::refuse
    /\ at = "Locking" \/ Free
    /\ at' = "Over"
    /\ \E e \in Refusal : tree' = conclude(tree, e, FALSE)
    /\ UNCHANGED <<runnerVars, stopped, announced, channel, troubles, node, readerVars, acted>>

StartRecovery ==    \* recover_interrupted
    /\ at = "Held" /\ Preludes < MaxPreludes
    /\ at' = "Recovering"
    /\ tree' = start(tree, ROOT, Start(<<"recover">>, "Step"))
    /\ node' = [node EXCEPT !.waiting = tree.next]
    /\ UNCHANGED <<runnerVars, stopped, announced, channel, troubles, readerVars, acted>>

EndRecovery ==
    /\ at = "Recovering"
    /\ at' = "Ready"
    /\ \/ /\ UNCHANGED troubles
          /\ tree' = finish(tree, node.waiting, Ending("Succeeded"))
       \/ /\ trouble
          /\ tree' = finish(warn(tree, node.waiting), node.waiting, Ending("Succeeded"))
    /\ UNCHANGED <<runnerVars, stopped, announced, channel, node, readerVars, acted>>

(* mix doctor: one inspection after another under a plan of its own.       *)

StartAudit ==
    /\ Free
    /\ at' = "Auditing"
    /\ tree' = start(tree, ROOT, Planned(Start(<<"audit">>, "Plan"), PlanKeys))
    /\ node' = [node EXCEPT !.plan = tree.next]
    /\ UNCHANGED <<runnerVars, stopped, announced, channel, troubles, readerVars, acted>>

Inspected(s) == StepKey(s) \in tree.open[node.plan].used

Inspect ==
    /\ at = "Auditing"
    /\ \E s \in Steps :
         /\ ~Inspected(s) /\ \A r \in 0..(s - 1) : Inspected(r)
         /\ \/ tree' = finish(start(tree, node.plan, Start(StepKey(s), "Inspection")),
                             tree.next, Ending("Succeeded"))
            \/ /\ Deps[s] # <<>>
               /\ tree' = blocked(tree, node.plan, StepKey(s), StepKey(Deps[s][1]))
    /\ UNCHANGED <<runnerVars, hostVars, node, readerVars, acted>>

EndAudit ==
    /\ at = "Auditing"
    /\ \A s \in Steps : Inspected(s)
    /\ at' = "Over"
    /\ \E problems_remain \in BOOLEAN :
         tree' = conclude(finish(tree, node.plan, Ending("Succeeded")),
                          Ending("Succeeded"), problems_remain)
    /\ UNCHANGED <<runnerVars, stopped, announced, channel, troubles, node, readerVars, acted>>

(* The request unwinds with whatever is open: a panic in what it waits for.*)
Unwind ==
    /\ Busy /\ Waits
    /\ trouble
    /\ at' = "Unwound"
    /\ tree' = dropped(tree, stopped)
    /\ UNCHANGED <<runnerVars, stopped, announced, channel, node, readerVars, acted>>

-----------------------------------------------------------------------------
(* What the runner tells.                                                  *)

Running == at = "Running"

(* drive's loop looks at the scope before it calls step(): a stop that the *)
(* runner can still heed is announced once.                                *)
cancellable ==
    CASE phase.at = "Checking" -> phase.step < N
      [] phase.at = "Executing" -> phase.step \notin Shielded \/ phase.step + 1 < N
      [] OTHER -> phase.at \in {"Opening", "RollingBack"}

announces == stopped /\ cancellable /\ ~announced
heard(t) == IF announces THEN progress(t, ROOT, Stopping) ELSE t
Hear == announced' = (announced \/ announces)

(* current_node: where reports go.                                         *)
current_node == node.acting

apply(t, reading) == progress(t, current_node, Builds(reading))
Reported == FoldEvents(apply, tree, channel)

act(t, parent) == start(t, parent, Start(<<"action", node.performed + 1>>, "Action"))
Acting(t) == [node EXCEPT !.acting = t.next, !.performed = @ + 1]

acted_with(t, how) ==
    finish(t, node.acting, IF how = "Cancelled" THEN CancelledEnding ELSE Ending(how))

(* What an action that ends leaves: all it reported, then its own end.     *)
ActEnded(how) == acted_with(heard(Reported), how)
Note(key, undo, how) == acted' = Append(acted, [step |-> key, undo |-> undo, status |-> how])
TakesIn == channel' = <<>> /\ Hear

TellOpen ==
    /\ Free
    /\ at' = "Running"
    /\ Open(stopped) /\ Hear
    /\ tree' = start(heard(tree), ROOT, Planned(Start(<<"plan">>, "Plan"), PlanKeys))
    /\ node' = [node EXCEPT !.plan = heard(tree).next]
    /\ UNCHANGED <<stopped, channel, troubles, readerVars, acted>>

Untold == Advance \/ CancelBeforeStep \/ Ask \/ AfterRollback

TellNothing ==
    /\ Running
    /\ Untold
    /\ UNCHANGED <<hostVars, tree, node, readerVars, acted>>

TellBlock ==
    /\ Running
    /\ Block
    /\ tree' = blocked(tree, node.plan, StepKey(phase.step), StepKey(causes'[phase.step]))
    /\ UNCHANGED <<hostVars, node, readerVars, acted>>

StepStarts(t) == start(t, node.plan, Start(StepKey(phase.step), "Step"))
StepNode(t) == node' = [node EXCEPT !.steps[phase.step] = t.next]

TellFacts ==
    /\ Running /\ Asked
    /\ \E q \in Plans[phase.step] :
         /\ Facts(q, stopped)
         /\ tree' = IF q = <<>> THEN finish(StepStarts(heard(tree)), heard(tree).next,
                                            Ending("AlreadySatisfied"))
                    ELSE StepStarts(heard(tree))
    /\ StepNode(heard(tree)) /\ Hear
    /\ UNCHANGED <<at, stopped, channel, troubles, readerVars, acted>>

TellNoFacts ==
    /\ Running
    /\ NoFacts(stopped) /\ Hear /\ trouble
    /\ tree' = finish(StepStarts(heard(tree)), heard(tree).next, Ending("Failed"))
    /\ StepNode(heard(tree))
    /\ UNCHANGED <<at, stopped, channel, readerVars, acted>>

current == node.steps[phase.step]

TellStepEnd ==
    /\ Running
    /\ \/ CancelStep /\ tree' = finish(tree, current, CancelledEnding)
       \/ FinishStep /\ tree' = finish(tree, current, Ending("Succeeded"))
    /\ UNCHANGED <<hostVars, node, readerVars, acted>>

TellAct ==
    /\ Running
    /\ Act
    /\ tree' = act(tree, current)
    /\ node' = Acting(tree)
    /\ UNCHANGED <<hostVars, readerVars, acted>>

ActOver == node' = [node EXCEPT !.acting = NoNode]

fails(how) == IF how = "Failed" THEN trouble ELSE UNCHANGED troubles

TellPerformed ==
    /\ Running
    /\ \E u \in UndoLists, how \in {"Succeeded", "Failed", "Cancelled"} :
         /\ \/ /\ how = "Succeeded" /\ Performed(u, stopped)
               /\ tree' = ActEnded(how)
            \/ /\ how = "Failed" /\ PerformFailed(u, stopped)
               /\ tree' = finish(ActEnded(how), current, Ending("Failed"))
            \/ /\ how = "Cancelled" /\ stopped /\ ~shielded /\ PerformCancelled(u)
               /\ tree' = finish(ActEnded(how), current, CancelledEnding)
         /\ Note(StepKey(phase.step), FALSE, how)
         /\ fails(how)
    /\ TakesIn /\ ActOver
    /\ UNCHANGED <<at, stopped, readerVars>>

TellUndoStep ==
    /\ Running
    /\ UndoStep
    /\ LET s == phase'.current
       IN tree' = start(tree, node.plan,
                        Rollback(Start(<<"rollback", s>>, "Rollback"), node.steps[s]))
    /\ node' = [node EXCEPT !.undoing = tree.next]
    /\ UNCHANGED <<hostVars, readerVars, acted>>

TellUndoAct ==
    /\ Running
    /\ UndoAct
    /\ tree' = act(tree, node.undoing)
    /\ node' = Acting(tree)
    /\ UNCHANGED <<hostVars, readerVars, acted>>

TellUndone ==
    /\ Running
    /\ \E ok \in BOOLEAN :
         LET how == IF ok THEN "Succeeded" ELSE "Failed"
         IN /\ Undone(ok, stopped)
            /\ tree' = ActEnded(how)
            /\ Note(StepKey(phase.current), TRUE, how)
            /\ fails(how)
    /\ TakesIn /\ ActOver
    /\ UNCHANGED <<at, stopped, readerVars>>

TellUndoneStep ==
    /\ Running
    /\ UndoneStep
    /\ tree' = finish(tree, node.undoing,
                      Ending(IF phase.current \in failures THEN "Failed" ELSE "Succeeded"))
    /\ node' = [node EXCEPT !.undoing = NoNode]
    /\ UNCHANGED <<hostVars, readerVars, acted>>

TellCommit ==
    /\ Running
    /\ StartCommit
    /\ LET t == IF reclaims THEN start(tree, node.plan, Start(<<"reclaim">>, "Step")) ELSE tree
           parent == IF reclaims THEN tree.next ELSE node.plan
       IN /\ tree' = act(t, parent)
          /\ node' = [Acting(t) EXCEPT !.reclaim = IF reclaims THEN tree.next ELSE NoNode]
    /\ UNCHANGED <<hostVars, readerVars, acted>>

(* The commit's own end, that of the reclaiming it was shown as, and a     *)
(* warning if it failed.                                                   *)
CommitEnds(how) ==
    LET e == IF how = "Cancelled" THEN CancelledEnding ELSE Ending(how)
        t == IF node.reclaim = NoNode THEN ActEnded(how) ELSE finish(ActEnded(how), node.reclaim, e)
    IN /\ tree' = IF how = "Failed" THEN warn(t, node.plan) ELSE t
       /\ Note(IF node.reclaim = NoNode THEN <<>> ELSE <<"reclaim">>, FALSE, how)
       /\ fails(how)

TellCommitted ==
    /\ Running
    /\ \/ \E how \in {"Succeeded", "Failed"} : Committed(stopped) /\ CommitEnds(how)
       \/ stopped /\ ~shielded /\ CommitCancelled /\ CommitEnds("Cancelled")
    /\ TakesIn /\ ActOver
    /\ UNCHANGED <<at, stopped, readerVars>>

VerdictEnding(v) == IF v = "Cancelled" THEN CancelledEnding ELSE Ending(v)

TellFinish ==
    /\ Running
    /\ Finish
    /\ tree' = finish(IF failures = {} THEN tree ELSE warn(tree, node.plan),
                      node.plan, VerdictEnding(report'))
    /\ UNCHANGED <<hostVars, node, readerVars, acted>>

Conclude ==
    /\ Running /\ phase = Closed
    /\ at' = "Over"
    /\ \E problems_remain \in BOOLEAN :
         tree' = conclude(tree, VerdictEnding(report), problems_remain)
    /\ UNCHANGED <<runnerVars, stopped, announced, channel, troubles, node, readerVars, acted>>

-----------------------------------------------------------------------------
(* What drive() tells while it waits for an action, and what is reported   *)
(* meanwhile.  Reports of a query wait for the next action.                *)

Awaiting == node.acting # NoNode

Report ==
    /\ Running /\ (Asked \/ Awaiting)
    /\ trouble
    /\ \E reading \in Readings : channel' = Append(channel, reading)
    /\ UNCHANGED <<runnerVars, at, stopped, announced, tree, node, readerVars, acted>>

Relay ==
    /\ Running /\ Awaiting
    /\ channel # <<>>
    /\ tree' = apply(tree, Head(channel))
    /\ channel' = Tail(channel)
    /\ UNCHANGED <<runnerVars, at, stopped, announced, troubles, node, readerVars, acted>>

AnnounceStop ==     \* scope.stopped() while the action runs
    /\ Running /\ Awaiting
    /\ announces /\ ~shielded
    /\ announced' = TRUE
    /\ tree' = progress(tree, ROOT, Stopping)
    /\ UNCHANGED <<runnerVars, at, stopped, channel, troubles, node, readerVars, acted>>

(* The delivery task: pass.  The client keeps the exit code of the root.   *)
(* When the outbox is drained changes what is delivered only if a reading  *)
(* is in it: the request's own pace is left to such passes.                *)
Early == Busy /\ DOMAIN tree.outbox.pending # {}

root_exit(e) == e.event = "NodeFinished" /\ e.id = ROOT

Deliver ==
    /\ Early \/ ~Busy
    /\ tree.outbox.items # <<>>
    /\ LET d == drain(tree.outbox)
           read(op(_, _), seen) == FoldEvents(LAMBDA r, env : op(r, env.event), seen, d.out)
           ends == {i \in DOMAIN d.out : root_exit(d.out[i].event)}
       IN /\ tree' = [tree EXCEPT !.outbox = d.queue]
          /\ validator' = FoldEvents(validate, validator, d.out)
          /\ screen' = read(show, screen)
          /\ audit' = read(entries, audit)
          /\ exitCode' = IF ends = {} THEN exitCode
                         ELSE d.out[CHOOSE i \in ends : TRUE].event.exit
    /\ UNCHANGED <<runnerVars, hostVars, node, acted>>

Quiet == ~Busy /\ tree.outbox.items = <<>> /\ UNCHANGED streamVars

RunnerTells ==
    \/ TellOpen \/ TellNothing \/ TellBlock \/ TellFacts \/ TellNoFacts \/ TellStepEnd
    \/ TellAct \/ TellPerformed \/ TellUndoStep \/ TellUndoAct \/ TellUndone
    \/ TellUndoneStep \/ TellCommit \/ TellCommitted \/ TellFinish

HostTells ==
    \/ Acquire \/ start_wait \/ WaitEnds \/ Refuse \/ StartRecovery \/ EndRecovery
    \/ StartAudit \/ Inspect \/ EndAudit \/ Conclude

StreamNext ==
    \/ RunnerTells \/ HostTells \/ Report \/ Relay \/ AnnounceStop
    \/ Interrupt \/ Unwind \/ Deliver \/ Quiet

StreamSpec == StreamInit /\ [][StreamNext]_streamVars

-----------------------------------------------------------------------------
(* Properties.                                                             *)

Delivered == tree.outbox.items = <<>>

(* Whatever fails, is stopped, is undone or unwinds, the client gets a     *)
(* stream its grammar accepts: no node of the tree is misused (the runner  *)
(* would panic), no event comes out of place, each planned child is        *)
(* accounted for, and once the request is over and all is delivered the    *)
(* root has ended (Tree, Runner::step and Validator::push together).       *)
StreamIsAccepted ==
    /\ ~tree.misused
    /\ validator.violation = Valid
    /\ (~Busy /\ Delivered) => ~Truncated(validator)

LoggedOnce(kind, n) == Cardinality({i \in DOMAIN screen.log :
                                      screen.log[i][1] = kind /\ screen.log[i][2] = n}) = 1
Begun == {s \in Steps : \E i \in DOMAIN acted : acted[i].step = StepKey(s)}
OnLine(n) == n \in DOMAIN screen.lines /\ Live

(* What a person sees is what happens, though readings are dropped and     *)
(* lines are put off: the line of a running action shows the newest        *)
(* reading; a line that is in the log is not also spinning below it; and   *)
(* when the request is over, every step that acted is in the log exactly   *)
(* once, in the order they began, every rollback names the step it undid,  *)
(* and nothing is left on the terminal (Outbox::push, Human, Live).        *)
LinesAreTrue ==
    /\ (Delivered /\ node.acting # NoNode /\ OnLine(node.acting) /\ is_open(tree, node.acting)) =>
         LET told == tree.open[node.acting].builds
         IN (Wide /\ has_phase(told)) => screen.drawn[screen.lines[node.acting]].reading = told
    /\ \A n \in DOMAIN screen.drawn :
         screen.drawn[n].committed /\ screen.drawn[n].bar => screen.drawn[n].showing = "Bar"
    /\ (at = "Over" /\ Delivered) =>
         /\ DOMAIN screen.lines = {} /\ screen.unlogged = <<>> /\ screen.pending = {}
         /\ \A n \in DOMAIN screen.drawn : ~screen.drawn[n].bar
         /\ \A s \in Begun : LoggedOnce("step", node.steps[s])
         /\ \A i, j \in DOMAIN screen.log :
              /\ screen.log[i][1] = "rollback" => screen.log[i][3] # NoNode
              /\ i < j /\ {screen.log[i][1], screen.log[j][1]} \subseteq {"step", "rollback"} =>
                   screen.log[i][2] < screen.log[j][2]

Actions == SelectSeq(audit.entries, LAMBDA e : e.what = "Action")

(* The audit trail and the exit code tell what the runner did: one entry   *)
(* for every action that ended, in the order they ended, under the step it *)
(* belongs to and marked if it was an undo; a request that exits with      *)
(* success carried every step of its plan through and undid nothing        *)
(* (Steps::entries, Ending::for_root, Exit::saw).                          *)
TrailIsTrue ==
    (at = "Over" /\ Delivered) =>
      /\ Len(Actions) = Len(acted)
      /\ \A i \in DOMAIN acted : /\ Actions[i].step = acted[i].step
                                /\ Actions[i].undo = acted[i].undo
                                /\ Actions[i].status = acted[i].status
      /\ exitCode # NoExit
      /\ (exitCode \in {exit.SUCCEEDED, exit.PROBLEMS_REMAIN} /\ phase = Closed) =>
           \A s \in Steps : Complete(s) /\ \A i \in DOMAIN acted :
             acted[i].step = StepKey(s) => ~acted[i].undo
      /\ (phase = Closed /\ report = "Cancelled") => exitCode = exit.INTERRUPTED

(* Whoever reads the stream is told the same story, the terminal and the   *)
(* audit log each in its own words.                                        *)
ReadersAreRight == LinesAreTrue /\ TrailIsTrue
=============================================================================
