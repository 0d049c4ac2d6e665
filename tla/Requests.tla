------------------------------ MODULE Requests ------------------------------
(***************************************************************************)
(* The requests of mix against a machine that changes under them: a        *)
(* command recovers what an interrupted one left, plans, takes its steps   *)
(* one action at a time, and commits or undoes.  The environment tampers   *)
(* with files, an action fails, the user stops the command, the process is *)
(* killed.                                                                 *)
(*                                                                         *)
(* Source: crates/shell/src/ops, crates/shell/src/profile/change.rs,       *)
(* crates/shell/src/effect/journal/mod.rs; the step engine and the journal *)
(* are those of Runner, Drive and Journal at the granularity of whole      *)
(* actions.                                                                *)
(***************************************************************************)
EXTENDS DryRun

CONSTANTS Base,         \* the machines a history starts from
          Users,        \* the accounts of people: [name, ids, home]
          Histories,    \* what is asked, in this order: sequences of [op, user, ...]
          Drifts,       \* what the environment may do: <<what, path>>
          MaxTroubles   \* bound on drifts, faults, stops and crashes

VARIABLES w,            \* the machine
          run,          \* the request being served
          was,          \* the machine when the request began, as it is compared
          last,         \* how the last request ended
          asked,        \* the requests so far
          troubles      \* how many troubles there were
vars == <<w, run, was, last, asked, troubles>>

J == INSTANCE Journal WITH
       Action <- {}, from <- <<>>, NoPath <- <<>>, Reload <- DaemonReload,
       Sync <- {DaemonReload} \cup {OnUnit("RestartUnit", u) : u \in Range(UNIT_NAMES)}
                 \cup {ApplyingGeneration(u) : u \in Users},
       Loaded <- {OnUnit(do, u) : do \in {"EnableUnit", "DisableUnit", "StartUnit", "StopUnit"},
                                  u \in Range(UNIT_NAMES)}

Idle == [phase |-> "idle"]
ProfileOps == {"install", "remove", "update", "clean"}
Losing(op) == op \notin ProfileOps     \* recovery may give up what cannot be put back

(***************************************************************************)
(* Recovery.                                                               *)
(***************************************************************************)
\* A failed undo that found something else in its place, or nothing.
Gone(v, a) == Precondition(v, a) = "no" \/ ~AccountPrecondition(v, a) \/ a.do = "SwitchGeneration"

UndoAll(v, undos) ==
    LET Count(acc, a, done) ==
          [w |-> done.w,
           failed |-> IF done.ok THEN acc.failed ELSE Append(acc.failed, a),
           gone |-> acc.gone /\ (done.ok \/ Gone(acc.w, a))]
    IN  FoldLeft(LAMBDA acc, a : Count(acc, a, Apply(acc.w, a)),
                 [w |-> v, failed |-> <<>>, gone |-> TRUE], undos)

\* The journal of one interrupted request is undone, and dropped when that
\* went through or when the command accepts the loss.
Dispose(undone, request, losing) ==
    [undone.w EXCEPT
        !.journals = IF undone.failed = <<>> \/ (losing /\ undone.gone)
                     THEN Restrict(@, DOMAIN @ \ {request})
                     ELSE [@ EXCEPT ![request] = <<undone.failed>>]]
RecoverOne(v, request, losing) ==
    Dispose(UndoAll(v, J!rollback_order(v.journals[request])), request, losing)

RecoverAll(v, losing) ==
    FoldLeft(LAMBDA u, request : RecoverOne(u, request, losing), v,
             SetToSortSeq(DOMAIN v.journals, LAMBDA a, b : a < b))

(***************************************************************************)
(* A request begins.                                                       *)
(***************************************************************************)
Enrolled(v, user) == user.name \in Members(v, "mix-users")
Foreign(v) == ~Has(v, MARKER) /\ Has(v, NIX_STORE)     \* a Nix that is not mix's

\* What turns a command away before anything is recovered.
TurnedAway(v, c) ==
    \/ c.op \in ProfileOps \cup {"user_remove"} /\ ~Enrolled(v, c.user)
    \/ c.op = "bootstrap" /\ ~c.force /\ Foreign(v)

\* What stops it once recovery has been tried.
Stopped(v, c) ==
    \/ c.op \in ProfileOps /\ v.journals # <<>>
    \/ c.op \in {"install", "remove", "update"} /\ SettledList(v, c.user).newer

Plan(v, c, known) ==
    LET cfg == Configured(v, c.user)
    IN  CASE c.op = "bootstrap" -> BootstrapSteps(cfg, c.force)
          [] c.op = "repair" -> RepairSteps(IF known THEN <<cfg>> ELSE <<>>)
          [] c.op = "install" -> InstallSteps(v, cfg, c.packages)
          [] c.op = "remove" -> RemoveSteps(v, cfg, c.packages)
          [] c.op = "update" -> UpdateSteps(cfg)
          [] c.op = "clean" -> CleanSteps(cfg, c.all)
          [] c.op = "purge" -> PurgeSteps(v, Users)
          [] c.op = "user_remove" -> UserRemoveSteps(c.user)

Began(c, steps) ==
    [phase |-> "run", cmd |-> c, whole |-> c.op # "repair", steps |-> steps, at |-> 1,
     todo |-> <<>>, log |-> <<>>, causes |-> {}, back |-> <<>>, failed |-> <<>>,
     after |-> "close", verdict |-> "succeeded", drifts |-> {}]

TurnAway(c) ==
    [cmd |-> c, verdict |-> "refused", drifts |-> {}, kept |-> FALSE]

\* Who asks is settled before the recovery.
Recover(c) ==
    /\ run = Idle
    /\ asked' = Append(asked, c)
    /\ IF TurnedAway(w, c)
       THEN last' = TurnAway(c) /\ UNCHANGED <<w, run>>
       ELSE /\ w' = [RecoverAll(w, Losing(c.op)) EXCEPT !.acting = Len(asked) + 1]
            /\ run' = [phase |-> "planning", cmd |-> c, known |-> Enrolled(w, c.user)]
            /\ UNCHANGED last
    /\ UNCHANGED <<was, troubles>>

Begin ==
    /\ run.phase = "planning"
    /\ was' = Comparable(w)
    /\ IF Stopped(w, run.cmd)
       THEN run' = Idle /\ last' = TurnAway(run.cmd)
       ELSE run' = Began(run.cmd, Plan(w, run.cmd, run.known)) /\ UNCHANGED last
    /\ UNCHANGED <<w, asked, troubles>>

(***************************************************************************)
(* The steps of a request.                                                 *)
(***************************************************************************)
OfStep(log, step) == SelectSeq(log, LAMBDA entry : entry.step = step)
Groups(entries) == [i \in DOMAIN entries |-> entries[i].undo]

\* Everything the request did, newest step first.
WholeRollback ==
    FlattenSeq([i \in 1..Len(run.steps) |->
        J!rollback_order(Groups(OfStep(run.log, Len(run.steps) + 1 - i)))])

\* A step that cannot go on is undone: alone where the steps are independent,
\* with all before it where they are not.
Failing(verdict, after) ==
    IF run.whole
    THEN [run EXCEPT !.phase = "undo", !.back = WholeRollback, !.log = <<>>, !.todo = <<>>,
                     !.verdict = verdict]
    ELSE [run EXCEPT !.phase = "undo", !.back = J!rollback_order(Groups(OfStep(run.log, run.at))),
                     !.log = SelectSeq(@, LAMBDA entry : entry.step # run.at), !.todo = <<>>,
                     !.after = after, !.causes = @ \cup {run.at}, !.verdict = verdict]

Blocked(step) == step.waits \cap run.causes # {}

\* Mutant of Looked: a step with nothing to do takes the next one with it.
LookedSkips(plan) ==
    IF ~plan.ok THEN Failing("failed", "continue")
    ELSE IF plan.actions = <<>> THEN [run EXCEPT !.at = @ + 2]
    ELSE [run EXCEPT !.todo = plan.actions]
Looked(plan) ==
    IF ~plan.ok THEN Failing("failed", "continue")
    ELSE IF plan.actions = <<>> THEN [run EXCEPT !.at = @ + 1]
    ELSE [run EXCEPT !.todo = plan.actions]
Look ==
    /\ run.phase = "run" /\ run.todo = <<>> /\ run.at <= Len(run.steps)
    /\ run' = IF Blocked(run.steps[run.at])
              THEN [run EXCEPT !.causes = @ \cup {run.at}, !.at = @ + 1]
              ELSE Looked(StepActions(w, run.steps[run.at], w.acting))
    /\ UNCHANGED <<w, was, last, asked, troubles>>

Performed(done) ==
    /\ w' = done.w
    /\ run' = IF ~done.ok THEN Failing("failed", "continue")
              ELSE [run EXCEPT !.log = Append(@, [step |-> run.at, undo |-> done.undo]),
                               !.todo = Tail(@),
                               !.at = IF Len(run.todo) = 1 THEN @ + 1 ELSE @]
Perform ==
    /\ run.phase = "run" /\ run.todo # <<>>
    /\ Performed(Apply(w, Head(run.todo)))
    /\ UNCHANGED <<was, last, asked, troubles>>

Ended(verdict) ==
    [cmd |-> run.cmd, verdict |-> verdict, drifts |-> run.drifts,
     kept |-> run.failed # <<>>]

\* The journal of a request that could not undo everything stays until the
\* next one finds that it says it has ended.
Closed(v) ==
    [v EXCEPT !.pending = <<>>,
              !.journals = IF run.failed = <<>> THEN @ ELSE (w.acting :> <<>>) @@ @]

Close(v) ==
    /\ w' = Closed(v)
    /\ run' = Idle
    /\ last' = Ended(run.verdict)

Conclude ==
    /\ run.phase = "run" /\ run.todo = <<>> /\ run.at > Len(run.steps)
    /\ LET committed == IF run.log = <<>> THEN w ELSE Commit(w)
       IN  Close(IF run.cmd.op = "purge" THEN FinishRemoval(committed) ELSE committed)
    /\ UNCHANGED <<was, asked, troubles>>

Reverted(done) ==
    /\ w' = done.w
    /\ run' = [run EXCEPT !.back = Tail(@),
                          !.failed = IF done.ok THEN @ ELSE Append(@, Head(run.back))]
Undo ==
    /\ run.phase = "undo" /\ run.back # <<>>
    /\ Reverted(Apply(w, Head(run.back)))
    /\ UNCHANGED <<was, last, asked, troubles>>

Undone ==
    /\ run.phase = "undo" /\ run.back = <<>>
    /\ CASE run.after = "close" -> Close(w)
         [] run.after = "commit" -> Close(IF run.log = <<>> THEN w ELSE Commit(w))
         [] run.after = "continue" ->
              /\ run' = [run EXCEPT !.phase = "run", !.at = @ + 1, !.after = "close"]
              /\ UNCHANGED <<w, last>>
    /\ UNCHANGED <<was, asked, troubles>>

(***************************************************************************)
(* Troubles.                                                               *)
(***************************************************************************)
Trouble ==
    /\ troubles < MaxTroubles
    /\ troubles' = troubles + 1
    /\ UNCHANGED asked

\* An action fails and has no effect.
Fault ==
    /\ Trouble
    /\ run.phase = "run" /\ run.todo # <<>>
    /\ run' = Failing("failed", "continue")
    /\ UNCHANGED <<w, was, last>>

\* The user stops the request while a step is left that can be stopped.
Stop ==
    /\ Trouble
    /\ run.phase = "run" /\ run.at <= Len(run.steps)
    /\ run.steps[run.at].kind # "record"
    /\ run' = Failing("cancelled", "commit")
    /\ UNCHANGED <<w, was, last>>

\* The process dies between two actions: what it did stays, and its journal
\* says how to undo what is left to undo.
Crash ==
    /\ Trouble
    /\ run.phase \in {"run", "undo"}
    /\ w' = [w EXCEPT !.pending = <<>>,
                      !.journals = (w.acting :>
                          (Groups(run.log) \o <<run.failed>> \o <<run.back>>)) @@ @]
    /\ run' = Idle
    /\ last' = Ended("crashed")
    /\ UNCHANGED was

\* Somebody else changes the machine.
Tampered(v, drift) ==
    LET path == drift[2]
    IN  CASE drift[1] = "edit" -> Insert(v, path, <<"File", "foreign">>, Open, Owner(v, path))
          [] drift[1] = "list" -> Insert(v, path, RenderList(drift[3]), Private, Owner(v, path))
          [] drift[1] = "newer" -> Insert(v, path, <<"List", 2, {}>>, Private, Owner(v, path))
          [] drift[1] = "own" -> [v EXCEPT !.files[path].owner = ROOT]
          [] drift[1] = "mode" -> [v EXCEPT !.files[path].mode = @ \cup {"f"}]
          [] drift[1] = "delete" -> RemoveTree(v, path)
          [] drift[1] = "stop" -> StopUnit(v, OnUnit("StopUnit", drift[3])).w
          [] drift[1] = "dangle" ->
               [v EXCEPT !.profiles = [uid \in DOMAIN @ |->
                   IF uid # Owner(v, path)[1] THEN @[uid]
                   ELSE [@[uid] EXCEPT !.dangling = (@ \cup {v.profiles[uid].active}) \ {0}]]]

Drift(drift) ==
    /\ Trouble
    /\ Has(w, drift[2])
    /\ w' = Tampered(w, drift)
    /\ run' = IF run.phase \in {"run", "undo"} THEN [run EXCEPT !.drifts = @ \cup {drift}] ELSE run
    /\ last' = [last EXCEPT !.drifts = @ \cup {drift}]
    /\ UNCHANGED was

Nobody == [TurnAway([op |-> "none"]) EXCEPT !.verdict = "none"]

Init ==
    /\ w \in Base
    /\ run = Idle
    /\ was = Comparable(w)
    /\ last = Nobody
    /\ asked = <<>>
    /\ troubles = 0

Serve == Begin \/ Look \/ Perform \/ Conclude \/ Undo \/ Undone
Next ==
    \/ \E c \in {h[Len(asked) + 1] : h \in {g \in Histories :
              Len(g) > Len(asked) /\ SubSeq(g, 1, Len(asked)) = asked}} : Recover(c)
    \/ Serve
    \/ Fault \/ Stop \/ Crash
    \/ \E drift \in Drifts : Drift(drift)

Spec == Init /\ [][Next]_vars
-----------------------------------------------------------------------------
(***************************************************************************)
(* Properties.                                                             *)
(***************************************************************************)
\* What an undo owes: the machine as it is compared, without the commits in
\* a user's repository, which nothing takes back, and the directories systemd
\* keeps its links in.
Owed(machine) ==
    LET recorded == UNION {{BRANCH(u), InGit(u, <<"index">>)} : u \in Users}
    IN  [machine EXCEPT !.files = Restrict(@, {p \in DOMAIN @ \ recorded : ~IsWants(p)})]

\* ... and without what somebody else changed: the files below a path and the
\* siblings it was kept in, the units, the profiles.
Except(machine, drifts) ==
    LET About(path, drift) ==
          \/ IsPrefix(drift[2], path)
          \/ /\ Len(path) >= Len(drift[2])
             /\ Front(SubSeq(path, 1, Len(drift[2]))) = Front(drift[2])
             /\ path[Len(drift[2])][1] = Last(drift[2])[1]
        Did(what) == \E drift \in drifts : drift[1] = what
    IN  [machine EXCEPT
            !.files = Restrict(@, {p \in DOMAIN @ : ~\E drift \in drifts : About(p, drift)}),
            !.units = IF Did("stop") THEN <<>> ELSE @,
            !.profiles = IF Did("dangle") THEN <<>> ELSE @]

Untouched(cmd) == Owed(Comparable(w)) = Owed(was) \/ cmd.op = "clean"

Files(machine, dir) == [p \in {q \in DOMAIN machine.files : IsPrefix(dir, q)} |-> machine.files[p]]
Settling == run.phase \in {"run", "undo"}

\* Every variable has its type: a request is at a step it has or at the end of
\* them, and the machine's maps are functions.
TypeOK ==
    /\ DOMAIN w.groups \subseteq {"nixbld", "mix-users"}
    /\ \A path \in DOMAIN w.files : w.files[path].mode \subseteq Open \cup {"f", "s"}
    /\ run.phase \in {"idle", "planning", "run", "undo"}
    /\ Settling => /\ run.at \in 1..(Len(run.steps) + 1)
                   /\ run.causes \subseteq 1..Len(run.steps)
                   /\ run.after \in {"close", "commit", "continue"}
    /\ last.verdict \in {"none", "succeeded", "failed", "cancelled", "refused", "crashed"}
    /\ troubles \in 0..MaxTroubles

\* A request that is all or nothing and ends without success leaves the
\* machine as it found it, whichever action failed or was stopped.  Where
\* somebody else changed a file while it ran, that change stands and all the
\* rest is put back (crates/core/src/run/mod.rs, Runner::roll_back, with the
\* undos and the expectations of crates/core/src/effect).
FailureLeavesNoTrace ==
    (run = Idle /\ last.verdict \in {"failed", "cancelled"} /\ last.cmd.op \notin {"repair", "clean"})
      => /\ last.kept => last.drifts # {}
         /\ Except(Owed(Comparable(w)), last.drifts) = Except(Owed(was), last.drifts)

\* When the process dies anywhere in a request, in its rollback too, the
\* recovery the next request starts with leaves the machine as the first one
\* found it (crates/shell/src/effect/journal/mod.rs, recover_from).
CrashLeavesNoTrace ==
    (run.phase = "planning" /\ last.verdict = "crashed" /\ last.drifts = {})
      => Untouched(last.cmd)

\* After a bootstrap or a repair that succeeded every check of the audit it
\* stands for is healthy, and the same command again would find nothing to do:
\* no fix undoes what an earlier one of the same request put right
\* (core/src/ops/health: steps and Audit walk the same tree).
SuccessIsHealthy ==
    (run = Idle /\ last.verdict = "succeeded" /\ last.drifts = {}
       /\ last.cmd.op \in {"bootstrap", "repair"} /\ Enrolled(w, last.cmd.user))
      => LET cfg == Configured(w, last.cmd.user)
             tidy == last.cmd.op = "repair"
             reports == Audit(w, TreeFor([MachineIntent(<<cfg>>) EXCEPT !.tidy = tidy]))
             again == IF tidy THEN RepairSteps(<<cfg>>) ELSE BootstrapSteps(cfg, FALSE)
         IN  /\ \A i \in DOMAIN reports : reports[i].finding = Healthy
             /\ \A i \in DOMAIN again : StepActions(w, again[i], 0) = Planned(<<>>)

\* Nothing a request does for one user reaches the home, the profile or the
\* membership of another, at no moment of it; and a request that only reaches
\* a user changes nothing outside that user's home but the group
\* (core/src/declared/targets.rs, Reach).
OthersAreLeftAlone ==
    (Settling /\ run.cmd.op # "purge" /\ ~run.cmd.force)
      => \A other \in Users \ {run.cmd.user} :
            /\ Files(Comparable(w), other.home) = Files(was, other.home)
            /\ ProfileOf(w, other) = ProfileOf(was, other)
            /\ (other.name \in Members(w, "mix-users") <=> other.name \in Members(was, "mix-users"))
            /\ run.cmd.op \in ProfileOps /\ run.drifts = {} =>
                 \A dir \in {NIX, P(<<"etc">>), P(<<"var">>)} : Files(Comparable(w), dir) = Files(was, dir)

\* A change of the package list that succeeded is in the list and in the
\* active generation, which was built from the files as they are; and nothing
\* else left the list, also where the list had to be restored from the
\* generation first (core/src/ops/change, core/src/declared/state.rs settle).
ChangesTakeEffect ==
    (run = Idle /\ last.verdict = "succeeded" /\ last.drifts = {}
       /\ last.cmd.op \in {"install", "remove"})
      => LET before == SettledList(was, last.cmd.user).packages
             after == SettledList(w, last.cmd.user)
         IN  /\ after.source = "File"
             /\ after.packages = IF last.cmd.op = "install" THEN before \cup last.cmd.packages
                                 ELSE before \ last.cmd.packages
             /\ ActiveInput(w, last.cmd.user, 1) = RenderList(after.packages)

\* What a dry run and the command itself do when the one is asked for in place
\* of the other, with nobody in between.
AboutToStart ==
    run.phase = "run" /\ run.at = 1 /\ run.todo = <<>> /\ run.log = <<>> /\ w.journals = <<>>

\* A dry run tells every action the command then takes and no other
\* (a_dry_run_plans_exactly_what_the_repair_then_does_and_changes_nothing).
DryRunIsExact ==
    AboutToStart => Rehearsed(w, run.steps, run.whole) = Carried(w, run.steps, run.whole)

\* What a prediction cannot follow: a tree that is moved or given back to its
\* owner with everything in it.
MovesTrees(taken) ==
    \/ run.cmd.op = "purge" \/ run.cmd.force
    \/ \E i \in DOMAIN taken : taken[i][2] = "ReclaimTree"

\* What a prediction knows too little of to leave out: what an active generation
\* was built from, what is recorded, and since when a service runs.
Cautions == {"ActivateProfile", "RecordState", "DrainService"}

\* A dry run hides nothing: it tells every action the command then takes, in
\* that order, and what it tells besides is told out of caution.
DryRunHidesNothing ==
    AboutToStart =>
      \A told \in {Rehearsed(w, run.steps, run.whole)}, taken \in {Carried(w, run.steps, run.whole)} :
        MovesTrees(taken)
          \/ /\ SelectSeq(told, LAMBDA t : t \in Range(taken)) = taken
             /\ \A i \in DOMAIN told : told[i] \in Range(taken) \/ told[i][2] \in Cautions

\* A failure, a stop or a crash leaves nothing behind, once the request or the
\* recovery after it has undone what was done.
NoTraceIsLeft == FailureLeavesNoTrace /\ CrashLeavesNoTrace

\* Success means that the machine is as it was asked to be: sound, with the
\* change in effect.
SuccessIsReal == SuccessIsHealthy /\ ChangesTakeEffect
=============================================================================
