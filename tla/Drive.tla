------------------------------- MODULE Drive -------------------------------
(***************************************************************************)
(* One request from its empty journal to the moment the journal is gone:   *)
(* drive() performs what the runner hands out and journals it              *)
(* (crates/shell/src/drive.rs), the process may die anywhere, and later    *)
(* processes recover the journal they find                                 *)
(* (crates/shell/src/effect/journal/mod.rs).                               *)
(*                                                                         *)
(* The machine is what rollback and commit act on: files with versions and *)
(* the backups put_file leaves, and one systemd unit, which runs the       *)
(* version of its unit file that was loaded when it was started.  Version  *)
(* 0 is what was there before; action number n writes version n and keeps  *)
(* what it replaced as backup n (an inode and a name nobody else has).     *)
(***************************************************************************)
EXTENDS Runner
LOCAL INSTANCE SequencesExt

CONSTANTS
    Place,          \* the paths
    UnitFile,       \* the path that is the unit's file
    Git,            \* the path of the repository RecordState creates
    Junk,           \* the path a Discard gives up
    None,           \* no undo announced, no machine to compare with
    MaxActs,        \* bound on the actions one request performs
    MaxCrashes,     \* bound on crashes
    MaxFaults,      \* bound on failed undos, deletions and writes of the journal
    JournalFaults,  \* how a write may fail: "lost", "unsynced", "torn"
    UndoFaults      \* whether an undo may fail though what it expects is there

VARIABLES
    mode,       \* "running", "down", "recovering", "finishing", "stuck", "over"
    io,         \* how far the driver is with the action in hand
    seq,        \* drive's seq
    announced,  \* the undo announced last; None before an announcement
    signalled,  \* the request's scope was stopped
    ended,      \* drive's ended and unfinished, as "no", "ended", "unfinished"
    log,        \* the readable records of the journal file
    torn,       \* the file goes on with a line that cannot be parsed
    closed,     \* FileJournal.ended: the last record written was Ended
    files, backups, loaded, running,    \* the machine
    doomed,     \* Files.pending: backups the commit deletes
    discards,   \* Files.pending: paths the commit deletes
    todo,       \* recovery: the undos still to perform, certain ones marked
    failing,    \* recovery: what failed: "no", "gone" or "bad"
    losing,     \* recovery: by mix repair, which accepts what is gone
    crashes, faults,
    before, goal    \* history: the machine before the request and at commit

disk      == <<log, torn, closed>>
machine   == <<files, backups, loaded, running>>
memory    == <<doomed, discards>>
driver    == <<io, seq, announced, signalled, ended>>
recovery  == <<todo, failing, losing>>
history   == <<before, goal>>
vars == <<runnerVars, mode, driver, disk, machine, memory, recovery,
          crashes, faults, history>>

Gone == MaxActs + 1     \* the version of what is not there
Off  == MaxActs + 1     \* the unit does not run
Guarded == Place \ {Git, Junk}

ASSUME DriveAssumption ==
    /\ {UnitFile, Git, Junk} \subseteq Place
    /\ UnitFile \notin {Git, Junk} /\ Git # Junk
    /\ MaxActs \in Nat /\ MaxCrashes \in Nat /\ MaxFaults \in Nat
    /\ JournalFaults \subseteq {"lost", "unsynced", "torn"}
    /\ UndoFaults \in BOOLEAN

-----------------------------------------------------------------------------
(* The undo actions, as the constants of Journal and Runner.               *)

Restore(p, n)    == [op |-> "Restore", at |-> p, from |-> n]
RemoveTree(p, n) == [op |-> "RemoveCreatedTree", at |-> p, from |-> n]
KeepPath(p)      == [op |-> "Keep", at |-> p]
DaemonReload     == [op |-> "DaemonReload"]
StartUnit        == [op |-> "StartUnit"]
StopUnit         == [op |-> "StopUnit"]

DriveAction ==
    {Restore(p, n) : p \in Place, n \in 1..MaxActs}
    \cup {RemoveTree(Git, n) : n \in 1..MaxActs}
    \cup {KeepPath(Junk), DaemonReload, StartUnit, StopUnit}
DriveFrom == [a \in DriveAction |-> IF a.op = "Restore" THEN a.from ELSE NoPath]
DriveKeep == {KeepPath(Junk)}
DriveSync == {DaemonReload}
DriveLoaded == {StartUnit, StopUnit}

(* The actions of plans.                                                   *)
PutFile(p)  == [op |-> "PutFile", at |-> p]
InstallUnit == [op |-> "InstallUnit", at |-> UnitFile]
Reloads     == [op |-> "DaemonReload", at |-> UnitFile]
Starts      == [op |-> "StartUnit", at |-> UnitFile]
Stops       == [op |-> "StopUnit", at |-> UnitFile]
Discard     == [op |-> "Discard", at |-> Junk]
RecordState == [op |-> "RecordState", at |-> Git]

PlanAction == {PutFile(p) : p \in Place}
              \cup {InstallUnit, Reloads, Starts, Stops, Discard, RecordState}

(* What they announce or return, the actions being numbered from 1.        *)
DriveUndoLists ==
    {<<>>, <<DaemonReload>>, <<StopUnit>>, <<StartUnit>>, <<KeepPath(Junk)>>}
    \cup {<<Restore(p, n)>> : p \in Place, n \in 1..MaxActs}
    \cup {<<Restore(UnitFile, n), DaemonReload>> : n \in 1..MaxActs}
    \cup {<<RemoveTree(Git, n)>> : n \in 1..MaxActs}

ASSUME DrivePlansAssumption ==
    /\ \A s \in Steps : \A q \in Plans[s] : q \in Seq(PlanAction)
    /\ DriveUndoLists \subseteq UndoLists /\ UndoLists \subseteq Seq(DriveAction)
    /\ Action = DriveAction /\ from = DriveFrom
    /\ None \notin [files : [Guarded -> 0..Gone], service : (0..MaxActs) \X (0..Off)]

action == Head(phase.queue)
number == seq + 1

(* What the action announces before it acts, and what it returns.          *)
announces ==
    CASE action.op = "PutFile"      -> <<Restore(action.at, number)>>
      [] action.op = "InstallUnit"  -> <<Restore(action.at, number), DaemonReload>>
      [] action.op = "DaemonReload" -> <<DaemonReload>>
      [] action.op = "StartUnit"    -> <<StopUnit>>
      [] action.op = "StopUnit"     -> <<StartUnit>>
      [] action.op = "Discard"      -> <<KeepPath(action.at)>>
      [] action.op = "RecordState"  -> <<>>

returns == IF action.op = "RecordState" /\ files[Git] = number
           THEN <<RemoveTree(Git, number)>> ELSE announces

(* The unit is already as wanted: success, with nothing announced.         *)
satisfied == \/ action.op = "StartUnit" /\ running # Off
             \/ action.op = "StopUnit" /\ running = Off

effect ==
    CASE action.op \in {"PutFile", "InstallUnit"} ->
           /\ files' = [files EXCEPT ![action.at] = number]
           /\ backups' = [backups EXCEPT ![number] = files[action.at]]
           /\ UNCHANGED <<loaded, running>>
      [] action.op = "DaemonReload" ->
           loaded' = files[UnitFile] /\ UNCHANGED <<files, backups, running>>
      [] action.op = "StartUnit" ->
           running' = loaded /\ UNCHANGED <<files, backups, loaded>>
      [] action.op = "StopUnit" ->
           running' = Off /\ UNCHANGED <<files, backups, loaded>>
      [] action.op = "Discard" -> UNCHANGED machine
      [] action.op = "RecordState" ->
           /\ files' = [files EXCEPT ![Git] = IF @ = Gone THEN number ELSE @]
           /\ UNCHANGED <<backups, loaded, running>>

(* Whether an undo can be performed now, and what it does.                 *)
applies(u) == u.op = "Restore" => files[u.at] = u.from /\ backups[u.from] # Gone

undo(u) ==
    CASE u.op = "Restore" ->
           /\ files' = [files EXCEPT ![u.at] = backups[u.from]]
           /\ backups' = [backups EXCEPT ![u.from] = Gone]
           /\ doomed' = doomed \ {u.from}
           /\ UNCHANGED <<loaded, running, discards>>
      [] u.op = "RemoveCreatedTree" ->
           /\ files' = [files EXCEPT ![u.at] = IF @ = u.from THEN Gone ELSE @]
           /\ UNCHANGED <<backups, loaded, running, memory>>
      [] u.op = "Keep" -> discards' = discards \ {u.at} /\ UNCHANGED <<machine, doomed>>
      [] u.op = "DaemonReload" ->
           loaded' = files[UnitFile] /\ UNCHANGED <<files, backups, running, memory>>
      [] u.op = "StartUnit" ->
           /\ running' = IF running = Off THEN loaded ELSE running
           /\ UNCHANGED <<files, backups, loaded, memory>>
      [] u.op = "StopUnit" -> running' = Off /\ UNCHANGED <<files, backups, loaded, memory>>

(* An undo fails: by a fault, unless it could not be performed anyway.     *)
fault(could) ==
    IF could THEN UndoFaults /\ faults < MaxFaults /\ faults' = faults + 1
             ELSE UNCHANGED faults

Files == [p \in Guarded |-> files[p]]
Service == <<loaded, running>>
World == [files |-> Files, service |-> Service]

-----------------------------------------------------------------------------
(* Writing the journal: a line goes into the file and is synced, or the    *)
(* write fails and leaves nothing, a line that was not synced, or half a   *)
(* line.  read() stops at a line it cannot parse, so what is written after *)
(* half a line is never read.                                              *)

Hows == {"ok"} \cup JournalFaults

append(r, how) ==
    /\ how = "ok" \/ faults < MaxFaults
    /\ log' = IF how \in {"ok", "unsynced"} /\ ~torn THEN Append(log, r) ELSE log
    /\ torn' = (torn \/ how = "torn")
    /\ closed' = IF how = "ok" THEN r = Ended ELSE closed
    /\ faults' = faults + (IF how = "ok" THEN 0 ELSE 1)

Init ==
    /\ RunnerInit
    /\ mode = "running" /\ io = "opening"
    /\ seq = 0 /\ announced = None /\ signalled = FALSE /\ ended = "no"
    /\ log = <<>> /\ torn = FALSE /\ closed = FALSE
    /\ files = [p \in Place |-> IF p = Git THEN Gone ELSE 0]
    /\ backups = [n \in 1..MaxActs |-> Gone]
    /\ loaded = 0 /\ running \in {0, Off}
    /\ doomed = {} /\ discards = {}
    /\ todo = <<>> /\ failing = "no" /\ losing = FALSE
    /\ crashes = 0 /\ faults = 0
    /\ before = World /\ goal = None

-----------------------------------------------------------------------------
(* The driver's loop.                                                      *)

Running == mode = "running"

(* FileJournal::create: the file is there, its first record is written.    *)
(* The request is given up if that fails, and the file stays.              *)
Create(how) ==
    /\ Running /\ io = "opening"
    /\ append(Began, how)
    /\ io' = "idle"
    /\ mode' = IF how = "ok" THEN mode ELSE "down"
    /\ UNCHANGED <<runnerVars, seq, announced, signalled, ended, machine, memory,
                   recovery, crashes, history>>

Step ==         \* runner.step, up to what it hands out
    /\ Running
    /\ Internal
    /\ UNCHANGED <<mode, driver, disk, machine, memory, recovery, crashes, faults, history>>

Interrupt ==    \* the client interrupts, the daemon is terminated, ...
    /\ Running /\ ~signalled /\ phase # Closed
    /\ signalled' = TRUE
    /\ UNCHANGED <<runnerVars, mode, io, seq, announced, ended, disk, machine,
                   memory, recovery, crashes, faults, history>>

Begin ==
    /\ Running /\ io = "idle" /\ Open(signalled)
    /\ UNCHANGED <<mode, driver, disk, machine, memory, recovery, crashes, faults, history>>

Observe ==
    /\ Running
    /\ \/ Asked /\ \E q \in Plans[phase.step] : Facts(q, signalled)
       \/ NoFacts(signalled)
    /\ UNCHANGED <<mode, driver, disk, machine, memory, recovery, crashes, faults, history>>

(* The prepared closure: announced is set before the record is written, so *)
(* an action whose record could not be written fails, in doubt.            *)
Prepare(how) ==
    /\ Running /\ Performing /\ io = "idle" /\ seq < MaxActs /\ ~satisfied
    /\ append(Prepared(seq, announces), how)
    /\ IF how = "ok"
       THEN /\ io' = "announced" /\ announced' = announces
            /\ UNCHANGED <<runnerVars, seq>>
       ELSE /\ PerformFailed(announces, signalled)
            /\ seq' = seq + 1
            /\ UNCHANGED <<io, announced>>
    /\ UNCHANGED <<mode, signalled, ended, machine, memory, recovery, crashes, history>>

Effect ==
    /\ Running /\ io = "announced"
    /\ effect
    /\ io' = "acted"
    /\ UNCHANGED <<runnerVars, mode, seq, announced, signalled, ended, disk,
                   memory, recovery, crashes, faults, history>>

(* Mutant: an action uses up two numbers.                                  *)
numbered_twice == seq' = seq + 2 /\ io' = "idle" /\ announced' = None

numbered == seq' = seq + 1 /\ io' = "idle" /\ announced' = None

Succeed(how) ==     \* Done if the action returned what it announced last
    /\ Running /\ io = "acted"
    /\ append(IF announced = returns THEN Done(seq) ELSE Settled(seq, returns), how)
    /\ Performed(returns, signalled)
    /\ doomed' = IF action.op \in {"PutFile", "InstallUnit"}
                  THEN doomed \cup {number} ELSE doomed
    /\ discards' = IF action.op = "Discard" THEN discards \cup {Junk} ELSE discards
    /\ numbered
    /\ UNCHANGED <<mode, signalled, ended, machine, recovery, crashes, history>>

Satisfied(how) ==   \* nothing to do: settled with an empty undo
    /\ Running /\ Performing /\ io = "idle" /\ seq < MaxActs /\ satisfied
    /\ append(Settled(seq, <<>>), how)
    /\ Performed(<<>>, signalled)
    /\ seq' = seq + 1
    /\ UNCHANGED <<mode, io, announced, signalled, ended, machine, memory,
                   recovery, crashes, history>>

(* Mutant: a stop ends what is shielded, too.                              *)
stopped_anyway == signalled

stopped_by == signalled /\ ~shielded

(* An action fails before it announces, after it, or after its effect;     *)
(* a stop ends it the same way unless the step is shielded.                *)
Fail ==
    /\ Running /\ Performing /\ seq < MaxActs
    /\ LET doubt == IF io = "idle" THEN <<>> ELSE announced
       IN  \/ PerformFailed(doubt, signalled)
           \/ stopped_by /\ PerformCancelled(doubt)
    /\ numbered
    /\ UNCHANGED <<mode, signalled, ended, disk, machine, memory, recovery,
                   crashes, faults, history>>

(* An undo of the rollback, and its Reverted record.                       *)
undoing == IF phase.doubting THEN Head(phase.doubtful) ELSE Head(phase.queue)

Revert ==
    /\ Running /\ Reverting /\ io = "idle"
    /\ applies(undoing)
    /\ undo(undoing)
    /\ io' = "reverted"
    /\ UNCHANGED <<runnerVars, mode, seq, announced, signalled, ended, disk,
                   recovery, crashes, faults, history>>

KeepReverted(how) ==
    /\ Running /\ io = "reverted"
    /\ append(Reverted(undoing), how)
    /\ Undone(TRUE, signalled)
    /\ io' = "idle"
    /\ UNCHANGED <<mode, seq, announced, signalled, ended, machine, memory,
                   recovery, crashes, history>>

RevertFails ==      \* what it expects is not there, or the disk fails
    /\ Running /\ Reverting /\ io = "idle"
    /\ Undone(FALSE, signalled)
    /\ fault(applies(undoing))
    /\ UNCHANGED <<mode, driver, disk, machine, memory, recovery, crashes, history>>

(* The commit: recorded first, then the backups and after them the         *)
(* discarded paths are deleted one by one.  A path that cannot be deleted  *)
(* is left and the others are deleted all the same; the commit fails then, *)
(* which is no more than a warning, and its end is not recorded by it.     *)
RecordCommit(how) ==
    /\ Running /\ CommitAsked /\ io = "idle"
    /\ append(Committing, how)
    /\ IF how = "ok"
       THEN io' = "committing" /\ UNCHANGED runnerVars
       ELSE Committed(signalled) /\ UNCHANGED io
    /\ goal' = World
    /\ UNCHANGED <<mode, seq, announced, signalled, ended, machine, memory,
                   recovery, crashes, before>>

(* Mutant: backups are deleted before the commit is on record.             *)
commits_early == Running /\ io \in {"idle", "committing", "incomplete"}

commits == Running /\ io \in {"committing", "incomplete"}

DeleteBackup ==
    /\ commits
    /\ \E n \in doomed : /\ backups' = [backups EXCEPT ![n] = Gone]
                          /\ doomed' = doomed \ {n}
    /\ UNCHANGED <<runnerVars, mode, driver, disk, files, loaded, running, discards,
                   recovery, crashes, faults, history>>

DeleteDiscard ==
    /\ commits /\ doomed = {}
    /\ \E p \in discards : /\ files' = [files EXCEPT ![p] = Gone]
                           /\ discards' = discards \ {p}
    /\ UNCHANGED <<runnerVars, mode, driver, disk, backups, loaded, running, doomed,
                   recovery, crashes, faults, history>>

LeavePath ==
    /\ commits /\ faults < MaxFaults
    /\ \/ \E n \in doomed : doomed' = doomed \ {n} /\ UNCHANGED discards
       \/ \E p \in discards : /\ doomed = {}
                              /\ discards' = discards \ {p} /\ UNCHANGED doomed
    /\ io' = "incomplete" /\ faults' = faults + 1
    /\ UNCHANGED <<runnerVars, mode, seq, announced, signalled, ended, disk, machine,
                   recovery, crashes, history>>

CommitDone(how) ==
    /\ Running /\ io = "committing" /\ doomed = {} /\ discards = {}
    /\ append(Ended, how)
    /\ Committed(signalled)
    /\ io' = "idle" /\ ended' = "ended"
    /\ UNCHANGED <<mode, seq, announced, signalled, machine, memory, recovery,
                   crashes, history>>

CommitFails ==
    /\ Running /\ io = "incomplete" /\ doomed = {} /\ discards = {}
    /\ Committed(signalled)
    /\ io' = "idle"
    /\ UNCHANGED <<mode, seq, announced, signalled, ended, disk, machine, memory,
                   recovery, crashes, faults, history>>

CommitStopped ==    \* only a commit that reclaims listens to a stop
    /\ commits /\ doomed = {} /\ discards # {}
    /\ stopped_by
    /\ CommitCancelled
    /\ io' = "idle" /\ ended' = "unfinished"
    /\ UNCHANGED <<mode, seq, announced, signalled, disk, machine, memory,
                   recovery, crashes, faults, history>>

EndJournal(how) ==
    /\ Running /\ phase = Closed /\ io = "idle" /\ ended = "no"
    /\ append(Ended, how)
    /\ ended' = "ended"
    /\ UNCHANGED <<runnerVars, mode, io, seq, announced, signalled, machine,
                   memory, recovery, crashes, history>>

(* The caller removes the journal if every undo succeeded and its last     *)
(* record is Ended; otherwise the next process finds it (run_steps).       *)
Return ==
    /\ Running /\ phase = Closed /\ io = "idle" /\ ended # "no"
    /\ mode' = IF failures = {} /\ closed THEN "over" ELSE "down"
    /\ doomed' = {} /\ discards' = {}
    /\ UNCHANGED <<runnerVars, driver, disk, machine, recovery, crashes, faults, history>>

-----------------------------------------------------------------------------
(* Crashes and recovery.                                                   *)

Crash ==
    /\ mode \in {"running", "recovering", "finishing"} /\ crashes < MaxCrashes
    /\ mode' = "down" /\ crashes' = crashes + 1
    /\ io' = "idle" /\ announced' = None /\ doomed' = {} /\ discards' = {}
    /\ todo' = <<>> /\ failing' = "no" /\ losing' = FALSE
    /\ torn' \in {torn} \cup (IF "torn" \in JournalFaults THEN {TRUE} ELSE {})
    /\ UNCHANGED <<runnerVars, seq, signalled, ended, log, closed, machine, faults, history>>

marked(s, sure) == [i \in DOMAIN s |-> [undo |-> s[i], sure |-> sure]]

steps(plan) == marked(plan.uncertain, FALSE) \o marked(plan.certain, TRUE)

Recover(l) ==   \* when the daemon starts, before the next request, or by repair
    /\ mode \in {"down", "stuck"}
    /\ failing' = "no" /\ losing' = l
    /\ LET plan == recover(log)
       IN  CASE log = <<>> ->           \* nothing can be read: passed over
                  mode' = "stuck" /\ UNCHANGED <<todo, doomed>>
             [] log # <<>> /\ plan.does = "Nothing" ->
                  mode' = "over" /\ UNCHANGED <<todo, doomed>>
             [] log # <<>> /\ plan.does = "RollBack" ->
                  /\ mode' = "recovering"
                  /\ todo' = steps(plan)
                  /\ UNCHANGED doomed
             [] log # <<>> /\ plan.does = "FinishCommit" ->
                  mode' = "finishing" /\ doomed' = ToSet(plan.pending) /\ UNCHANGED todo
    /\ UNCHANGED <<runnerVars, driver, disk, machine, discards, crashes, faults, history>>

worse(f) == IF "bad" \in {failing, f} THEN "bad" ELSE f

RecoverUndo ==
    /\ mode = "recovering" /\ io = "idle" /\ todo # <<>>
    /\ applies(Head(todo).undo)
    /\ undo(Head(todo).undo)
    /\ io' = "reverted"
    /\ UNCHANGED <<runnerVars, mode, seq, announced, signalled, ended, disk,
                   recovery, crashes, faults, history>>

RecoverReverted(how) ==     \* a record that fails ends the uncertain undos
    /\ mode = "recovering" /\ io = "reverted"
    /\ append(Reverted(Head(todo).undo), how)
    /\ todo' = IF how = "ok" \/ Head(todo).sure THEN Tail(todo) ELSE <<>>
    /\ failing' = IF how = "ok" THEN failing ELSE "bad"
    /\ io' = "idle"
    /\ UNCHANGED <<runnerVars, mode, seq, announced, signalled, ended, machine,
                   memory, losing, crashes, history>>

RecoverFails ==             \* the failure of an uncertain undo is ignored
    /\ mode = "recovering" /\ io = "idle" /\ todo # <<>>
    /\ LET gone == ~applies(Head(todo).undo)
       IN  /\ fault(~gone)
           /\ failing' = IF Head(todo).sure THEN worse(IF gone THEN "gone" ELSE "bad")
                         ELSE failing
    /\ todo' = Tail(todo)
    /\ UNCHANGED <<runnerVars, mode, driver, disk, machine, memory, losing, crashes, history>>

(* Mutant: repair does not accept what is gone, either.                    *)
settles_whole == failing = "no"

settles == failing = "no" \/ (losing /\ failing = "gone")

Recovered ==    \* the journal is removed if nothing failed, or repair accepts the loss
    /\ mode = "recovering" /\ io = "idle" /\ todo = <<>>
    /\ mode' = IF settles THEN "over" ELSE "stuck"
    /\ UNCHANGED <<runnerVars, driver, disk, machine, memory, recovery, crashes,
                   faults, history>>

FinishBackup ==
    /\ mode = "finishing"
    /\ \E n \in doomed : /\ backups' = [backups EXCEPT ![n] = Gone]
                          /\ doomed' = doomed \ {n}
    /\ UNCHANGED <<runnerVars, mode, driver, disk, files, loaded, running, discards,
                   recovery, crashes, faults, history>>

FinishFails ==
    /\ mode = "finishing" /\ faults < MaxFaults
    /\ \E n \in doomed : doomed' = doomed \ {n}
    /\ failing' = "bad" /\ faults' = faults + 1
    /\ UNCHANGED <<runnerVars, mode, driver, disk, machine, discards, todo, losing,
                   crashes, history>>

(* Mutant: the journal of a finished commit is kept.                       *)
FinishedAgain ==
    /\ mode = "finishing" /\ doomed = {}
    /\ mode' = "stuck"
    /\ UNCHANGED <<runnerVars, driver, disk, machine, memory, recovery, crashes,
                   faults, history>>

Finished ==
    /\ mode = "finishing" /\ doomed = {}
    /\ mode' = IF settles THEN "over" ELSE "stuck"
    /\ UNCHANGED <<runnerVars, driver, disk, machine, memory, recovery, crashes,
                   faults, history>>

-----------------------------------------------------------------------------
Request ==
    \/ Step \/ Begin \/ Observe \/ Effect \/ Fail \/ Revert \/ RevertFails
    \/ DeleteBackup \/ DeleteDiscard \/ LeavePath \/ CommitFails \/ CommitStopped \/ Return
    \/ \E how \in Hows : \/ Create(how) \/ Prepare(how) \/ Succeed(how) \/ Satisfied(how)
                         \/ KeepReverted(how) \/ RecordCommit(how)
                         \/ CommitDone(how) \/ EndJournal(how)

Recovering ==
    \/ Recover(FALSE) \/ RecoverUndo \/ RecoverFails \/ Recovered
    \/ FinishBackup \/ FinishFails \/ Finished
    \/ \E how \in Hows : RecoverReverted(how)

Rest == mode = "over" /\ UNCHANGED vars

Next == Request \/ Recovering \/ Recover(TRUE) \/ Crash \/ Interrupt \/ Rest

Spec == Init /\ [][Next]_vars

(* A request goes on until it returns, and whatever journal is left is     *)
(* recovered by the next request or the next start of the daemon.  This is *)
(* weak fairness of Request and of Recovering, with the modes in which     *)
(* they are enabled written out.                                           *)
FairSpec ==
    /\ Spec
    /\ []<>(mode # "running") \/ []<><<Request>>_vars
    /\ []<>(mode \in {"running", "over"}) \/ []<><<Recovering \/ Recover(TRUE)>>_vars

(* As well, somebody runs mix repair when recovery does not get through.   *)
RepairSpec ==
    /\ FairSpec
    /\ <>[](mode # "stuck") \/ []<><<Recover(TRUE)>>_vars

-----------------------------------------------------------------------------
(* Properties.                                                             *)

(* The driver's, the journal's and recovery's state has its type, and no   *)
(* action goes beyond the numbers that versions and backups have.          *)
TypeOK ==
    /\ RunnerTypeOK
    /\ mode \in {"running", "down", "recovering", "finishing", "stuck", "over"}
    /\ io \in {"opening", "idle", "announced", "acted", "reverted", "committing",
             "incomplete"}
    /\ seq \in 0..MaxActs
    /\ signalled \in BOOLEAN /\ torn \in BOOLEAN /\ closed \in BOOLEAN
    /\ ended \in {"no", "ended", "unfinished"}
    /\ files \in [Place -> 0..Gone] /\ backups \in [1..MaxActs -> 0..Gone]
    /\ loaded \in 0..MaxActs /\ running \in 0..Off
    /\ doomed \subseteq 1..MaxActs /\ discards \subseteq {Junk}
    /\ failing \in {"no", "gone", "bad"} /\ losing \in BOOLEAN

Finally == mode = "over"
Kept == IF goal = None THEN before ELSE goal    \* the machine at commit

(* When nothing of a request is left to do, however it failed, was stopped *)
(* or crashed, and however often recovery itself was cut off, the files    *)
(* are as they were before the request or as they were when it committed - *)
(* unless an undo of the request's own rollback failed, which it reports.  *)
(* If it did not crash the same holds of the service: a rollback leaves it *)
(* running, or not, from the unit file it ran from before, and systemd has *)
(* loaded the file that is there (drive(), rollback_order, recover_from).  *)
AllOrNothing ==
    (Finally /\ failures = {}) =>
        /\ Files = before.files \/ Files = Kept.files
        /\ crashes = 0 => World \in {before, Kept}

(* Until the commit is recorded, nothing on the machine is changed that a  *)
(* later process could not put back: every version written was announced   *)
(* in the journal, and what it replaced is kept (drive(), commit_files()). *)
CanBePutBack ==
    goal = None =>
      \A p \in Guarded : files[p] \in 1..MaxActs =>
         /\ \E i \in DOMAIN log : log[i].rec = "Prepared" /\ log[i].seq = files[p] - 1
         /\ backups[files[p]] # Gone

(* What the request reports is what happened: a request that says it       *)
(* succeeded keeps the machine it had at commit, and one that ends without *)
(* committing and without a failed undo has put the files back.            *)
ReportIsTrue ==
    (Finally /\ phase = Closed) =>
      /\ (report = "Succeeded" /\ goal # None) => World = goal
      /\ (goal = None /\ failures = {}) => Files = before.files

(* A file is changed by a step that says so, and by nothing else: a step   *)
(* of an independent plan that failed, was stopped or was blocked leaves   *)
(* no trace, and the failure of one step costs no other its changes.       *)
Writes(s) == UNION {{q[i].at : i \in DOMAIN q} : q \in Plans[s]}
StepsStandAlone ==
    (Finally /\ Independent /\ failures = {} /\ crashes = 0) =>
      \A p \in Guarded :
         files[p] # 0 <=> \E s \in Steps : /\ outcomes[s] = "Changed"
                                          /\ p \in Writes(s)

(* Every journal is done with in the end, if need be by mix repair.  One   *)
(* is passed over for ever (recover_from): that of a request which had not *)
(* written its first record, and so had not changed anything.              *)
EveryJournalIsCleared ==
    <>(mode = "over" \/ (mode = "stuck" /\ log = <<>> /\ World = before))
=============================================================================
