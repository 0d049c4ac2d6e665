# A verification project for mix

`mix` installs packages for the users of a machine through Nix. A command is a
*request*. A request is a *plan*, a list of steps; a step looks at the machine and
asks for *actions*; every action tells its *undo* before it acts. A request that
fails, is stopped or dies must leave the machine as it was, or as it meant it to be;
what it says on the way must be so; and who asked must be answered. That is what
this project is about: it models the code that keeps these promises, checks it with
TLC on small instances and proves the part of it that does not depend on the
instance.

Paths below are relative to `src/crates/`.

## Inventory

| Part | State | Operations | Hard because |
|---|---|---|---|
| Journal (`core/src/run/journal.rs`) | the records of a request | `recover`, `rollback_order`, `pending` | decides from a cut-off log alone what must be undone, once, in which order |
| Runner (`core/src/run/mod.rs`) | phase, undos per step, doubts, verdict, causes | `step`, fed with answers | five ways out of a plan; stops, failures and failing undos in any order |
| Driver (`shell/src/drive.rs`, `shell/src/profile/change.rs`) | sequence number, last announcement, the journal in hand; a dry run's prediction | `drive`, `perform`, `commit`, `run_steps`, `predict` | what is on disk, what happened and what the runner believes drift apart at every await |
| File journal, recovery (`shell/src/effect/journal/mod.rs`, `shell/src/ops/mod.rs`) | one file per request, held by `flock` | `append`, `read`, `finish`, `recover_from`, `recover_records` | crashes, also in recovery; failed and torn writes |
| File effects (`fs/src/lib.rs`) | the file system, paths to delete at commit | 17 actions, each with its undo | exchange, check, give back: other programs and crashes between two system calls |
| Unit effects (`shell/src/effect/units.rs`) | systemd's units and jobs | reload, start, stop, enable, disable, restart, drain | jobs are waited for by signal; sockets start services; mix may be stopping itself |
| Home, generations, git (`home/src/`, `shell/src/effect/generations.rs`, `git.rs`, `shell/src/profile/`) | a profile's generations, links into the home, a repository | activate, switch, delete, clean, record | the user runs the same tools on the same profile; undos are announced with a predicted number |
| Nix runtime (`shell/src/ops/bootstrap/`, `shell/src/effect/runtime.rs`) | the store, its database, a scratch directory, a manifest | fetch, verify, unpack, move in, register, remove | many steps that cannot be one, and deaths between them |
| Operations (`core/src/ops/`, `shell/src/ops/`, `core/src/declared/`) | none: facts to plans | bootstrap, install, remove, update, clean, repair, user remove, purge, doctor, list | one fix may break what an earlier step put right; the machine is in any state of repair |
| Machine (`core/src/model/`, `core/src/effect/`) | accounts, files, units, profiles, repository | every action, its guard and its undo | the reference the conformance suite holds the performer to |
| Locks (`core/src/run/locks.rs`, `shell/src/request/lock.rs`, `home/src/lock.rs`) | machine `flock`, a mutex per user, registry of holders | `acquire`, drop, `named_machine_holder` | a waiting thread outlives its request; purge unlinks the lock file |
| Request hosting (`shell/src/request/`), daemon (`daemon/src/`), RPC (`rpc/src/`), scopes (`exec/src/`), client (`cli/src/`) | connections, admitted outsiders, a tree of scopes, process groups | connect, admit, run, steer, pause, stop, drain | stops, hang-ups, descriptors and deaths in any order |
| Installed (`shell/src/request/installed.rs`, `shell/src/effect/installed.rs`) | a listing per user, a queue, a pause | listing, warming, pausing | listings race with generations, garbage collection and a removal of the user |
| Upstream, previews (`shell/src/request/upstream.rs`, `core/src/ops/update.rs`, `shell/src/effect/installed.rs`) | answers of caches and branches | assess, plan, newest, decide | answers of processes that ran one after the other |
| Events (`events/src/`), screen (`render/src/`, `ui/src/`), audit log (`daemon/src/journal.rs`) | tree of nodes, outbox, lines and gauges | start, progress, finish; `validate` | the stream has a grammar that every path out of a request must keep |
| Nix's log (`nixlog/src/`, `shell/src/effect/exec/output.rs`) | a partial line, counters per activity, a tail | push, report, explain | chunks end anywhere, activities overlap |
| Nix text (`nixgen/src/`) | none | print, parse, fill in, quote | what is written must be read as it was meant |
| Command line, explanations, conformance tests | none that outlives a call | parsing, wording | nothing concurrent |

A request runs like this. A client connects to the daemon (or starts a worker of its
own), is admitted and steers its request by controls. The host takes the locks,
recovers interrupted requests, and calls the operation, which looks at the machine
and builds a plan. `run_steps` creates the journal and `drive` loops: it looks at the
stop flag, calls `Runner::step`, performs what the runner hands out, journals it and
brings the answer back; everything is told to a tree of events, whose outbox a
delivery task empties towards the client. When the runner is done the journal is
ended and removed. If the process dies, the journal is found by the next request or
by the daemon's next start, which asks `recover` what to do, does it, and removes the
journal.

What each part has to get right is what the runs check (below); where it is hard to
test is the list of hazards in PROJECT.json.

## Modules

| Module | Models | Checked in |
|---|---|---|
| `Journal` | `run/journal.rs`: records and the pure functions on them | everywhere it is used |
| `JournalLaws` | every log `drive` can write, against a reference for `recover` | `outside` |
| `Runner` | `run/mod.rs`: `Runner::step`; extends `Journal` | `drive_*`, `stream`; proved |
| `Drive` | `drive.rs`, the file journal and recovery, on a machine of a few files and one unit; extends `Runner` | `drive_service`, `drive_files`; proved |
| `Machine` | every action on a whole machine: guard, effect, undo | `requests` |
| `Tree`, `Declared` | what mix declares of a machine, and the order it is checked in | `requests` |
| `Health` | findings, fixes, the audit, the reconciling steps; extends `Declared` | `requests` |
| `Operations` | what each command settles on and plans; extends `Health` | `requests` |
| `DryRun` | a dry run's prediction; extends `Operations` | `requests`, `dry_run_differs` |
| `Requests` | whole requests on `Machine`, with recovery; extends `DryRun` | `requests`, `dry_run_differs` |
| `Files` | the file actions, one step per system call | `files` |
| `Slot` | the abstract promise of a file action about one path | `files` (refinement) |
| `Units` | the unit actions, one step per call, on systemd's jobs | `outside` |
| `Profile` | activation, switching, cleaning, recording, against the user | `profile`; proved |
| `Provision` | the Nix runtime fetched, unpacked, moved in, removed | `outside`; proved |
| `Locks` | `request/lock.rs` and the end of a purge | `locks`; proved |
| `Host` | client, connection, daemon, worker, scopes and children | `host`, `paused_client_leaves`; proved |
| `EventTree`, `Validate`, `Screen` | the event tree and outbox; the grammar; terminal and audit log | `stream` |
| `Stream` | `host()`'s telling of a request; extends `Runner` and these three | `stream` |
| `Listings` | listings, warming, the cache and its pause | `listings`; proved |
| `Preview` | what is said before an installation, and of an update | `outside` |
| `Nixlog` | the log of a running nix | `outside` |
| `NixText`, `NixFiles`, `NixLaws` | printer and parser; generated files and arguments; the law that joins them | `outside` |
| `RunnerProofs`, `DriveProofs`, `LocksProofs`, `ListingsProofs`, `HostProofs`, `ProfileProofs`, `FilesProofs`, `ProvisionProofs` | theorems | proved, not run |

The parts fit together like this. `Runner` leaves the answers to its queries and
actions open; `Drive` puts the driver, the journal and a crash in their place and is
shown to refine it, `Stream` puts a teller of events there. `Requests` has the
whole of what a request plans and does to a machine, action by action; `Files`,
`Units`, `Profile` and `Provision` open the actions that are not one step of the
machine and show that they come to what an action there promises: done, or not, or
undone. `Host` has a request as steps that a scope may or may not stop.

**Journal.** A record is a record tagged `rec`; an undo is a member of `Action`. The
constants say which actions are syncs, which of them is the reload, which actions
need loaded units and which backup (`from`) a `Restore` holds. Loops of the code are
folds, under the name of the variable they build.

**Runner.** `phase` is the `Phase` enum, the other variables the fields of `Runner`
and `Report`. Each arm of the loop in `step` is an action. Those that do not return
(`Internal`) are the runner's own; those that consume an `Input` (`Answer`) take the
answer from the constants. An action stays at the head of `queue` until it is
answered. The stop flag is looked at once per call of `step`, so `stop` changes only
with an answer (`poll`). `outcomes` is recorded for every plan, where the code
reports it only for independent ones; no transition reads it.

**Drive.** One request, its journal on disk, from the empty file on (`Create` writes the
first record), and a machine: files with versions (0 before the request, *n* written by
action *n*), backup *n* beside it, and one unit with the file systemd has loaded and the
one it runs from. The steps of `drive` that
another actor or a crash can come between are actions of their own. `Crash` loses
memory and keeps the disk. `Recover` is `recover_from`, with `losing` for `mix
repair`, which accepts what can no longer be put back. A write of the journal takes a
`how`: `ok`, `lost`, `unsynced` (the line is there, the call failed) or `torn`.
The representatives of the actions are chosen by the kind of undo.

**Machine, Declared, Health, Operations, Requests.** A path is a sequence of
components, a component carries the purpose of a sibling mix makes. Of paths of one
kind (the directories of `/nix/var`, the build users) one stands for all. `Apply`
answers whether an action was done, the machine after it and its undos. `Health` has
`look`, `finding` and `fix` of each target; `Operations` the steps of each command.
`Requests` takes a request through planning, its steps one action at a time, failing
actions, a stop, a crash, its rollback or commit, and lets others change files in
between; a second request recovers first. Contents, pins and package lists are what
the properties tell apart. A forced bootstrap recreates the group with its caller
only, and is left out of `OthersAreLeftAlone`.

**DryRun.** The prediction is a second machine, filled from the first when an action
is about to be predicted (`Seed1`), and it answers what one of its actions touched
(`Seen`). Left out: predicting a recovery, and units that run from outside.

**Files and Slot.** An action is the list of system calls it has left; a call that
fails replaces the rest by what the code does then. Other programs create, replace
and remove the same path between any two calls, and mix dies between any two. `Slot`
says what every action promises the others about a path. What mix writes is numbered
upwards from 1 and what others write downwards from -1; 0 was there before.

**Units.** systemd is external: one job a unit, as mode `replace` leaves it, its end
told by a signal to whoever listens. Connections start the service of an active
socket, others stop units, the bus goes away, and mix may run in the very service.

**Profile.** Every command of an activation may fail, the agent that acts as the user
may die, mix may die anywhere, and the user switches, builds, deletes and commits
between any two commands.

**Locks.** The steps of `acquire` and of the drop of `Held`, in their order. A flock
is on the inode a request opened (`fd`), `path` is the inode the path leads to;
`Unlink` is the end of a purge. A waiting request has a `thread` in `flock()`, which
outlives a stopped request (`Stop`, `Orphan`). Neither the writing of a holder's name
nor its removal is sure: the file may keep what was in it (`holders`, `Truncate`).

**Host.** A client, its connection with the two directions of it, the request it
asked for, and one daemon. Signals to the client become controls; the daemon is told
to stop or to drain, runs out of descriptors, fails, dies and is started again by its
socket. A child is `guarded` (a scope kills it), `shielded`, or an `agent`. A crash
takes with it what the daemon had not written of its replies (`Written`): the client
then reads some of them and the end of the stream, and a request that had returned
counts as crashed for a client that is not told all of it. `cancel` is one step: that
the reason is set before the token (`exec/src/scope.rs:117`) is not seen.

**Stream.** The runner's transitions, told to `EventTree`; a delivery action takes
from the outbox at any time into the three readers. A panic unwinds the tree.

**Listings, Preview, Nixlog, Provision.** Every answer of nix, of a cache or of
upstream is that of a process which ran for a while; what it is about may change
between two of them. In `Nixlog` the bytes are symbols: white space, line ends, the
phrases a failure is recognised by, and whole records.

**NixText.** A text is a sequence of characters of which what the writer and the
parser tell apart is kept. Layout is one space.

## Runs

| Run | Shows | Bounds | States |
|---|---|---|---|
| `drive_service` | `PlanIsAtomic`, `NewestStepFirst`, `AllOrNothing`, `EveryJournalIsCleared`; that `Drive` implements `RunnerSpec` | 3 steps, 4 actions, a stop at any moment, 2 crashes, no faulty disk | 52 thousand |
| `drive_files` | `CanBePutBack`, `StepsStandAlone`, `ReportIsTrue`, `DependenciesHold`, `NothingStartsAfterStop` | 3 independent steps, 5 actions, one fault of the journal or of a deletion, no crash | 86 thousand |
| `locks` | `ExclusiveUntilPurged`, `OneRequestPerUser`, `NamesAHolder`, `EveryoneEnds` | an install and a dry run of one user in one process, a purge in another, 2 lock files | 49 thousand |
| `requests` | `NoTraceIsLeft`, `SuccessIsReal`, `OthersAreLeftAlone`, `DryRunHidesNothing` | 9 histories of two commands on an empty and an established machine, two users, 7 kinds of drift, one trouble | 93 thousand |
| `files` | `NothingIsLost`, `UndoneIsAsBefore`; that `Files` keeps the promise of `Slot` | 2 actions of 8 kinds on 4 kinds of path, 2 moves of others, one failing call, 2 crashes | 308 thousand |
| `host` | `NobodyIsAbandoned`, `AnswersAreTrue`, `EveryoneIsAnswered` | a member, two connections of an outsider, one client with a worker of its own; one step, 2 commands, one descriptor, 2 troubles | 282 thousand |
| `profile` | `UndoneProfileIsBack`, `DoneIsWhole`, `OldGenerationsAreKept`, `HistoryOnlyGrows` | 2 lists, 2 pins, 4 generations, 2 requests, 3 troubles | 2.3 million |
| `stream` | `StepsAreAtomic`, `StreamIsAccepted`, `ReadersAreRight` | 2 steps, one shielded and one with two actions, 2 reports, failures or stops, one prelude | 195 thousand |
| `listings` | `ListingIsTrue`, `NothingListsWhileRemoving`, `EveryoneIsServed` | one listing, one warming task, one removal, 2 changes by the user, 2 askings; generations of no package, of two pins and of a lock nobody can read | 538 thousand |
| `outside` | `RecoveryIsRight`, `WhatIsWrittenIsRead`, `LogIsUnderstood`, `PreviewIsTrue`, `RuntimeIsWholeOrGone`, `UnitsSettle` | see below | 806 thousand |
| `paused_client_leaves` | refutes `LeavingEndsTheRequest` | one client, one step | |
| `dry_run_differs` | refutes `DryRunIsExact` | as `requests` | |

`outside` puts five subjects that share no state side by side; a behaviour is about
one of them. Logs of up to 6 records of 2 actions with 4 undo lists; Nix expressions
of up to 4 pieces and the generated files for every name of the instance; 3 writes of
nix's log, cut into chunks anywhere, 3 lines kept; a package of two outputs, two
caches, two inputs, 2 changes and one failure; an archive of three store paths, links
looked up for two of them, 2 attempts, 2 failures or deaths, scratch directories
interchangeable; a socket and its service with one disturbance (run
with two, `UnitsSettle` holds of a million states).

Why the bounds are enough. Two crashes let recovery itself die and be resumed. Three
steps are the fewest with one before and one after the failing step. In `drive_files`
the same file is written twice, so that undoing in the wrong order is seen, and one
action has its undo at commit. `drive_service` excludes faults and `drive_files`
crashes because together they break the promise, as "What the models found" says.
Two requests let the second meet what the first left; one trouble per history is
what recovery promises to survive (a crash in a recovery is `drive_service`'s). In
`locks`, two shared requests of one user are enough for the mutex to be contended
while both hold the flock, an exclusive one for the flock to be. In `profile` three
troubles let the user act, the agent die and mix crash in one request. In `host` one
descriptor makes the second connection wait for the first.

Where a run has `CHECK_DEADLOCK FALSE` the system really stops: every request of a
bounded history is answered.

### Fairness

`FairSpec` of `Drive` has weak fairness of a running request: the loop in `step` has
no exit but a return, `drive` awaits each action and passes its failure on; and a
journal that is left is sooner or later recovered: every request and every start of
the daemon do it. `RepairSpec` adds that a journal that recovery does not get through
is in the end met by `mix repair`. `FairSpec` of `Locks` is weak fairness of each
request: the runtime polls it, the kernel wakes the thread of a flock that stays free,
and what runs comes to its end. `FairSpec` of `Host` is weak fairness of each process:
a client, a worker and the daemon run while they can and a child that is not stopped
ends; systemd starts the daemon for a waiting connection. `Spec` of `Listings`:
each listing and each removal is polled, and nix ends. In none of them are stops,
signals, failures, deaths or the user fair. `EveryoneIsAnswered` supposes that no
command stays paused for good, which the daemon waits for by design
(`daemon/src/serve.rs`).

## What the models found

Two disagreements are runs that TLC refutes; PROJECT.json quotes what the repository
says.

1. `paused_client_leaves`: a client that pauses and then goes away leaves a stopped
   child of a shielded step, or an agent, that nobody continues; the request keeps its
   locks for ever.
2. `dry_run_differs`: a dry run of `clean` tells an activation and a record that
   `clean` does not make, because the copied profile lacks what its generations were
   built from.

Others shaped the properties; each is excluded by name where a property says so.

*Journal and recovery.* A request that dies, or whose first write fails, after its
journal was made and before `Began` can be read (`effect/journal/mod.rs:43`, `:56`)
leaves a file that every recovery passes over (`:191`) and none removes; hence
`EveryJournalIsCleared` lets such a journal stay, with nothing changed on the machine.
A crash between an undo and its `Reverted` record: `Restore`
works once, every later recovery meets a conflict and keeps the journal until `mix
repair` (`shell/src/effect/journal/mod.rs:259`, `fs/src/lib.rs:1035`); hence
`RepairSpec`. `Reverted` carries no number (`core/src/run/journal.rs:109`): the reload
of an action in doubt cancels the reload of a confirmed one; hence `AllOrNothing`
speaks of the service only without a crash. A commit resumed by recovery deletes the
backups and not the trees the plan gave up (`journal.rs:54`). Recovery ignores why the
undo of an action in doubt failed and removes the journal
(`effect/journal/mod.rs:246`). After a short write of a record that is only worth a
warning, what is announced later is unreadable (`effect/journal/mod.rs:85`). If
neither the commit nor the end can be recorded, success is reported and the next run
undoes it. A rollback some undo of which failed is ended all the same, so no later
run tries that undo again.

*Locks.* Purge unlinks the lock file while it holds it (`effect/removal.rs:33`): who
waits for the old inode and who makes a new one both run alone. A holder whose name
could not be taken out of the lock file (`request/lock.rs:84`) is named by those who wait
for the next one, as long as its process lives (`uncleared` in `NamesAHolder`).

*Dry runs.* Besides finding 2: seeding below a `/nix` that was predicted moved copies
real entries, so a later action of a forced bootstrap is refused; the links of a unit
nothing touched are missed once a touched unit is near (`drive.rs:237`); what is
put back is predicted as a record (`unrecorded`); everything below a directory
predicted as reclaimed is answered as missing (`drive.rs:213`); restarts and drains
are told too often, since the prediction's times are not the machine's. All but those
that move trees tell too much rather than too little, which is `DryRunHidesNothing`.

*Files.* If somebody acts between the exchange of a file and its being given back,
their file is deleted (`fs/src/lib.rs:785`); `Discard` looks once and the commit
deletes whatever of the same owner is there by then; a directory removed in place may
be left emptied, which its undo takes for a conflict; the undo of `SetMode` does not
ask whether it is the same file; a crash in the removal of what was created may leave
another's file under its new name; what is written into a tree while it is being
reclaimed goes with it.

*Units.* A cancelled `StopUnit` leaves its job queued; its undo finds the unit active
and does nothing, then the stop comes (`effect/units.rs:417`). Undoing the start of a
socket stops a service that ran without it. When mix's own unit would end, its job is
not waited for and the action answers that it is done.

*Profile.* The undo of an activation in doubt deletes the user's own generation that
took the predicted number. An agent that died is not started again in the same
request (`drive.rs:359`), so the undos fail and the request is ended nevertheless.
What a first activation linked into the home stays when it is undone. A crash after
the record leaves the repository ahead of the files. A home left half linked is not
noticed while no activation is needed.

*Host, stream, listings.* A request that starts after the daemon was told to stop does
not hear of it. Suspend and continue before the first is acknowledged stop the
client. A request that unwinds ends with exit code 0. What a query reports may be told
under the next action's node. The pause of a removal holds only inside one process. A
listing asks the store two questions (`effect/installed.rs:585`, `:596`); what is
collected between them comes back null, is dropped (`:82`), and the packages are told
without version and path. That answer is kept for the store path of the generation
(`request/installed.rs:148`), so a user who goes back to it is told it again.
`ListingIsTrue` lets a package be without version only then (`torn`), with a mirror, or
for a generation whose lock cannot be read.

*Outside.* Text before the first record is dropped when a failure is explained. An
update whose last look at the active generation fails is reported as failed though it
was made. A store path that the archive also has is removed before the new one is
renamed into its place (`fetch_and_unpack.rs:330`), and lost if mix dies in between.
An undo in doubt into an existing store leaves the paths that were moved. An attempt
that takes up the scratch directory of a dead one passes over what is moved
(`fetch_and_unpack.rs:330`) and asks for the links of nix and nss-cacert only (`:89`), so
another path that was renamed and not yet sealed is installed writable: `InstalledIsWhole`
asks for all paths sealed where the attempt unpacked the archive itself, and for those two
otherwise. A default profile that was there is pointed to mix's generation by `nix-env
--install` (`fetch_and_unpack.rs:448`); the undo removes the generation and leaves the
link dangling (`effect/runtime.rs:131`, `:164`), which `UndoneIsAsBefore` says. A
manifest an attempt could neither rename nor remove stays, until another attempt of the
same process writes and renames its own under that name (`fetch_and_unpack.rs:132`).

## Proofs

The eight proof modules rest only on the named assumptions about the constants.

### The runner

`RunnerProofs` proves of `RunnerSpec`, for every number of steps, every dependency
relation, every set of shielded steps, every action and answer, independent or not:
`RunnerTypes`, `WholePlans`, `IndependentSteps`, `Backwards`, `TrueSuccess`,
`StopsAreHeeded`, `ShieldsHold`, `Dependencies`. They rest on `RunnerAssumption`: `N`
is a natural number, dependencies are sequences of steps, shielded steps are steps.
`Drive` implements `RunnerSpec` (next section), and `Stream` is made of its transitions.

The properties speak of the end of a run, or of one moment in it, and none is
inductive. The inductive invariant `Inv` (`RunnerInvariant`) says what holds in each
phase. While steps are checked and performed, the run is *at* one step: every earlier
step has a final outcome, nothing in doubt and undos only if it was carried through
(`Passed`), no later step has been touched (`Untouched`), and there is a verdict only
if the plan is independent (`Going`). In a rollback only the steps still to be undone
may hold an undo that must not stay (`Owed`), what is left is older than what is
being undone, and what follows (`after`) fits what was done (`Resuming`). In the
ending, undos are those of steps carried through (`Settling`), a plan that is not
independent has either no undo or no gap (`Whole`), and a verdict of success is
earned (`Earned`). `Blamed` ties causes to outcomes. The lemmas `To...` say which of
these a transition must establish to reach a phase, `Fails`, `Cancels` and `GoesOn`
are the code's helpers, and there is one lemma per group of actions. `ShieldsHold`
and `Dependencies` need more: that an outcome is set once, by a step that was not
decided (`OneOutcome`), and that what a step depends on was clean when it began
(`ClearedKept`).

### The driver

`DriveProofs` proves `DriveImplementsRunner`: for every plan, every bound on crashes,
faults and stops, each step of `Drive` is a step of `RunnerSpec` or leaves the runner
alone. So the runner's theorems hold of every request that is driven;
`RequestsAreAtomic` and `RequestsUndoBackwards` state two of them. The driver keeps
what it is doing in variables of its own, and an answer of its fits the runner only
if the runner still waits for it. The invariant `Fed` says so: the runner's `Inv`, the
queue holds actions of the plan and is not empty while one is awaited (`Queued`), and
the driver is in the middle of exactly what the runner asked for (`Acting`). It rests
on `DriveAssumption` and `DrivePlansAssumption` (plans are made of the modelled
actions, the undos the runner may be told of include the ones they announce and are
all undos of the driver, the journal is that of the driver's actions, and `None` is no
state of the machine).

`DriveTypes` says that journal, machine and recovery keep their types. What a recovery
carries out is what the loops of `run/journal.rs` make of the journal, so it needs to
know of every one of them that what it returns is made of what it was given
(`RollbackIn`, `RecoverIn`, `PendingIn` and those before them). A loop is a `Fold`, and
the induction theorems of the library take an operator, which no prover here can
instantiate; `Stays` and `Recursion` state induction and recursion for families of sets
and of functions instead, from well-foundedness, and there is one lemma (`...Fold`) for each
operator that is folded.

`NothingIsBeyondRecall` proves `CanBePutBack`: until the commit is on record, every
version a guarded file has was announced and what it replaced is kept, at every crash,
and in the middle of every rollback and of every recovery of a recovery. The property
is about the file as it is; a rollback, or half of one, leads to any earlier version,
so each of them must be in that state too. The invariant `Linked` says that the
versions form chains: each belongs to one place (`Owned`), no backup is kept under two
numbers and none is also the file, so that undoing one write takes nothing another undo
needs, and the version after the last is not in use (`Below`). What acts is announced
(`Ahead`), and before `goal` is set nothing commits and no `Committing` is on record
(`Uncommitted`), so that no backup is deleted. `TreeOwned`, `WriteOwned` and
`RestoreOwned` are the three ways a chain grows or shrinks. The theorem supposes that no
write of the journal leaves half a line *while the request runs*: after one, what is
announced later is unreadable (*What the models found*), and the property fails. Half a
line left by a crash is covered, and so are lost and unsynced writes.

### The locks

`LocksProofs` proves, for any requests, processes and users, `OneTurn`,
`WaitsAreNamed`, `RegistryIsRight` and `RunsAlone`. They rest on `LocksAssumption` (each
request has a process, a need and perhaps a user; purges want the lock exclusively).
That two requests run says nothing of flocks; the invariant ties the place of a
request to what it holds: a flock exactly if it is past it or its thread got it
(`Holders`), on one inode an exclusive one alone (`Excludes`), the mutex of its user
from `owning` on (`Owners`). Whoever the registry (`Registered`) or a file (`Written`)
names has not begun to leave, but for one in a file that could not be cleared. All of this survives a purge. `RunsAlone` needs one
thing more (`Made`): that every inode in use is one of those counted, so that with
one made, two flocks are on the same. There is one lemma per action.

### The listings

`ListingsProofs` proves `Pause` and `TrueListings` for any users, listings, removals,
packages and pins, from `ListingsAssumption` and `NoneAssumption` (`None` is no entry, no
remover and no pin). `Pause` follows from what the readers and the writer of the lock
exclude (`Shared`). An answer is true because of what was kept on the way: a listing
has seen every generation that was active since it began (`Seen`), what it has asked of
nix was asked at the pins of the generation it began with, even when the branch has
moved since (`AskedOf`, `Pinned`), the store knew all its paths unless it was collected
between the two questions (`Found`), the slot holds what was true of the generation it
names (`Kept`), and putting the parts together loses none of that (`JoinHolds`).

### The daemon and its clients

`HostProofs` proves `DaemonWaits` and `ExitCodesAreTrue` for any clients, of the daemon
or on their own, any commands, signals, crashes and restarts, from `HostAssumption`.
That nobody is abandoned (`NobodyIsAbandoned`) is a chain: the daemon runs as long as
it has a connection (`Open`), and a request that was asked for is served on an open
one (`Attended`). That an exit code is true (`AnswersAreTrue`) is a matter of order:
every end on its way says how the request really ended, none is on its way before it
ended, and the stream is closed only behind one, unless the worker crashed
(`Answered`). The lemmas `OneMore`, `OneLess` and `WrittenSays` say what a reply sent, a
reply read, and the loss of the last ones do to such a stream; `Local` and `Elsewhere` that a client sees nothing of the
steps of another. Of the types only what a step reads is kept (`Shape`).

### The profile

`ProfileProofs` proves the four properties of `Profile`, for any lists and pins and any
bounds, from `ProfileAssumption`, against a user who runs nix, home-manager and git
between any two commands, with mix dying anywhere. Three invariants rest on one another.

- `Inv` (`ProfileInvariant`): every undo that is journalled or still to be tried spares
  the generations the request found (`Spares`). An activation announces the undo of a
  number it only predicts, so this needs that the number is past all that were there,
  also when the newest is read again after the user acted (`Looked`; `NewestIs` is the
  maximum of a finite set of numbers, by well-foundedness). `GenerationsAreKept` follows,
  and `RecordingOnlyAdds`: the branch moves only from the commit that was read.
- `CourseInv` (`RequestsRunTheirCourse`): until somebody meddles, the files, the
  generation built of them, the link and the home follow one another by the place the
  request is at (`Course`), and what it set out for is what it wrote (`Wanted`).
  `SuccessIsWhole` is its last place.
- `BackInv` (`EveryStepHasAWayBack`): the journal is what is left of one activation and
  one write. `Part` names the five shapes an activation can be in, `Rest` what one undo
  leaves of each, and `NextOf` shows that `RollBack` and `Drops`, for every such journal,
  go from a shape to its rest. While the request is under way the shape fits its place
  (`Before`); from then on carrying out what is left leads back to what was found
  (`Undoable`), and every undo keeps that, also one cut short, or tried again after
  another crash (`UndoneUndoable`). `FailureLeavesNothing` is the case of nothing left.
  As the property does, it leaves out a profile somebody meddled with and an undo that
  failed.

### The file actions

`FilesProofs` proves `NothingOfOthersIsLost` and that `Files` implements `Slot`
(`PathIsLeftToOthers`), for any actions, any number of them, any faults and crashes and
any acts of other programs, from `FilesAssumption`. Both need to know how far an action
is, so the invariant (`FilesInv`, `FilesAreInOrder`) is a proof outline of every list of
calls in `crates/fs`: one predicate a list (`Creating`, `Putting`, `Aside`, `Reclaiming`,
`ByCopy`, `Removing`, `RestoringOver`...) that says before its k-th call which names of
the action are free, what is under the others, what may be at the path since it was
looked at (`Since`), and which identities are nobody's yet; one for each way of cleaning
up after a call that failed (`Failing`). Around them:

- `Safe(R)`: every datum of others is in a node that no undo on record removes (`Expects`)
  and that is none of the nodes `R` the calls ahead may remove, or in a directory, which
  is only removed when it is empty; and whatever is found of others is alive. That an
  announcement replaces undos, and the copy stops being removable before the original is
  emptied (`Copy5`, `Copy6`), is where this is needed.
- `Recorded`: every undo on record fits the directory: the backup it restores is whole, and
  what carries the identity it expects is a file or a tree mix made. An undo that finds
  another identity puts it back (`PuttingBackStep`).
- `Numbers`: names and identities of earlier actions are below those of the one in hand,
  and names are left for each undo after each crash, so no sibling is ever reused.

The proof goes call by call (`SystemStep`), for the request (`SucceededStep`,
`CrashStep`, `RecoverStep`...), and for the others (`OthersStep`): they change only the
path, and every predicate says of the path nothing they could break. While nothing is
void the data of others is at the path, or mix holds it, exactly if it is alive
(`HeldIs`), which is the refinement mapping. The property gives up where the code does:
from the moment somebody acts, or a call fails, while mix holds what it caught (`void`).
`UndoneIsAsBefore` needs to know what every undo leaves at the path, and stays with TLC.

### The Nix runtime

`ProvisionProofs` proves `InstallsAreWhole` and `UndoingLeavesNothing`, together
`RuntimeIsWholeOrGone`, for any archive, scratch directories, number of attempts,
failures and deaths of mix, given `NamesAreApart`: the paths of the archive, the names
mix uses in `/nix` and the words the model uses are different ones. That two attempts
use different names for a manifest being written is *not* supposed: the name has the
process's number in it, and a daemon may try twice. The module is instantiated by its
run, so `NamesAreApart` stands before each theorem instead of being an assumption of the
module; the run checks that its constants satisfy it (`RuntimeNames`).

Neither property is inductive: both are about the end of an attempt. The invariant
(`ProvisionInv`, `RuntimesAreInOrder`) has three parts.

- *What was there is there* (`Base`): in every state between the announcement of the
  undo and its end, what was in `/nix` and in the store is still there, but for the
  manifest of an earlier attempt, its directory, and what the archive replaces; and a
  profile that was there leads where it led or to mix's generation, there or removed. So a
  directory that is used again must be told from one that was not there (`Stage`).
- *What is new is covered*: the undo on record (`Owes`) lists the profile and the store
  exactly if they did not exist, everything else comes from comparing listings, so what
  `Performed`, `CleanUp` and `Undo` make of it, each from other knowledge, contains all
  that is new and nothing that was there (`AllOfIt`, `Clearing`), wherever mix died.
- *What is linked to is sealed* (`Linked`): an entry gets its link only after its write
  bits are gone. Of a directory this attempt unpacked every entry is still in it, linked
  to, or in hand (`Accounted`), so when none is left to move all are sealed; one that an
  earlier attempt emptied vouches for the paths whose links are looked up (`Vouched`,
  `Sealed`). What the database keeps after `ForgetVanished` makes the store whole when
  the profile takes it (`Whole`).

### Only model-checked

Liveness and fairness, which TLAPS does not do. What exactly a fold over a log, a plan
or a text computes: `RecoveryIsRight`, `WhatIsWrittenIsRead` and `LogIsUnderstood`, and
`AllOrNothing`, `StepsStandAlone` and `ReportIsTrue`, which need that `recover` returns
*every* undo still owed, in order, where `RecoverIn` says only that it returns no other;
`StreamIsAccepted` and `ReadersAreRight` are folds of a grammar over a stream.
`Requests`, whose machine is an instance and whose tree is recursive. `UndoneIsAsBefore`
of `Files`; `Units` and `Preview`.

## Not modelled

- Several recoverers: the `flock` of each journal and `abandoned()`, which only words
  for `doctor` what `recover` would do.
- Descriptors, permission bits of single calls, and the walk of a path to its parent
  in `fs/`; the kinds of file a walk refuses. `remove_in_place`
  (`fs/src/lib.rs:952`) is modelled where a directory of a lower layer is removed after
  it was copied (`InPlace`, `RemoveDir`); as an undo it would need a tree mix made to have
  become one that no rename moves, and that is left out.
- The two halves of `Scope::cancel` (`exec/src/scope.rs:117`), which are one step.
- The prediction of a recovery in a dry run, and of units that run already.
- Versions and schemas of the connection; a second request of one connection; the
  cached answer about who may use the daemon.
- The archive embedded in some builds; progress of a download.
- Refusals of a mirror; the sizes shown; descriptions and licences of a listing.
- The daemon's log, the capture of a stream for tests, arguments and wording
  of the command line, explanations: text, without state.
- The conformance suite, the test child and the pins: tests and constants.
