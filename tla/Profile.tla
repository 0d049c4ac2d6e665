------------------------------- MODULE Profile -------------------------------
(***************************************************************************)
(* A user's profile as the performer changes it: the package list and the  *)
(* pins in the state directory, the generations `nix build --profile`      *)
(* makes from them, the link to the active one, what home-manager linked   *)
(* into the home, and the repository the files are recorded in             *)
(* (crates/shell/src/effect/generations.rs, crates/shell/src/profile,      *)
(* crates/home, Performer::record of crates/shell/src/drive.rs).           *)
(*                                                                         *)
(* mix asks about the home through an agent running as the user, which may *)
(* die.  The user runs nix and home-manager on the same profile: nix's     *)
(* lock is waited for, never kept, so they act between any two commands    *)
(* mix runs.  Every command may fail and mix may be killed after any step. *)
(*                                                                         *)
(* Runner and Drive are about the journal and the order of undos; here the *)
(* journal is what it tells a recovery: the undos of finished actions, the *)
(* newest first, and those announced for an action that has not ended.     *)
(***************************************************************************)
EXTENDS Integers, Sequences, FiniteSets

CONSTANTS
    Lists,         \* package lists, by what they hold
    Seed,          \* the list a profile starts from
    Pins,          \* the times inputs can be pinned at
    Embedded,      \* the pins this mix ships with
    MaxGeneration, \* bound on the generations that are made
    MaxRequests,   \* bound on the requests
    MaxTroubles    \* bound on failures, crashes and what the user does

ASSUME ProfileAssumption ==
    /\ Seed \in Lists /\ Embedded \in Pins /\ Pins \subseteq Nat \ {0}
    /\ Lists \cap {"none", "broken", "newer"} = {}
    /\ {MaxGeneration, MaxRequests, MaxTroubles} \subseteq Nat

VARIABLES
    links,    \* generation -> what it was built from
    active,   \* the generation the profile's link names, or None
    home,     \* what home-manager last linked into the home
    files,    \* the list and pins in the state directory
    head,     \* the newest commit: what it records, and how many came before
    nix,      \* who holds nix's lock on the profile
    pc, op,   \* the request: where it is and what it has seen
    agent,    \* whether the agent of the request answers
    journal,  \* what a recovery would undo
    todo,     \* the undos of a rollback or recovery that are left
    asked,    \* how many requests there were
    left,     \* how much trouble there may still be
    past      \* the profile a request began with, and what happened since

vars == <<links, active, home, files, head, nix, pc, op, agent, journal, todo,
          asked, left, past>>
profile == <<links, active, home>>

None == 0
Unread == [list |-> "none", pins |-> 0]   \* a generation without mix's inputs
Torn == [list |-> "torn", pins |-> 0]     \* a home some activation left half done

Newest(gens) == IF gens = {} THEN None ELSE CHOOSE g \in gens : \A h \in gens : h <= g
Linked(g, built) == [h \in DOMAIN links \cup {g} |-> IF h = g THEN built ELSE links[h]]
Content(generation) == IF generation \in DOMAIN links THEN links[generation] ELSE Unread

(***************************************************************************)
(* What a request starts from.                                             *)
(***************************************************************************)
\* The generation wins over a list it was not built from; a list that cannot
\* be read gives way to the generation's, and that to the seed.
settle(file, generation) ==
    IF file = "newer" THEN [list |-> "newer", source |-> "File"]
    ELSE IF file \in Lists /\ generation \in {file, "none"}
         THEN [list |-> file, source |-> "File"]
    ELSE IF generation \in Lists THEN [list |-> generation, source |-> "Generation"]
    ELSE [list |-> Seed, source |-> "Fresh"]

forward(from, to) == IF to > from THEN to ELSE from

settle_pins(file, generation) ==
    LET found == IF generation # 0 THEN generation ELSE file
    IN  IF found = 0 THEN Embedded ELSE forward(found, Embedded)

decideAny(have, newest) == newest
\* `mix update` moves an input only to a later pin.
decide(have, newest) == IF newest > have THEN newest ELSE have

\* The finding of Target::Activation.
stale(want) == Content(active).list # files.list \/ Content(active) # want

built_anywhere == Newest(DOMAIN links)
\* The newest generation whose copies of the inputs are the files there are.
built_generation == Newest({g \in DOMAIN links : links[g] = files})

(***************************************************************************)
(* Undos.                                                                  *)
(***************************************************************************)
Switch(generation, expect) == [undo |-> "switch", to |-> generation, expect |-> expect]
Delete(generation) == [undo |-> "delete", generation |-> generation]
Apply == [undo |-> "apply"]
Restore(was) == [undo |-> "files", was |-> was]

undo_activationLast(previous, new) == <<Delete(new), Switch(previous, new), Apply>>
undo_activation(previous, new) == <<Switch(previous, new), Delete(new), Apply>>
undo_reuse(previous, new) == <<Switch(previous, new), Apply>>

SettledBlindly(o) == undo_activation(o.previous, o.new)
\* The undos of an action that ended, with what nix really made.
Settled(o) == IF o.previous = o.new THEN <<>>
              ELSE IF o.new \in o.before THEN undo_reuse(o.previous, o.new)
              ELSE undo_activation(o.previous, o.new)

Sure(undos) == [i \in DOMAIN undos |-> [act |-> undos[i], sure |-> TRUE]]
Unsure(undos) == [i \in DOMAIN undos |-> [act |-> undos[i], sure |-> FALSE]]
RollBack(j) == Unsure(j.announced) \o Sure(j.done)

NoJournal == [done |-> <<>>, announced |-> <<>>]
NoOp == [kind |-> "none", want |-> Unread, activating |-> FALSE, built |-> None,
         previous |-> None, before |-> {}, predicted |-> None, new |-> None,
         queue |-> {}, seen |-> 0]
NoPast == [links |-> <<>>, active |-> None, pins |-> 0, home |-> Unread, files |-> Unread,
           theirs |-> {}, want |-> Unread, kind |-> "none", ran |-> FALSE,
           meddled |-> FALSE, stuck |-> FALSE, kept |-> FALSE, said |-> "none"]

Troubled(n) == left >= n /\ left' = left - n

Init ==
    /\ \E list \in Lists \cup {"broken", "newer"} :
           files = [list |-> list, pins |-> Embedded]
    /\ LET mine == [list |-> Seed, pins |-> Embedded]
       IN  /\ links \in {<<>>, <<mine>>, <<Unread, mine>>}
           /\ active = Newest(DOMAIN links)
           /\ home = Content(active)
           /\ head = [tree |-> mine, before |-> 0]
    /\ nix = "free" /\ pc = "idle" /\ op = NoOp /\ agent = TRUE
    /\ journal = NoJournal /\ todo = <<>>
    /\ asked = 0 /\ left = MaxTroubles /\ past = NoPast

(***************************************************************************)
(* Going on, giving up.                                                    *)
(***************************************************************************)
\* An action failed: what it announced is undone first, then what was done.
Fail(j) == pc' = "undo" /\ todo' = RollBack(j) /\ journal' = j

\* The agent is killed; it is not started again for the same request.
AgentDies ==
    /\ pc \notin {"idle", "crashed"} /\ agent /\ Troubled(1) /\ agent' = FALSE
    /\ UNCHANGED <<profile, files, head, nix, pc, op, journal, todo, asked, past>>

\* The agent answers with a failure, or no longer answers.
Breaks == /\ \/ agent /\ Troubled(1)
             \/ ~agent /\ UNCHANGED left
          /\ UNCHANGED agent
QuestionFails ==
    /\ pc \in {"write", "find", "wait", "look", "read"} /\ Breaks
    /\ Fail(journal)
    /\ UNCHANGED <<profile, files, head, nix, op, asked, past>>

\* nix cannot evaluate, build or fetch: whatever the reason, the request fails.
BuildFails ==
    /\ pc = "build" /\ Troubled(1)
    /\ Fail(journal)
    /\ UNCHANGED <<profile, files, head, nix, op, agent, asked, past>>

Goes(to) == pc' = to /\ UNCHANGED <<agent, todo, asked, left, past>>

(***************************************************************************)
(* A request.                                                              *)
(***************************************************************************)
\* What the files and the active generation say, reconciled.
configured == [list |-> settle(files.list, Content(active).list),
               pins |-> settle_pins(files.pins, Content(active).pins)]

\* Installing or removing gives some list; one that is there already changes
\* nothing, unless the file has to be brought back to the generation's list.
Changing(cfg, want) ==
    /\ ~(want = cfg.list.list /\ cfg.list.source = "File")
    /\ op' = [NoOp EXCEPT !.kind = "change", !.activating = TRUE,
                          !.want = [list |-> want, pins |-> cfg.pins]]

\* The files are written even when the pins are current.
Updating(cfg, newest) ==
    LET to == decide(cfg.pins, newest)
    IN  op' = [NoOp EXCEPT !.kind = "update", !.activating = to # cfg.pins,
                           !.want = [list |-> cfg.list.list, pins |-> to]]

Cleaning(cfg) ==
    op' = [NoOp EXCEPT !.kind = "clean",
                       !.want = [list |-> cfg.list.list, pins |-> cfg.pins]]

Begin ==
    /\ pc = "idle" /\ asked < MaxRequests /\ asked' = asked + 1
    /\ configured.list.list # "newer"
    /\ \/ \E want \in Lists : Changing(configured, want)
       \/ \E newest \in Pins : Updating(configured, newest)
       \/ Cleaning(configured)
    /\ past' = [NoPast EXCEPT !.links = links, !.active = active, !.home = home,
                              !.files = files, !.kind = op'.kind,
                              !.pins = Content(active).pins]
    /\ pc' = "write" /\ agent' = TRUE
    /\ UNCHANGED <<profile, files, head, nix, journal, todo, left>>

\* The files of the state directory, through the agent: it announces the undo,
\* waits for the journal, writes, and answers.
Write ==
    /\ pc = "write" /\ agent
    /\ files' = op.want
    /\ journal' = IF files = op.want THEN journal
                  ELSE [journal EXCEPT !.done = <<Restore(files)>> \o @]
    /\ Goes("check")
    /\ UNCHANGED <<profile, head, nix, op>>

\* The agent dies after it wrote and before it answered.
WriteUnanswered ==
    /\ pc = "write" /\ agent /\ files # op.want
    /\ Troubled(1) /\ agent' = FALSE
    /\ files' = op.want
    /\ Fail([journal EXCEPT !.announced = <<Restore(files)>>])
    /\ UNCHANGED <<profile, head, nix, op, asked, past>>

Check ==
    /\ pc = "check"
    /\ IF op.activating /\ stale(op.want) THEN Goes("find") /\ UNCHANGED op
       ELSE IF op.kind = "clean"
            THEN /\ Goes("clean")
                 /\ op' = [op EXCEPT !.queue = DOMAIN links \ {active}]
            ELSE Goes("record") /\ UNCHANGED op
    /\ UNCHANGED <<profile, files, head, nix, journal>>

FindBuilt ==
    /\ pc = "find" /\ agent
    /\ op' = [op EXCEPT !.built = built_generation]
    /\ Goes("wait")
    /\ UNCHANGED <<profile, files, head, nix, journal>>

\* A lock is only waited for, never kept.
WaitProfileLocks ==
    /\ pc = "wait" /\ agent /\ nix = "free"
    /\ Goes("look")
    /\ UNCHANGED <<profile, files, head, nix, op, journal>>

\* activate() and reuse() up to their announcement.
Look ==
    /\ pc = "look" /\ agent
    /\ LET before == DOMAIN links
           predicted == Newest(before) + 1
           reuse == op.built \in before
       IN  /\ op' = [op EXCEPT !.previous = active, !.before = before,
                               !.predicted = predicted,
                               !.new = IF reuse THEN op.built ELSE None]
           /\ journal' = [journal EXCEPT !.announced =
                            IF ~reuse THEN undo_activation(active, predicted)
                            ELSE IF active # op.built THEN undo_reuse(active, op.built)
                            ELSE <<>>]
           /\ Goes(IF ~reuse THEN "build" ELSE IF active # op.built THEN "switch"
                   ELSE "apply")
    /\ UNCHANGED <<profile, files, head, nix>>

(***************************************************************************)
(* Commands, as nix and home-manager carry them out.                       *)
(***************************************************************************)
\* `nix build --profile`: a new number, unless the newest generation is that.
Numbered == IF DOMAIN links # {} /\ Content(Newest(DOMAIN links)) = files
            THEN Newest(DOMAIN links) ELSE Newest(DOMAIN links) + 1

Build ==
    /\ pc = "build" /\ nix = "free" /\ nix' = "mix"
    /\ Numbered <= MaxGeneration
    /\ links' = Linked(Numbered, files)
    /\ op' = [op EXCEPT !.new = Numbered]
    /\ Goes("swap")
    /\ UNCHANGED <<active, home, files, head, journal>>

Swap ==
    /\ pc = "swap" /\ nix' = "free"
    /\ active' = op.new
    /\ Goes("read")
    /\ UNCHANGED <<links, home, files, head, op, journal>>

\* What nix made is read back from the link, not from its answer.
Read ==
    /\ pc = "read" /\ agent
    /\ op' = [op EXCEPT !.new = IF active # None THEN active ELSE op.predicted]
    /\ Goes("activate")
    /\ UNCHANGED <<profile, files, head, nix, journal>>

\* `nix-env --switch-generation`, or `rm` of the link.
CanSwitch(to) == nix = "free" /\ to \in DOMAIN links \cup {None}
switch_to(to) == active' = to /\ UNCHANGED links

\* `nix-env --delete-generations`, which refuses the active one.
CanDelete(g) == nix = "free" /\ g # active
delete(g) == links' = [h \in DOMAIN links \ {g} |-> links[h]] /\ UNCHANGED active

Ends(undo) ==
    /\ journal' = [done |-> undo \o journal.done, announced |-> <<>>]
    /\ pc' = "record" /\ past' = [past EXCEPT !.ran = TRUE]
    /\ UNCHANGED <<agent, todo, asked, left>>

Activate ==
    /\ pc = "activate"
    /\ home' = op.want
    /\ Ends(Settled(op))
    /\ UNCHANGED <<links, active, files, head, nix, op>>

\* The script of the generation fails, and activate() takes it back itself.
ActivateFails ==
    /\ pc = "activate" /\ Troubled(1)
    /\ home' = Torn
    /\ pc' = IF op.previous # op.new THEN "unswitch" ELSE "undelete"
    /\ UNCHANGED <<links, active, files, head, nix, op, agent, journal, todo, asked, past>>

Unswitch ==
    /\ pc = "unswitch"
    /\ \/ /\ CanSwitch(op.previous) /\ switch_to(op.previous) /\ UNCHANGED left
       \/ /\ nix = "free" /\ (left > 0 \/ ~CanSwitch(op.previous))
          /\ left' = IF CanSwitch(op.previous) THEN left - 1 ELSE left
          /\ UNCHANGED <<links, active>>
    /\ pc' = "undelete"
    /\ UNCHANGED <<home, files, head, nix, op, agent, journal, todo, asked, past>>

Undelete ==
    /\ pc = "undelete"
    /\ \/ /\ op.new \notin op.before
          /\ \/ CanDelete(op.new) /\ delete(op.new) /\ UNCHANGED left
             \/ nix = "free" /\ op.new = active /\ UNCHANGED <<links, active, left>>
             \/ nix = "free" /\ Troubled(1) /\ UNCHANGED <<links, active>>
          /\ pc' = "unapply"
       \/ /\ op.new \in op.before /\ pc' = "unapply" /\ UNCHANGED <<links, active, left>>
    /\ UNCHANGED <<home, files, head, nix, op, agent, journal, todo, asked, past>>

\* home.generation() and the activation of what it names.
Applied == IF active = None THEN home ELSE Content(active)

Unapply ==
    /\ pc = "unapply"
    /\ \/ op.previous # op.new /\ agent /\ home' = Applied /\ UNCHANGED left
       \/ op.previous # op.new /\ ~agent /\ UNCHANGED <<home, left>>
       \/ op.previous # op.new /\ Troubled(1) /\ home' = Torn
       \/ op.previous = op.new /\ UNCHANGED <<home, left>>
    /\ Fail(journal)
    /\ UNCHANGED <<links, active, files, head, nix, op, agent, asked, past>>

\* reuse(): back to a generation that was built from the same files.
Reuse ==
    /\ pc = "switch" /\ CanSwitch(op.new) /\ switch_to(op.new)
    /\ Goes("apply")
    /\ UNCHANGED <<home, files, head, nix, op, journal>>

ReuseGone ==
    /\ pc = "switch" /\ nix = "free"
    /\ IF op.new \in DOMAIN links THEN Troubled(1) ELSE UNCHANGED left
    /\ UNCHANGED agent
    /\ Fail(journal)
    /\ UNCHANGED <<profile, files, head, nix, op, asked, past>>

Reapply ==
    /\ pc = "apply" /\ agent
    /\ home' = Applied
    /\ Ends(journal.announced)
    /\ UNCHANGED <<links, active, files, head, nix, op>>

ReapplyFails ==
    /\ pc = "apply"
    /\ \/ Troubled(1) /\ home' = Torn
       \/ ~agent /\ UNCHANGED <<home, left>>
    /\ pc' = IF op.previous # op.new THEN "unswitch" ELSE "unapply"
    /\ UNCHANGED <<links, active, files, head, nix, op, agent, journal, todo, asked, past>>

\* Retention: every generation that was not active when it was looked at, the
\* oldest first; one that has become active since stays.
Without(gens, g) == [h \in DOMAIN gens \ {g} |-> gens[h]]

Clean ==
    /\ pc = "clean" /\ op.queue # {} /\ nix = "free" /\ agent
    /\ LET g == CHOOSE g \in op.queue : \A h \in op.queue : g <= h
       IN  /\ IF g = active THEN UNCHANGED <<links, active, past>>
              ELSE delete(g) /\ past' = [past EXCEPT !.links = Without(@, g),
                                                     !.theirs = @ \ {g}]
           /\ op' = [op EXCEPT !.queue = @ \ {g}]
    /\ UNCHANGED <<home, files, head, nix, pc, agent, journal, todo, asked, left>>

Cleaned ==
    /\ pc = "clean" /\ op.queue = {}
    /\ Goes("record")
    /\ UNCHANGED <<profile, files, head, nix, op, journal>>

CleanFails ==
    /\ pc = "clean" /\ op.queue # {} /\ Breaks
    /\ Fail(journal)
    /\ UNCHANGED <<profile, files, head, nix, op, asked, past>>

\* Performer::record.  The files are staged and compared with the newest commit.
Stage ==
    /\ pc = "record" /\ agent
    /\ IF head.tree = files THEN Goes("commit") /\ UNCHANGED op
       ELSE Goes("publish") /\ op' = [op EXCEPT !.seen = head.before]
    /\ UNCHANGED <<profile, files, head, nix, journal>>

PublishAnyway ==
    /\ pc = "publish"
    /\ head' = [tree |-> files, before |-> op.seen + 1]
    /\ Goes("commit")
    /\ UNCHANGED <<profile, files, nix, op, journal>>
\* `update-ref` moves the branch only from the commit the new one follows.
Publish ==
    /\ pc = "publish"
    /\ IF head.before = op.seen THEN head' = [tree |-> files, before |-> op.seen + 1]
       ELSE UNCHANGED head
    /\ Goes("commit")
    /\ UNCHANGED <<profile, files, nix, op, journal>>

\* A repository that cannot be written only earns a warning.
RecordFails ==
    /\ pc \in {"record", "publish"} /\ Breaks
    /\ pc' = "commit"
    /\ UNCHANGED <<profile, files, head, nix, op, journal, todo, asked, past>>

\* The user commits as well; before Stage is the same as long before it.
UserCommits ==
    /\ pc \in {"record", "publish"} /\ Troubled(1)
    /\ head' = [tree |-> Unread, before |-> head.before + 1]
    /\ UNCHANGED <<profile, files, nix, pc, op, agent, journal, todo, asked, past>>

Commit ==
    /\ pc = "commit" /\ pc' = "idle"
    /\ journal' = NoJournal /\ op' = NoOp
    /\ past' = [past EXCEPT !.said = "done", !.want = op.want]
    /\ UNCHANGED <<profile, files, head, nix, agent, todo, asked, left>>

(***************************************************************************)
(* Undoing, after a failure or in a recovery.                              *)
(***************************************************************************)
Drop(undos, act) ==
    LET at == CHOOSE i \in DOMAIN undos : undos[i] = act
    IN  IF \E i \in DOMAIN undos : undos[i] = act
        THEN SubSeq(undos, 1, at - 1) \o SubSeq(undos, at + 1, Len(undos)) ELSE undos
Reverted(u) == IF u.sure THEN [journal EXCEPT !.done = Drop(@, u.act)]
               ELSE [journal EXCEPT !.announced = Drop(@, u.act)]

Undone == /\ pc' = "undo" /\ todo' = Tail(todo) /\ journal' = Reverted(Head(todo))
          /\ UNCHANGED past
NotUndone == /\ pc' = "undo" /\ todo' = Tail(todo)
             /\ past' = [past EXCEPT !.stuck = TRUE, !.kept = @ \/ Head(todo).sure]
             /\ UNCHANGED journal

\* SwitchGeneration and DeleteGeneration look at the link and then act on it.
Looks(u) ==
    \/ /\ u.undo = "switch"
       /\ IF active = u.to THEN Undone
          ELSE IF active # u.expect THEN NotUndone
          ELSE pc' = "undo2" /\ UNCHANGED <<todo, journal, past>>
    \/ /\ u.undo = "delete"
       /\ IF active = u.generation THEN Undone
          ELSE pc' = "undo2" /\ UNCHANGED <<todo, journal, past>>
LooksAway(u) ==
    /\ u.undo \in {"switch", "delete"}
    /\ pc' = "undo2" /\ UNCHANGED <<todo, journal, past>>

Undo ==
    /\ pc = "undo" /\ todo # <<>> /\ agent
    /\ LET u == Head(todo).act
       IN  \/ nix = "free" /\ Looks(u) /\ UNCHANGED <<home, files>>
           \/ nix = "free" /\ u = Apply /\ home' = Applied /\ Undone /\ UNCHANGED files
           \/ u.undo = "files" /\ files' = u.was /\ Undone /\ UNCHANGED home
    /\ UNCHANGED <<links, active, head, nix, op, agent, asked, left>>

UndoFails ==
    /\ \/ pc = "undo" /\ todo # <<>> /\ Breaks
       \/ pc = "undo2" /\ Troubled(1) /\ UNCHANGED agent
    /\ home' = IF Head(todo).act = Apply /\ agent THEN Torn ELSE home
    /\ NotUndone
    /\ UNCHANGED <<links, active, files, head, nix, op, asked>>

\* The command itself, and whether nix lets it.
Carried(u) == \/ u.undo = "switch" /\ CanSwitch(u.to) /\ switch_to(u.to)
              \/ u.undo = "delete" /\ CanDelete(u.generation) /\ delete(u.generation)
Possible(u) == IF u.undo = "switch" THEN u.to \in DOMAIN links \cup {None}
               ELSE u.generation # active

UndoActs ==
    /\ pc = "undo2" /\ nix = "free"
    /\ LET u == Head(todo).act
       IN  IF Possible(u) THEN Carried(u) /\ Undone
           ELSE NotUndone /\ UNCHANGED <<links, active>>
    /\ UNCHANGED <<home, files, head, nix, op, agent, asked, left>>

\* A rollback ends its journal whatever failed; a recovery keeps it for the
\* next when an undo it was sure of failed.
RolledBack ==
    /\ pc = "undo" /\ todo = <<>>
    /\ LET again == op.kind = "recovery" /\ past.kept
       IN  /\ pc' = IF again THEN "crashed" ELSE "idle"
           /\ journal' = IF again THEN journal ELSE NoJournal
           /\ past' = [past EXCEPT !.said = IF again THEN "unrecovered" ELSE "undone",
                                   !.kept = FALSE]
    /\ op' = NoOp
    /\ UNCHANGED <<profile, files, head, nix, agent, todo, asked, left>>

(***************************************************************************)
(* Crashes, and the recovery the next request begins with.                 *)
(***************************************************************************)
Applying == \/ pc \in {"activate", "apply", "unapply"}
            \/ pc = "undo" /\ todo # <<>> /\ Head(todo).act = Apply

Crash ==
    /\ pc \notin {"idle", "crashed"} /\ Troubled(1)
    /\ \/ UNCHANGED <<profile, files, journal>>
       \/ Applying /\ home' \in {Torn, Applied} /\ UNCHANGED <<links, active, files, journal>>
       \/ /\ pc = "write" /\ files' = op.want /\ UNCHANGED profile
          /\ journal' = [journal EXCEPT !.announced = <<Restore(files)>>]
       \/ pc = "undo2" /\ Carried(Head(todo).act) /\ UNCHANGED <<home, files, journal>>
    /\ pc' = "crashed" /\ op' = NoOp /\ todo' = <<>> /\ agent' = TRUE
    /\ nix' = IF nix = "mix" THEN "free" ELSE nix
    /\ past' = [past EXCEPT !.kept = FALSE]
    /\ UNCHANGED <<head, asked>>

Recover ==
    /\ pc = "crashed" /\ pc' = "undo"
    /\ todo' = RollBack(journal)
    /\ op' = [NoOp EXCEPT !.kind = "recovery"]
    /\ UNCHANGED <<profile, files, head, nix, agent, journal, asked, left, past>>

\* The build is stopped between making the generation and moving the link.
SwapCut ==
    /\ pc = "swap" /\ Troubled(1) /\ nix' = "free"
    /\ Fail(journal)
    /\ UNCHANGED <<profile, files, head, op, agent, asked, past>>

(***************************************************************************)
(* The user's own nix and home-manager.                                    *)
(***************************************************************************)
UserTakes ==
    /\ nix = "free" /\ left > 0 /\ nix' = "user"
    /\ UNCHANGED <<profile, files, head, pc, op, agent, journal, todo, asked, left, past>>

Meddled == [past EXCEPT !.meddled = TRUE, !.said = IF pc = "idle" THEN "none" ELSE @]

UserActs ==
    /\ nix = "user" /\ nix' = "free" /\ Troubled(1)
    /\ \/ LET g == Newest(DOMAIN links) + 1
          IN  /\ g <= MaxGeneration
              /\ links' = Linked(g, Unread)
              /\ active' = g /\ home' = Unread
              /\ past' = [Meddled EXCEPT !.theirs = @ \cup {g}]
       \/ \E g \in DOMAIN links \ {active} :
              /\ active' = g /\ home' = links[g] /\ past' = Meddled
              /\ UNCHANGED links
       \/ \E g \in DOMAIN links \ {active} :
              /\ delete(g) /\ UNCHANGED home
              /\ past' = [Meddled EXCEPT !.links = Without(@, g), !.theirs = @ \ {g}]
    /\ UNCHANGED <<files, head, pc, op, agent, journal, todo, asked>>

UserLeaves ==
    /\ nix = "user" /\ nix' = "free"
    /\ UNCHANGED <<profile, files, head, pc, op, agent, journal, todo, asked, left, past>>

Next ==
    \/ Begin \/ Write \/ WriteUnanswered \/ AgentDies \/ QuestionFails \/ BuildFails \/ Check \/ FindBuilt \/ WaitProfileLocks \/ Look
    \/ Build \/ Swap \/ SwapCut \/ Read \/ Activate \/ ActivateFails
    \/ Unswitch \/ Undelete \/ Unapply \/ Reuse \/ ReuseGone \/ Reapply \/ ReapplyFails
    \/ Clean \/ Cleaned \/ CleanFails \/ Stage \/ Publish \/ RecordFails \/ UserCommits \/ Commit
    \/ Undo \/ UndoFails \/ UndoActs \/ RolledBack \/ Crash \/ Recover
    \/ UserTakes \/ UserActs \/ UserLeaves

Spec == Init /\ [][Next]_vars

(***************************************************************************)
(* Properties.                                                             *)
(***************************************************************************)
Alone == pc = "idle" /\ ~past.meddled

\* A request that failed, or was interrupted and recovered, leaves the list,
\* the pins, the generations and the active one as it found them and the home
\* as that generation has it, wherever it stopped, unless an undo failed or
\* the user changed the profile meanwhile.  (What a first activation linked
\* into the home stays: there is no generation to go back to.)
UndoneProfileIsBack ==
    Alone /\ past.said = "undone" /\ ~past.stuck =>
        /\ files = past.files /\ links = past.links /\ active = past.active
        /\ active # None => home \in {past.home, Content(active)}

\* A request that succeeded has built and linked exactly the list and pins it
\* wrote, whatever earlier requests and crashes left behind, and has pinned no
\* input before where it was.
DoneIsWhole ==
    Alone /\ past.said = "done" =>
        /\ Content(active).pins >= past.pins
        /\ files = past.want
        /\ past.kind = "change" => Content(active) = past.want
        /\ past.ran => home = Content(active)

\* No request but a clean deletes a generation it found, even when the user
\* switches and deletes generations between its commands.
OldGenerationsAreKept ==
    \A g \in DOMAIN past.links : g \in DOMAIN links /\ links[g] = past.links[g]

\* Recording a change never drops a commit, though the user commits to the same
\* branch while mix makes one.
HistoryOnlyGrows == [][head'.before = head.before + 1]_head
=============================================================================
