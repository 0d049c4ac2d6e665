------------------------------- MODULE Files -------------------------------
(***************************************************************************)
(* The file actions of crates/fs/src/lib.rs, one step per system call,     *)
(* while other programs act on the same path and the process may die       *)
(* between any two calls; then the undos on record are performed           *)
(* (crates/shell/src/drive.rs, crates/shell/src/effect/journal/mod.rs).    *)
(*                                                                         *)
(* One directory: name 0 is the path the request acts on, the others are   *)
(* the siblings mix makes next to it, numbered as Files.next numbers them. *)
(* A node has an identity (FileId), the data it holds, what another        *)
(* program put inside it (directories), its kind and its owner; it is      *)
(* "done" once its contents, mode and owner are what was asked for.  A     *)
(* "lower" node is a directory of a lower overlay layer, which no rename   *)
(* moves (EXDEV).                                                          *)
(*                                                                         *)
(* An action is the list of calls it still has to make; a call that fails  *)
(* replaces the rest by what the code does then, whose errors it ignores.  *)
(***************************************************************************)
EXTENDS Integers, Sequences, FiniteSets

CONSTANTS
    None,       \* no node, no expectation
    Starts,     \* what may be at the path: kinds, or None
    Ops,        \* the actions a request may perform
    MaxActs,    \* bound on the actions of a request
    MaxMoves,   \* bound on what the others do
    MaxFaults,  \* bound on system calls that fail without a reason in the model
    MaxCrashes  \* bound on crashes

VARIABLES
    dir,        \* the directory: names to nodes or None
    names, ids, \* Files.next; the identities given out
    calls,      \* the calls the action in hand still has to make
    failing,    \* the action in hand has failed
    undos,      \* the undos on record and not reverted, newest first
    announced,  \* how many of them the action in hand announced
    pending,    \* Files.pending
    phase,      \* "acting", "undoing", "committing", "down" or "over"
    committed,  \* Committing is on record
    acts, moves, faults, crashes,
    failures,   \* undos of successful actions that failed
    living,     \* history: the data others have not given up
    void        \* history: what was theirs could not be given back

counters == <<acts, faults, crashes, failures>>
record   == <<undos, announced, committed>>
history  == <<moves, living, void>>
vars == <<dir, names, ids, calls, failing, record, pending, phase, counters, history>>

Path == 0
Names == 0..(6 * MaxActs + MaxCrashes)     \* four an action, one for each try of an undo

Nodes == [id : Int, data : Int \cup {None}, inside : Int \cup {None},
          kind : {"file", "dir", "lower", "tree"}, owner : {"mix", "other"},
          mode : Nat, done : BOOLEAN]

ASSUME FilesAssumption ==
    /\ Starts \subseteq {"file", "dir", "lower", None}
    /\ Ops \subseteq {"file", "dir", "tree", "put", "aside", "reclaim", "mode", "discard"}
    /\ {MaxActs, MaxMoves, MaxFaults, MaxCrashes} \subseteq Nat
    /\ None \notin Int /\ None \notin Nodes

Node(i, data, kind, owner) ==
    [id |-> i, data |-> data, inside |-> None, kind |-> kind, owner |-> owner,
     mode |-> 1, done |-> TRUE]

Id(n) == IF dir[n] = None THEN None ELSE dir[n].id
Data(n) == IF dir[n] = None THEN {} ELSE {dir[n].data, dir[n].inside} \ {None}

(* Data 0 was there before, at the path the request was told to act on;    *)
(* what mix writes is numbered upwards, what the others write downwards.   *)
Theirs(data) == data < 0
Caught == \E n \in Names \ {Path} : \E data \in Data(n) : Theirs(data)

-----------------------------------------------------------------------------
(* The actions, as the system calls they make.  "else" is what follows     *)
(* when a call fails.                                                      *)

Call(sys, a, b, else) == [sys |-> sys, a |-> a, b |-> b, else |-> else]
Unlink(n) == Call("unlink", n, None, <<>>)
Clear(n) == Call("rmtree", n, None, <<>>)
Announce(undo, else) == Call("announce", undo, None, else)
Link(from, to, else) == Call("link", from, to, else)
Sync == Call("sync", None, None, <<>>)
Pend(n) == Call("pend", n, None, <<>>)
End == Call("end", None, None, <<>>)

Undo(op, at, from, expect) ==
    [op |-> op, at |-> at, from |-> from, expect |-> expect, sure |-> FALSE]
Restore(from, expect) == Undo("restore", Path, from, expect)
RemoveCreatedTree(at, expect) == Undo("removetree", at, None, expect)

write_new(n, node) == Call("make", n, node, <<>>)    \* mkdirat and build_chain, too
finish_node(n, drop) == Call("finish", n, None, drop)
pin(expect) == Call("check", expect, None, <<>>)

(* create_dir, create_dirs, and put_file where nothing is: written beside  *)
(* the path, announced, and renamed to it unless something is there.       *)
create(kind, n, i) ==
    LET drop == IF kind = "tree" THEN <<Clear(n)>> ELSE <<Unlink(n)>>
        undo == Undo(IF kind = "tree" THEN "removetree" ELSE "remove", Path, None, i)
    IN  <<pin(None), write_new(n, Node(i, i, kind, "mix")), finish_node(n, drop),
          Announce(<<undo>>, drop), Link(n, Path, drop), Sync, End>>

(* Mutant: what was renamed is not compared with what was checked.         *)
holds_blindly(n, pinned, else) == Sync

holds(n, pinned, else) == Call("holds", n, pinned, else)

put_file(n, i, old) ==
    <<pin(old), write_new(n, Node(i, i, "file", "mix")), finish_node(n, <<Unlink(n)>>),
      Announce(<<Restore(n, i)>>, <<Unlink(n)>>),
      Call("exchange", n, Path, <<Unlink(n)>>),
      holds(n, old, <<Call("exchange", n, Path, <<>>), Unlink(n)>>),
      Sync, Pend(n), End>>

(* set_mode and set_owner open the file by name, and then act on it.       *)
set_mode(expect, mode) == Call("open", expect, mode, <<>>)
change(id, from, mode) ==
    <<Announce(<<Undo("mode", Path, from, mode)>>, <<>>), Call("chmod", id, mode, <<>>), End>>

discard(old) == <<pin(old), Announce(<<Undo("keep", Path, None, None)>>, <<>>), Pend(Path), End>>

(* A copy beside the path, made by an action of its own (copy), then       *)
(* "what restores from it" is announced in its place and the original is   *)
(* removed where it is: for what no rename moves.                          *)
by_copy(staged, to, i, old) ==
    <<Call("copy", staged, i, <<Clear(staged)>>),
      Announce(<<RemoveCreatedTree(to, i)>>, <<Clear(staged)>>),
      Link(staged, to, <<Clear(staged)>>), Sync,
      Announce(<<Restore(to, None)>>, <<>>),
      Call("inplace", old, None, <<>>), Call("rmdir", Path, None, <<>>), Sync>>

set_aside_by_copy(staged, to, i, old) == by_copy(staged, to, i, old) \o <<Pend(to), End>>

reclaim_by_copy(n, staged, to, i, old) ==
    <<Clear(n)>> \o by_copy(staged, to, i, old)
                 \o <<Link(to, Path, <<>>), Sync, Announce(<<>>, <<>>), End>>

set_aside(n, i, old) ==
    <<pin(old), Announce(<<Restore(n, None)>>, <<>>),
      Call("away", n, set_aside_by_copy(n + 1, n + 2, i, old), <<>>),
      holds(n, old, <<Link(n, Path, <<>>)>>), Sync, Pend(n), End>>

(* Mutant: what was set aside is restored before the copy is removed.      *)
undo_reclaim_backwards(aside, i) == <<Restore(aside, None), RemoveCreatedTree(Path, i)>>

undo_reclaim(aside, i) == <<RemoveCreatedTree(Path, i), Restore(aside, None)>>

(* A copy takes the place of what it copies.  The driver adopts the aside. *)
reclaim(n, aside, i, old) ==
    <<pin(old), Call("copy", n, i, <<Clear(n)>>),
      Announce(undo_reclaim(aside, i), <<Clear(n)>>),
      Call("away", aside, reclaim_by_copy(n, n + 2, n + 3, i + 1, old), <<Clear(n)>>),
      holds(aside, old, <<Link(aside, Path, <<>>), Clear(n)>>),
      Link(n, Path, <<Link(aside, Path, <<>>), Clear(n)>>), Sync, Pend(aside), End>>

(* The undos.                                                              *)
remove_created(at, n, old) ==
    <<Call("doom", at, n, <<>>), holds(n, old, <<Link(n, at, <<>>)>>),
      Call("unlink", n, None, <<Link(n, at, <<>>)>>), Sync, End>>

(* What a rename refuses to move (EXDEV) is removed in place instead: of a *)
(* tree mix made that is never so, and by_copy() has the calls of it.      *)
remove_created_tree(at, n, old) ==
    <<Call("doom", at, n, <<>>), holds(n, old, <<Link(n, at, <<>>)>>), Clear(n), Sync, End>>

unpend(n) == Call("unpend", n, None, <<>>)

restore(from, expect) ==
    IF expect = None THEN <<Link(from, Path, <<>>), Sync, unpend(from), End>>
    ELSE <<Call("exchange", from, Path, <<>>),
           holds(from, expect, <<Call("exchange", from, Path, <<>>)>>),
           Clear(from), Sync, unpend(from), End>>

-----------------------------------------------------------------------------
Init ==
    /\ \E kind \in Starts :
          dir = [n \in Names |-> IF n = Path /\ kind # None THEN Node(1, 0, kind, "mix")
                                 ELSE None]
    /\ names = 0 /\ ids = 1
    /\ calls = <<>> /\ failing = FALSE
    /\ undos = <<>> /\ announced = 0 /\ committed = FALSE
    /\ pending = {} /\ phase = "acting"
    /\ acts = 0 /\ moves = 0 /\ faults = 0 /\ crashes = 0 /\ failures = 0
    /\ living = Data(Path) /\ void = FALSE

(* perform, of an action made from what is observed now: the precondition  *)
(* is checked when the calls begin, with the others between.               *)
Idle == calls = <<>>

Ready(op) ==        \* what plans ask for given what they see
    CASE op \in {"file", "dir", "tree"} -> dir[Path] = None
      [] op = "put" -> dir[Path] # None /\ dir[Path].kind = "file"
      [] op = "reclaim" -> dir[Path] # None /\ dir[Path].kind \in {"dir", "lower"}
      [] OTHER -> dir[Path] # None

Script(op) ==
    LET n == names + 1  i == ids + 1  old == Id(Path)
    IN  CASE op \in {"file", "dir", "tree"} -> create(op, n, i)
          [] op = "put" -> put_file(n, i, old)
          [] op = "aside" -> set_aside(n, i, old)
          [] op = "reclaim" -> reclaim(n, n + 1, i, old)
          [] op = "mode" -> <<pin(old), set_mode(1, 2)>>
          [] op = "discard" -> discard(old)

Act(op) ==
    /\ phase = "acting" /\ Idle /\ acts < MaxActs /\ Path \notin pending
    /\ ~failing /\ ~\E data \in Data(Path) : Theirs(data)
    /\ Ready(op)
    /\ calls' = Script(op)
    /\ names' = names + 4 /\ ids' = ids + 2 /\ acts' = acts + 1
    /\ UNCHANGED <<dir, failing, record, pending, phase, faults, crashes, failures, history>>

-----------------------------------------------------------------------------
(* System calls.                                                           *)

call == Head(calls)
At(sys) == calls # <<>> /\ call.sys = sys
kept == <<names, ids, phase, acts, crashes, committed, failures, history>>

(* What follows a call: the rest, or what the code does about a failure,   *)
(* whose own failures it ignores.                                          *)
Next_(ok) ==
    /\ calls' = IF ok \/ failing THEN Tail(calls) ELSE call.else
    /\ failing' = (failing \/ ~ok)

Changes(ok, d) ==
    /\ dir' = IF ok THEN d ELSE dir
    /\ Next_(ok)
    /\ UNCHANGED <<kept, undos, announced, pending, faults>>

Check == /\ At("check")
         /\ Changes(Id(Path) = call.a, dir)

Make == /\ At("make")
        /\ Changes(TRUE, [dir EXCEPT ![call.a] = [call.b EXCEPT !.done = FALSE]])

Finish == /\ At("finish")
          /\ Changes(dir[call.a] # None,
                     [dir EXCEPT ![call.a] = IF @ = None THEN None ELSE [@ EXCEPT !.done = TRUE]])

Copy == /\ At("copy")       \* copy_tree_at: another node with the same data
        /\ Changes(dir[Path] # None,
                   [dir EXCEPT ![call.a] = IF dir[Path] = None THEN None
                                           ELSE [dir[Path] EXCEPT !.id = call.b, !.kind = "tree"]])

Rename == /\ At("link")     \* RENAME_NOREPLACE
          /\ Changes(dir[call.a] # None /\ dir[call.b] = None,
                     [dir EXCEPT ![call.b] = dir[call.a], ![call.a] = None])

Exchange == /\ At("exchange")
            /\ Changes(dir[call.a] # None /\ dir[call.b] # None,
                       [dir EXCEPT ![call.b] = dir[call.a], ![call.a] = dir[call.b]])

Away ==     \* a rename that may find that the node cannot be moved
    /\ At("away")
    /\ IF dir[Path] # None /\ dir[Path].kind = "lower"
       THEN /\ calls' = call.b
            /\ UNCHANGED <<dir, failing, kept, undos, announced, pending, faults>>
       ELSE Changes(dir[Path] # None, [dir EXCEPT ![call.a] = dir[Path], ![Path] = None])

Doom ==     \* what is already gone needs no removal
    /\ At("doom")
    /\ IF dir[call.a] = None
       THEN calls' = <<End>> /\ UNCHANGED <<dir, failing, kept, undos, announced, pending, faults>>
       ELSE Changes(TRUE, [dir EXCEPT ![call.b] = dir[call.a], ![call.a] = None])

Holds == /\ At("holds")
         /\ Changes(Id(call.a) = call.b, dir)

UnlinkNode == /\ At("unlink")       \* a directory only when it is empty
              /\ Changes(dir[call.a] # None /\ dir[call.a].inside = None,
                         [dir EXCEPT ![call.a] = None])

RemoveTree == /\ At("rmtree")
              /\ Changes(TRUE, [dir EXCEPT ![call.a] = None])

InPlace == /\ At("inplace")     \* the entries go first, the directory by name
           /\ Changes(Id(Path) = call.a,
                      [dir EXCEPT ![Path] = IF @ = None THEN None ELSE [@ EXCEPT !.data = None]])

RemoveDir == /\ At("rmdir")
             /\ Changes(dir[Path] # None /\ dir[Path].kind # "file", [dir EXCEPT ![Path] = None])

Open ==
    /\ At("open")
    /\ LET ok == dir[Path] # None /\ dir[Path].mode = call.a
       IN  /\ failing' = ~ok
           /\ calls' = IF ok THEN change(Id(Path), call.a, call.b) ELSE <<>>
    /\ UNCHANGED <<dir, kept, undos, announced, pending, faults>>

Chmod == /\ At("chmod")
         /\ Changes(TRUE, [n \in Names |-> IF Id(n) = call.a THEN [dir[n] EXCEPT !.mode = call.b]
                                           ELSE dir[n]])

SyncDir == At("sync") /\ Changes(TRUE, dir)

(* The announcement: on record before the call returns, in the place of    *)
(* what the action announced before.  An undo announces to nobody.         *)
Record ==
    /\ At("announce")
    /\ IF phase = "acting"
       THEN /\ undos' = call.a \o SubSeq(undos, announced + 1, Len(undos))
            /\ announced' = Len(call.a)
       ELSE UNCHANGED <<undos, announced>>
    /\ Next_(TRUE)
    /\ UNCHANGED <<dir, kept, pending, faults>>

Pending ==
    /\ At("pend") \/ At("unpend")
    /\ pending' = IF call.sys = "pend" THEN pending \cup {call.a} ELSE pending \ {call.a}
    /\ Next_(TRUE)
    /\ UNCHANGED <<dir, kept, undos, announced, faults>>

Fault ==    \* a call fails, and changes nothing
    /\ calls # <<>> /\ faults < MaxFaults
    /\ call.sys \notin {"check", "holds", "pend", "unpend", "end"}
    /\ faults' = faults + 1
    /\ Next_(FALSE)
    /\ void' = (void \/ Caught)
    /\ UNCHANGED <<dir, names, ids, phase, acts, crashes, committed, failures, moves, living,
                   undos, announced, pending>>

System == Check \/ Make \/ Finish \/ Copy \/ Rename \/ Exchange \/ Away \/ Doom \/ Holds
          \/ UnlinkNode \/ RemoveTree \/ InPlace \/ RemoveDir \/ Open \/ Chmod \/ SyncDir
          \/ Record \/ Pending \/ Fault

-----------------------------------------------------------------------------
(* The request: its actions, then the commit or the undos on record.       *)

Succeeded ==    \* Done, or Reverted, on record
    /\ At("end") /\ calls' = <<>> /\ announced' = 0
    /\ undos' = IF phase = "acting"
                THEN [k \in DOMAIN undos |->
                        IF k <= announced THEN [undos[k] EXCEPT !.sure = TRUE] ELSE undos[k]]
                ELSE Tail(undos)
    /\ UNCHANGED <<dir, failing, kept, pending, faults>>

Rollback ==     \* the action failed, or something else of the request did
    /\ phase = "acting" /\ Idle
    /\ phase' = "undoing" /\ failing' = FALSE /\ announced' = 0
    /\ UNCHANGED <<dir, names, ids, calls, undos, committed, pending, counters, history>>

undo == Head(undos)
Undoing == phase = "undoing" /\ Idle /\ undos # <<>>

(* The precondition of an undo: nothing to do, or what it expects is there.*)
Moot == undo.op \in {"remove", "removetree"} /\ dir[undo.at] = None

Applies ==
    CASE undo.op \in {"remove", "removetree"} -> Id(undo.at) = undo.expect
      [] undo.op = "restore" -> dir[undo.from] # None /\ Id(Path) = undo.expect
      [] undo.op = "mode" -> dir[Path] # None /\ dir[Path].mode = undo.expect
      [] undo.op = "keep" -> TRUE

Reverts ==
    CASE undo.op = "remove" -> remove_created(Path, names + 1, undo.expect)
      [] undo.op = "removetree" -> remove_created_tree(undo.at, names + 1, undo.expect)
      [] undo.op = "restore" -> restore(undo.from, undo.expect)
      [] undo.op = "mode" -> <<set_mode(undo.expect, undo.from)>>
      [] undo.op = "keep" -> <<unpend(Path), End>>

Revert ==
    /\ Undoing /\ ~failing /\ ~Moot /\ Applies
    /\ calls' = Reverts
    /\ names' = names + 1
    /\ UNCHANGED <<dir, ids, failing, record, pending, phase, counters, history>>

NotReverted ==  \* nothing to undo, a conflict, or the undo failed on the way
    /\ Undoing /\ (failing \/ Moot \/ ~Applies)
    /\ undos' = Tail(undos) /\ failing' = FALSE
    /\ failures' = IF failing \/ (undo.sure /\ ~Moot) THEN failures + 1 ELSE failures
    /\ UNCHANGED <<dir, names, ids, calls, announced, committed, pending, phase,
                   acts, faults, crashes, history>>

RolledBack ==
    /\ phase = "undoing" /\ Idle /\ undos = <<>>
    /\ phase' = "over"
    /\ UNCHANGED <<dir, names, ids, calls, failing, record, pending, counters, history>>

Commit ==       \* Committing goes on record first
    /\ phase = "acting" /\ Idle /\ ~failing
    /\ phase' = "committing" /\ committed' = TRUE
    /\ UNCHANGED <<dir, names, ids, calls, failing, undos, announced, pending, counters, history>>

(* commit_paths: what another user owns stays.  The request gave up what   *)
(* was there before.                                                       *)
Delete(n) ==
    /\ phase = "committing" /\ n \in pending
    /\ dir' = IF dir[n] # None /\ dir[n].owner # "mix" THEN dir ELSE [dir EXCEPT ![n] = None]
    /\ pending' = pending \ {n}
    /\ living' = living \ {0}
    /\ UNCHANGED <<names, ids, calls, failing, record, phase, counters, moves, void>>

Committed ==
    /\ phase = "committing" /\ pending = {}
    /\ phase' = "over"
    /\ UNCHANGED <<dir, names, ids, calls, failing, record, pending, counters, history>>

Crash ==
    /\ phase \notin {"down", "over"} /\ crashes < MaxCrashes
    /\ phase' = "down" /\ crashes' = crashes + 1
    /\ calls' = <<>> /\ failing' = FALSE /\ announced' = 0 /\ pending' = {}
    /\ UNCHANGED <<dir, names, ids, undos, committed, acts, faults, failures, history>>

(* Recovery, in another process: it finishes a commit on record and undoes *)
(* anything else.                                                          *)
Recover ==
    /\ phase = "down"
    /\ IF committed
       THEN /\ phase' = "committing"
            /\ pending' = {undos[k].from : k \in {k \in DOMAIN undos : undos[k].op = "restore"}}
       ELSE phase' = "undoing" /\ UNCHANGED pending
    /\ UNCHANGED <<dir, names, ids, calls, failing, record, counters, history>>

-----------------------------------------------------------------------------
(* The others put a file at the path, remove what is there, or put         *)
(* something into the directory create_dir made.                           *)
Move(d, now) ==
    /\ phase # "over" /\ moves < MaxMoves /\ moves' = moves + 1
    /\ dir' = [dir EXCEPT ![Path] = d]
    /\ living' = (living \ Data(Path)) \cup now
    /\ UNCHANGED <<names, ids, calls, failing, record, pending, phase, counters>>

(* Discard looks once; the commit deletes what is at the path then, if     *)
(* mix's user owns it.  A directory that is set aside, copied or discarded *)
(* goes with what is in it.                                                *)
GivenUp == Path \in pending \/ \E k \in DOMAIN calls : calls[k] = Pend(Path)
GoesWhole == \E k \in DOMAIN calls : calls[k].sys \in {"away", "copy", "inplace"}

theirs == -(moves + 1)

OthersPut(owner) ==
    /\ Move(Node(theirs, theirs, "file", owner), {theirs})
    /\ void' = (void \/ Caught \/ (GivenUp /\ owner = "mix"))

OthersRemove ==
    /\ dir[Path] # None
    /\ Move(None, {})
    /\ void' = (void \/ Caught)

OthersFill ==
    /\ dir[Path] # None /\ dir[Path].kind = "dir" /\ dir[Path].data # None
    /\ dir[Path].data > 0 /\ dir[Path].inside = None
    /\ Move([dir[Path] EXCEPT !.inside = theirs], {theirs})
    /\ void' = (void \/ Caught \/ GivenUp \/ GoesWhole)

Others == (\E owner \in {"mix", "other"} : OthersPut(owner)) \/ OthersRemove \/ OthersFill

Over == phase = "over" /\ UNCHANGED vars

Next == (\E op \in Ops : Act(op)) \/ System \/ Succeeded \/ Rollback \/ Revert \/ NotReverted
        \/ RolledBack \/ Commit \/ (\E n \in Names : Delete(n)) \/ Committed
        \/ Crash \/ Recover \/ Others \/ Over

Spec == Init /\ [][Next]_vars

-----------------------------------------------------------------------------
(* What another program wrote, and what was there before, is at the path   *)
(* or under the name of a sibling until its owner removes it or a commit   *)
(* gives up what was there before: no rename, failed call or crash loses   *)
(* it, unless the others act again, or a call fails, before mix has given  *)
(* back what it caught.  And a reader of the path finds the old file or    *)
(* the new one, never one that is still being written.                     *)
NothingIsLost ==
    /\ void \/ living \subseteq UNION {Data(n) : n \in Names}
    /\ dir[Path] # None => dir[Path].done

(* A directory no rename moves was emptied where it is, and is still there.*)
Emptied == dir[Path] # None /\ dir[Path].data = None

(* A request that was undone, by the process or by recovery, with no undo  *)
(* failing: nothing of mix is at the path, and if nobody else acted it is  *)
(* as it was, with its mode, or as empty as it was.  The exception is the  *)
(* removal in place, which fails or dies between its two steps.            *)
UndoneIsAsBefore ==
    phase = "over" /\ ~committed /\ failures = 0 /\ ~void /\ ~Emptied =>
        /\ \A data \in Data(Path) : data <= 0
        /\ moves = 0 => IF 0 \in living THEN 0 \in Data(Path) /\ dir[Path].mode = 1
                        ELSE dir[Path] = None

(* The actions, crashes and undos implement Slot: what another program put *)
(* at the path counts as there while mix holds it under another name.      *)
at == IF void THEN "void"
      ELSE IF Caught \/ \E data \in Data(Path) : Theirs(data) THEN "theirs"
      ELSE IF dir[Path] = None THEN "nothing" ELSE "ours"

Promise == INSTANCE Slot

PathIsTheirs == Promise!Spec
=============================================================================
