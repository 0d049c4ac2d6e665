------------------------------- MODULE Locks -------------------------------
(***************************************************************************)
(* How requests of several processes take their turns: the machine's lock  *)
(* file, held with flock() exclusively or shared, and in each process one  *)
(* mutex per user (crates/shell/src/request/lock.rs).                      *)
(*                                                                         *)
(* A flock belongs to an open file, and every request opens its own, so a  *)
(* request holds a lock on the inode it opened.  Purge unlinks the lock    *)
(* file while it holds it (crates/shell/src/effect/removal.rs); whoever    *)
(* opens the path afterwards makes another inode.                          *)
(***************************************************************************)
EXTENDS Naturals, FiniteSets

CONSTANTS
    Request,    \* the requests
    Process,    \* the processes: the daemon and those of one request
    User,       \* user ids
    At,         \* request -> its process
    For,        \* request -> its caller's user, or NoUser
    Wants,      \* request -> its Need
    Purges,     \* the requests that are purges
    NoUser,
    Nobody,     \* no request
    NoFile,     \* no inode
    MaxFiles    \* bound on the inodes the path may have, one after another

Inode == 1..MaxFiles
Need == {"Exclusive", "SharedForUser", "Observe"}

ASSUME LocksAssumption ==
    /\ At \in [Request -> Process]
    /\ For \in [Request -> User \cup {NoUser}]
    /\ Wants \in [Request -> Need]
    /\ Purges \subseteq {r \in Request : Wants[r] = "Exclusive"}
    /\ NoUser \notin User /\ Nobody \notin Request
    /\ MaxFiles \in Nat /\ NoFile \notin Inode

VARIABLES
    pc,         \* request -> how far it is
    fd,         \* request -> the inode it has opened, or NoFile
    thread,     \* request -> its thread in flock(): "none", "blocked", "holds"
    holding,    \* the requests that hold a flock, on their inode
    path,       \* the inode the path leads to, or NoFile
    made,       \* the number of inodes made so far
    text,       \* inode -> the holder written into it, or Nobody
    owner,      \* process, user -> the request that owns the mutex, or Nobody
    machine,    \* the requests in the Registry of their process
    users,      \* process, user -> the request the Registry names
    named,      \* request -> the holder it said it was waiting for
    alive,      \* the processes that run
    uncleared   \* history: the requests that could not take their name back

vars == <<pc, fd, thread, holding, path, made, text, owner, machine, users, named, alive,
          uncleared>>

Ended == {"done", "stopped", "failed", "dead"}

Init ==
    /\ pc = [r \in Request |-> "new"]
    /\ fd = [r \in Request |-> NoFile]
    /\ thread = [r \in Request |-> "none"]
    /\ holding = {}
    /\ path \in {NoFile, 1} \cap ({NoFile} \cup Inode)
    /\ made = IF path = NoFile THEN 0 ELSE 1
    /\ text = [i \in Inode |-> Nobody]
    /\ owner = [k \in Process \X User |-> Nobody]
    /\ machine = {}
    /\ users = [k \in Process \X User |-> Nobody]
    /\ named = [r \in Request |-> Nobody]
    /\ alive = Process
    /\ uncleared = {}

exclusive(r) == Wants[r] = "Exclusive"

(* The user whose mutex the request takes: one that wants the lock shared. *)
user_uid(r) == IF exclusive(r) THEN NoUser ELSE For[r]
mine(r) == <<At[r], user_uid(r)>>

at(r, label) == At[r] \in alive /\ pc[r] = label
to(r, label) == pc' = [pc EXCEPT ![r] = label]

(* Mutant: shared holders do not keep an exclusive one out.                *)
compatible_late(r) ==
    \A q \in holding : (q # r /\ fd[q] = fd[r]) => ~exclusive(q)

compatible(r) ==    \* whether the kernel grants r the flock it wants
    \A q \in holding : (q # r /\ fd[q] = fd[r]) => ~exclusive(q) /\ ~exclusive(r)

-----------------------------------------------------------------------------
(* acquire()                                                               *)

(* Mutant: opening always makes a new file.                                *)
OpenAnew(r) ==
    /\ at(r, "new")
    /\ made' = made + 1 /\ path' = made + 1
    /\ fd' = [fd EXCEPT ![r] = made + 1]
    /\ to(r, "opened")
    /\ UNCHANGED <<thread, holding, text, owner, machine, users, named, alive, uncleared>>

Open(r) ==
    /\ at(r, "new")
    /\ \/ /\ path # NoFile                      \* it is there
          /\ fd' = [fd EXCEPT ![r] = path]
          /\ to(r, "opened") /\ UNCHANGED <<path, made>>
       \/ /\ path = NoFile /\ Wants[r] # "Observe" /\ made < MaxFiles
          /\ made' = made + 1 /\ path' = made + 1
          /\ fd' = [fd EXCEPT ![r] = made + 1]
          /\ to(r, "opened")
       \/ /\ path = NoFile /\ Wants[r] = "Observe"     \* a Held of nothing
          /\ to(r, "running") /\ UNCHANGED <<fd, path, made>>
    /\ UNCHANGED <<thread, holding, text, owner, machine, users, named, alive, uncleared>>

TryLock(r) ==
    /\ at(r, "opened")
    /\ IF compatible(r)
       THEN holding' = holding \cup {r} /\ to(r, "locked")
       ELSE UNCHANGED holding /\ to(r, "blocked")
    /\ UNCHANGED <<fd, thread, path, made, text, owner, machine, users, named, alive, uncleared>>

(* Mutant: what a dead process wrote is believed.                          *)
written_ever(r) == text[fd[r]]

written(r) ==       \* what is in the file, if the process it names runs
    IF text[fd[r]] # Nobody /\ At[text[fd[r]]] \in alive THEN text[fd[r]] ELSE Nobody

registered(r) == {q \in machine : At[q] = At[r]}

Wait(r) ==          \* names a holder and leaves the flock to a thread
    /\ at(r, "blocked")
    /\ \E q \in (IF registered(r) # {} THEN registered(r) ELSE {written(r)}) :
         named' = [named EXCEPT ![r] = q]
    /\ thread' = [thread EXCEPT ![r] = "blocked"]
    /\ to(r, "waiting")
    /\ UNCHANGED <<fd, holding, path, made, text, owner, machine, users, alive, uncleared>>

Granted(r) ==       \* the kernel wakes the thread
    /\ thread[r] = "blocked" /\ At[r] \in alive
    /\ compatible(r)
    /\ thread' = [thread EXCEPT ![r] = "holds"]
    /\ holding' = holding \cup {r}
    /\ UNCHANGED <<pc, fd, path, made, text, owner, machine, users, named, alive, uncleared>>

Receive(r) ==
    /\ at(r, "waiting") /\ thread[r] = "holds"
    /\ thread' = [thread EXCEPT ![r] = "none"]
    /\ to(r, "locked")
    /\ UNCHANGED <<fd, holding, path, made, text, owner, machine, users, named, alive, uncleared>>

(* Mutant: the flock a stopped request's thread got is kept.               *)
OrphanKeeps(r) ==
    /\ at(r, "stopped") /\ thread[r] = "holds"
    /\ thread' = [thread EXCEPT ![r] = "none"]
    /\ UNCHANGED <<pc, fd, holding, path, made, text, owner, machine, users, named, alive,
                   uncleared>>

Orphan(r) ==        \* nobody receives the flock any more, so it is dropped
    /\ at(r, "stopped") /\ thread[r] = "holds"
    /\ thread' = [thread EXCEPT ![r] = "none"]
    /\ holding' = holding \ {r}
    /\ UNCHANGED <<pc, fd, path, made, text, owner, machine, users, named, alive, uncleared>>

(* What write_holder() leaves in the file: the name, nothing, or what was  *)
(* there when not even that could be taken out.                            *)
holders(r) == {r, Nobody, text[fd[r]]}

Lock(r) ==          \* the machine's lock is held: its holder is written, then
    /\ at(r, "locked")                                 \* the user's mutex tried
    /\ \/ exclusive(r) /\ \E w \in holders(r) : text' = [text EXCEPT ![fd[r]] = w]
       \/ ~exclusive(r) /\ UNCHANGED text
    /\ \/ user_uid(r) = NoUser /\ to(r, "owning") /\ UNCHANGED <<owner, named>>
       \/ /\ user_uid(r) # NoUser
          /\ IF owner[mine(r)] = Nobody
                /\ ~ \E q \in Request : at(q, "queued") /\ mine(q) = mine(r)
             THEN /\ owner' = [owner EXCEPT ![mine(r)] = r]
                  /\ to(r, "owning") /\ UNCHANGED named
             ELSE /\ named' = [named EXCEPT ![r] = users[mine(r)]]
                  /\ to(r, "queued") /\ UNCHANGED owner
    /\ UNCHANGED <<fd, thread, holding, path, made, machine, users, alive, uncleared>>

(* Mutant: a queued request does not wait for the mutex.                   *)
unowned_any(r) == TRUE

unowned(r) == owner[mine(r)] = Nobody

Dequeue(r) ==
    /\ at(r, "queued") /\ unowned(r)
    /\ owner' = [owner EXCEPT ![mine(r)] = r]
    /\ to(r, "owning")
    /\ UNCHANGED <<fd, thread, holding, path, made, text, machine, users, named, alive, uncleared>>

Register(r) ==
    /\ at(r, "owning")
    /\ machine' = machine \cup {r}
    /\ users' = IF user_uid(r) = NoUser THEN users ELSE [users EXCEPT ![mine(r)] = r]
    /\ to(r, "running")
    /\ UNCHANGED <<fd, thread, holding, path, made, text, owner, named, alive, uncleared>>

Stop(r) ==          \* the request's scope is stopped while it waits
    /\ at(r, "waiting") \/ at(r, "queued")
    /\ to(r, "stopped")
    /\ holding' = IF pc[r] = "queued" THEN holding \ {r} ELSE holding
    /\ UNCHANGED <<fd, thread, path, made, text, owner, machine, users, named, alive, uncleared>>

Refuse(r) ==        \* the file cannot be opened, or flock() fails
    /\ \/ (at(r, "new") \/ at(r, "opened")) /\ to(r, "failed")
       \/ at(r, "waiting") /\ thread[r] = "blocked" /\ to(r, "failed")
       \/ at(r, "stopped") /\ thread[r] = "blocked" /\ UNCHANGED pc
    /\ thread' = [thread EXCEPT ![r] = "none"]
    /\ UNCHANGED <<fd, holding, path, made, text, owner, machine, users, named, alive, uncleared>>

-----------------------------------------------------------------------------
(* What holds the lock comes to its end.                                   *)

Unlink(r) ==        \* a purge that succeeded removes the lock file
    /\ at(r, "running") /\ r \in Purges
    /\ path' = NoFile
    /\ to(r, "purged")
    /\ UNCHANGED <<fd, thread, holding, made, text, owner, machine, users, named, alive, uncleared>>

(* Mutant: the lock is let go before the registry says so.                 *)
UnregisterLate(r) ==
    /\ at(r, "running") \/ at(r, "purged")
    /\ holding' = holding \ {r}
    /\ to(r, "leaving")
    /\ UNCHANGED <<fd, thread, path, made, text, owner, machine, users, named, alive, uncleared>>

Unregister(r) ==    \* Held is dropped: first the registry forgets it
    /\ at(r, "running") \/ at(r, "purged")
    /\ machine' = machine \ {r}
    /\ users' = IF user_uid(r) # NoUser /\ fd[r] # NoFile
                THEN [users EXCEPT ![mine(r)] = Nobody] ELSE users
    /\ to(r, "leaving")
    /\ UNCHANGED <<fd, thread, holding, path, made, text, owner, named, alive, uncleared>>

Truncate(r) ==      \* set_len(0), whose failure is ignored
    /\ at(r, "leaving")
    /\ \/ exclusive(r) /\ text' = [text EXCEPT ![fd[r]] = Nobody] /\ UNCHANGED uncleared
       \/ exclusive(r) /\ UNCHANGED text /\ uncleared' = uncleared \cup {r}
       \/ ~exclusive(r) /\ UNCHANGED <<text, uncleared>>
    /\ to(r, "truncated")
    /\ UNCHANGED <<fd, thread, holding, path, made, owner, machine, users, named, alive>>

Unlock(r) ==
    /\ at(r, "truncated")
    /\ holding' = holding \ {r}
    /\ to(r, "unlocked")
    /\ UNCHANGED <<fd, thread, path, made, text, owner, machine, users, named, alive, uncleared>>

Leave(r) ==         \* then the guard of the mutex is dropped
    /\ at(r, "unlocked")
    /\ owner' = [k \in Process \X User |-> IF owner[k] = r THEN Nobody ELSE owner[k]]
    /\ to(r, "done")
    /\ UNCHANGED <<fd, thread, holding, path, made, text, machine, users, named, alive, uncleared>>

Die(p) ==           \* the kernel releases the flocks; what was written stays
    /\ p \in alive
    /\ alive' = alive \ {p}
    /\ LET its == {r \in Request : At[r] = p}
       IN  /\ pc' = [r \in Request |-> IF r \in its /\ pc[r] \notin Ended THEN "dead" ELSE pc[r]]
           /\ thread' = [r \in Request |-> IF r \in its THEN "none" ELSE thread[r]]
           /\ holding' = holding \ its
           /\ machine' = machine \ its
    /\ UNCHANGED <<fd, path, made, text, owner, users, named, uncleared>>

-----------------------------------------------------------------------------
Step(r) ==
    \/ Open(r) \/ TryLock(r) \/ Wait(r) \/ Granted(r) \/ Receive(r) \/ Orphan(r)
    \/ Lock(r) \/ Dequeue(r) \/ Register(r) \/ Unlink(r) \/ Unregister(r)
    \/ Truncate(r) \/ Unlock(r) \/ Leave(r)

Over ==
    /\ \A r \in Request : pc[r] \in Ended /\ thread[r] = "none"
    /\ UNCHANGED vars

Next ==
    \/ \E r \in Request : Step(r) \/ Stop(r) \/ Refuse(r)
    \/ \E p \in Process : Die(p)
    \/ Over

Spec == Init /\ [][Next]_vars

(* Every request that can go on does: the runtime polls it, the kernel     *)
(* wakes the thread of a lock that stays free, and an operation that runs  *)
(* comes to its end.                                                       *)
FairSpec == Spec /\ \A r \in Request : WF_vars(Step(r))

-----------------------------------------------------------------------------
(* Properties.                                                             *)

(* Every request is at one place of acquire() or of its end.               *)
TypeOK ==
    /\ pc \in [Request -> Ended \cup {"new", "opened", "blocked", "waiting", "locked",
                 "queued", "owning", "running", "purged", "leaving", "truncated", "unlocked"}]
    /\ fd \in [Request -> Inode \cup {NoFile}]
    /\ thread \in [Request -> {"none", "blocked", "holds"}]
    /\ holding \subseteq Request /\ machine \subseteq Request
    /\ path \in Inode \cup {NoFile} /\ made \in 0..MaxFiles
    /\ text \in [Inode -> Request \cup {Nobody}]
    /\ owner \in [Process \X User -> Request \cup {Nobody}]
    /\ users \in [Process \X User -> Request \cup {Nobody}]
    /\ named \in [Request -> Request \cup {Nobody}]
    /\ alive \subseteq Process /\ uncleared \subseteq Request

Runs(r) == pc[r] \in {"running", "purged", "leaving", "truncated"}

(* Whatever changes the whole machine runs alone: no other request has the *)
(* machine meanwhile, in whatever process, but one that only observes and  *)
(* found no lock file to wait for.                                         *)
ExclusiveRunsAlone ==
    \A r, q \in Request :
      (r # q /\ Runs(r) /\ Runs(q) /\ exclusive(r)) => fd[q] = NoFile

(* So it is in every state until a purge has unlinked the lock file and     *)
(* another one was made.                                                   *)
ExclusiveUntilPurged == made <= 1 => ExclusiveRunsAlone

(* Of one user no two requests run at a time in one process.               *)
OneRequestPerUser ==
    \A r, q \in Request :
      (r # q /\ Runs(r) /\ Runs(q) /\ mine(r) = mine(q) /\ user_uid(r) # NoUser)
        => fd[r] = NoFile \/ fd[q] = NoFile

(* A request that says for whom it waits, for the machine or for its user's *)
(* turn, names one that still holds the lock: not one whose process died   *)
(* with its name in the file, and one that has left only if it could not   *)
(* take its name out of the file.                                          *)
NamesAHolder ==
    [][\A r \in Request :
         named'[r] # named[r] => named'[r] \in holding \cup uncleared \cup {Nobody}]_vars

(* The registry's word on a user is the request that owns the user's mutex.*)
UsersAreOwners ==
    \A k \in Process \X User : (k[1] \in alive /\ users[k] # Nobody) => users[k] = owner[k]

(* Every request comes to its end, and so does the thread of one that was  *)
(* stopped while it waited: nobody waits for ever and the lock is free.    *)
EveryoneEnds ==
    <>(holding = {} /\ \A r \in Request : pc[r] \in Ended /\ thread[r] = "none")
=============================================================================
