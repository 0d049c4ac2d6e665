---------------------------- MODULE LocksProofs ----------------------------
(***************************************************************************)
(* What Locks.tla promises, for any number of requests, processes and      *)
(* users.                                                                  *)
(*                                                                         *)
(* That two requests run says nothing of the flocks by itself: Holders     *)
(* ties a request's place in acquire() to the flock it holds, and Excludes *)
(* is what the kernel keeps of two flocks on one inode.  Owners does the   *)
(* same for the mutex of a user.  Registered and Written say that whoever  *)
(* the registry or the file names has not come to its end yet.  Made, *)
(* with one file made, makes two inodes one.                               *)
(***************************************************************************)
EXTENDS Locks, TLAPS

-----------------------------------------------------------------------------
(* The inductive invariant.                                                *)

InLock == {"locked", "queued", "owning", "running", "purged", "leaving", "truncated"}
InTurn == {"owning", "running", "purged", "leaving", "truncated", "unlocked"}

(* Only a request that waits, or was stopped while it did, has a thread;   *)
(* none holds a file it has not opened, and only an observer may go on     *)
(* without one.                                                            *)
Placed ==
    \A r \in Request :
      /\ thread[r] # "none" => pc[r] \in {"waiting", "stopped"} /\ fd[r] # NoFile
      /\ pc[r] = "new" => fd[r] = NoFile
      /\ pc[r] \in {"opened", "blocked", "waiting", "locked", "queued", "owning"}
           => fd[r] # NoFile
      /\ exclusive(r) /\ pc[r] \in InLock => fd[r] # NoFile

(* A flock is held by who has passed it and by a thread that got it.       *)
Holders ==
    \A r \in Request :
      r \in holding <=> \/ pc[r] \in InLock /\ fd[r] # NoFile
                        \/ thread[r] = "holds"

(* On one inode an exclusive flock is the only one.                        *)
Excludes ==
    \A r, q \in holding : r # q /\ fd[r] = fd[q] => ~exclusive(r)

(* Who has its user's turn owns the mutex.                                 *)
Owners ==
    \A r \in Request :
      pc[r] \in InTurn /\ fd[r] # NoFile /\ user_uid(r) # NoUser => owner[mine(r)] = r

(* Whoever the registry of a living process names runs, with the lock.     *)
Registered ==
    /\ \A r \in machine : pc[r] \in {"running", "purged"} /\ fd[r] # NoFile
    /\ \A k \in Process \X User :
         k[1] \in alive /\ users[k] # Nobody =>
           /\ owner[k] = users[k] /\ mine(users[k]) = k
           /\ pc[users[k]] \in {"running", "purged"} /\ fd[users[k]] # NoFile

(* Whoever a file names, if its process runs and it could take its name    *)
(* back, holds that file's lock.                                           *)
Written ==
    \A i \in Inode :
      text[i] # Nobody /\ At[text[i]] \in alive /\ text[i] \notin uncleared =>
        /\ pc[text[i]] \in {"owning", "running", "purged", "leaving"}
        /\ fd[text[i]] = i /\ exclusive(text[i])

Inv ==
    /\ TypeOK /\ Placed /\ Holders /\ Excludes /\ Owners /\ Registered /\ Written

(* What the path leads to, and what was opened, is one of the files made.  *)
Made ==
    /\ path # NoFile => path <= made
    /\ \A r \in Request : fd[r] # NoFile => fd[r] <= made

-----------------------------------------------------------------------------
USE LocksAssumption DEF LocksAssumption, Need, Inode, exclusive, user_uid

(* Nobody holds anything at first.                                         *)
LEMMA InitInv == ASSUME Init PROVE Inv
  BY DEF Init, Inv, TypeOK, Placed, Holders, Excludes, Owners, Registered, Written,
         InLock, InTurn, Ended

(* A request opens the file and holds nothing yet.                         *)
LEMMA OpenInv ==
  ASSUME Inv, NEW r \in Request, Open(r)
  PROVE  Inv'
<1>1. TypeOK'
  <2>1. fd' \in [Request -> Inode \cup {NoFile}]
    BY DEF Open, Inv, TypeOK
  <2>2. path' \in Inode \cup {NoFile} /\ made' \in 0..MaxFiles
    BY DEF Open, Inv, TypeOK
  <2> QED BY <2>1, <2>2 DEF Open, at, to, Inv, TypeOK, Ended
<1>2. Placed'
  BY DEF Open, at, to, Inv, TypeOK, Placed, InLock
<1>3. Holders'
  BY DEF Open, at, to, Inv, TypeOK, Placed, Holders, InLock
<1>4. Excludes'
  BY DEF Open, at, to, Inv, TypeOK, Placed, Holders, Excludes, InLock
<1>5. Owners'
  BY DEF Open, at, to, Inv, TypeOK, Placed, Owners, InTurn, mine
<1>6. Registered'
  BY DEF Open, at, to, Inv, TypeOK, Placed, Owners, Registered, InTurn, mine
<1>7. Written'
  BY DEF Open, at, to, Inv, TypeOK, Placed, Holders, Excludes, Written, InLock
<1> QED BY <1>1, <1>2, <1>3, <1>4, <1>5, <1>6, <1>7 DEF Inv

(* The kernel grants a flock at once only beside those it goes with.       *)
LEMMA TryLockInv ==
  ASSUME Inv, NEW r \in Request, TryLock(r)
  PROVE  Inv'
<1>1. TypeOK'
  BY DEF TryLock, at, to, Inv, TypeOK, Ended
<1>2. Placed'
  BY DEF TryLock, at, to, Inv, TypeOK, Placed, InLock
<1>3. Holders'
  BY DEF TryLock, at, to, Inv, TypeOK, Placed, Holders, InLock
<1>4. Excludes'
  BY DEF TryLock, at, to, Inv, TypeOK, Placed, Holders, Excludes, InLock, compatible
<1>5. Owners'
  BY DEF TryLock, at, to, Inv, TypeOK, Placed, Owners, InTurn, mine
<1>6. Registered'
  <2>1. UNCHANGED <<fd, users, owner, machine, alive>>
    BY DEF TryLock
  <2>2. \A q \in Request : pc[q] \in {"running", "purged"} => pc'[q] = pc[q]
    BY DEF TryLock, at, to, Inv, TypeOK
  <2> QED BY <2>1, <2>2 DEF Inv, TypeOK, Registered, mine
<1>7. Written'
  BY DEF TryLock, at, to, Inv, TypeOK, Placed, Holders, Excludes, Written, InLock
<1> QED BY <1>1, <1>2, <1>3, <1>4, <1>5, <1>6, <1>7 DEF Inv

(* A request that waits says so and changes nothing else.                  *)
LEMMA WaitInv ==
  ASSUME Inv, NEW r \in Request, Wait(r)
  PROVE  Inv'
<1>1. TypeOK'
  <2>1. registered(r) \subseteq Request /\ written(r) \in Request \cup {Nobody}
    BY DEF Wait, at, Inv, TypeOK, Placed, registered, written
  <2>2. named' \in [Request -> Request \cup {Nobody}]
    BY <2>1 DEF Wait, Inv, TypeOK
  <2> QED BY <2>2 DEF Wait, at, to, Inv, TypeOK, Ended
<1>2. Placed'
  BY DEF Wait, at, to, Inv, TypeOK, Placed, InLock
<1>3. Holders'
  BY DEF Wait, at, to, Inv, TypeOK, Placed, Holders, InLock
<1>4. Excludes'
  BY DEF Wait, at, to, Inv, TypeOK, Placed, Holders, Excludes, InLock
<1>5. Owners'
  BY DEF Wait, at, to, Inv, TypeOK, Placed, Owners, InTurn, mine
<1>6. Registered'
  BY DEF Wait, at, to, Inv, TypeOK, Placed, Owners, Registered, InTurn, mine
<1>7. Written'
  BY DEF Wait, at, to, Inv, TypeOK, Placed, Holders, Excludes, Written, InLock
<1> QED BY <1>1, <1>2, <1>3, <1>4, <1>5, <1>6, <1>7 DEF Inv

(* A thread is woken only when its flock goes with the others.             *)
LEMMA GrantedInv ==
  ASSUME Inv, NEW r \in Request, Granted(r)
  PROVE  Inv'
<1>1. TypeOK'
  BY DEF Granted, at, to, Inv, TypeOK, Ended
<1>2. Placed'
  BY DEF Granted, at, to, Inv, TypeOK, Placed, InLock
<1>3. Holders'
  BY DEF Granted, at, to, Inv, TypeOK, Placed, Holders, InLock
<1>4. Excludes'
  BY DEF Granted, at, to, Inv, TypeOK, Placed, Holders, Excludes, InLock, compatible
<1>5. Owners'
  BY DEF Granted, at, to, Inv, TypeOK, Placed, Owners, InTurn, mine
<1>6. Registered'
  BY DEF Granted, at, to, Inv, TypeOK, Placed, Owners, Registered, InTurn, mine
<1>7. Written'
  BY DEF Granted, at, to, Inv, TypeOK, Placed, Holders, Excludes, Written, InLock
<1> QED BY <1>1, <1>2, <1>3, <1>4, <1>5, <1>6, <1>7 DEF Inv

(* The request takes the flock over from its thread.                       *)
LEMMA ReceiveInv ==
  ASSUME Inv, NEW r \in Request, Receive(r)
  PROVE  Inv'
<1>1. TypeOK'
  BY DEF Receive, at, to, Inv, TypeOK, Ended
<1>2. Placed'
  BY DEF Receive, at, to, Inv, TypeOK, Placed, InLock
<1>3. Holders'
  BY DEF Receive, at, to, Inv, TypeOK, Placed, Holders, InLock
<1>4. Excludes'
  BY DEF Receive, at, to, Inv, TypeOK, Placed, Holders, Excludes, InLock
<1>5. Owners'
  BY DEF Receive, at, to, Inv, TypeOK, Placed, Owners, InTurn, mine
<1>6. Registered'
  BY DEF Receive, at, to, Inv, TypeOK, Placed, Owners, Registered, InTurn, mine
<1>7. Written'
  BY DEF Receive, at, to, Inv, TypeOK, Placed, Holders, Excludes, Written, InLock
<1> QED BY <1>1, <1>2, <1>3, <1>4, <1>5, <1>6, <1>7 DEF Inv

(* A flock nobody waits for is dropped.                                    *)
LEMMA OrphanInv ==
  ASSUME Inv, NEW r \in Request, Orphan(r)
  PROVE  Inv'
<1>1. TypeOK'
  BY DEF Orphan, at, to, Inv, TypeOK, Ended
<1>2. Placed'
  BY DEF Orphan, at, to, Inv, TypeOK, Placed, InLock
<1>3. Holders'
  BY DEF Orphan, at, to, Inv, TypeOK, Placed, Holders, InLock
<1>4. Excludes'
  BY DEF Orphan, at, to, Inv, TypeOK, Placed, Holders, Excludes, InLock
<1>5. Owners'
  BY DEF Orphan, at, to, Inv, TypeOK, Placed, Owners, InTurn, mine
<1>6. Registered'
  BY DEF Orphan, at, to, Inv, TypeOK, Placed, Owners, Registered, InTurn, mine
<1>7. Written'
  BY DEF Orphan, at, to, Inv, TypeOK, Placed, Holders, Excludes, Written, InLock
<1> QED BY <1>1, <1>2, <1>3, <1>4, <1>5, <1>6, <1>7 DEF Inv

(* The holder is written, and the user's mutex taken if it is free.        *)
LEMMA LockInv ==
  ASSUME Inv, NEW r \in Request, Lock(r)
  PROVE  Inv'
<1> DEFINE takes == user_uid(r) # NoUser /\ owner' = [owner EXCEPT ![mine(r)] = r]
                    /\ owner[mine(r)] = Nobody /\ pc' = [pc EXCEPT ![r] = "owning"]
                    /\ named' = named
           queues == user_uid(r) # NoUser /\ owner' = owner
                    /\ named' = [named EXCEPT ![r] = users[mine(r)]]
                    /\ pc' = [pc EXCEPT ![r] = "queued"]
           passes == user_uid(r) = NoUser /\ owner' = owner /\ named' = named
                    /\ pc' = [pc EXCEPT ![r] = "owning"]
<1>a. /\ At[r] \in alive /\ pc[r] = "locked"
      /\ UNCHANGED <<fd, thread, holding, path, made, machine, users, alive, uncleared>>
  BY DEF Lock, at
<1>b. takes \/ queues \/ passes
  BY DEF Lock, to
<1>c. /\ fd[r] \in Inode /\ text' \in [Inode -> Request \cup {Nobody}]
      /\ \A i \in Inode : text'[i] = text[i] \/ text'[i] = Nobody
                          \/ (i = fd[r] /\ text'[i] = r /\ exclusive(r))
  <2>1. fd[r] \in Inode
    BY <1>a DEF Inv, TypeOK, Placed
  <2>2. text \in [Inode -> Request \cup {Nobody}]
    BY DEF Inv, TypeOK
  <2>3. \/ text' = text
        \/ exclusive(r) /\ \E w \in {r, Nobody, text[fd[r]]} : text' = [text EXCEPT ![fd[r]] = w]
    BY DEF Lock, holders
  <2> QED BY <2>1, <2>2, <2>3
<1>d. mine(r) \in Process \X User \/ user_uid(r) = NoUser
  BY DEF mine
<1>e. /\ pc' \in [Request -> {"queued", "owning"} \cup {pc[q] : q \in Request}]
      /\ pc'[r] \in {"queued", "owning"} /\ \A q \in Request : q # r => pc'[q] = pc[q]
  BY <1>b DEF Inv, TypeOK
<1> HIDE DEF takes, queues, passes
<1>1. TypeOK'
  <2>1. owner' \in [Process \X User -> Request \cup {Nobody}]
    BY <1>b, <1>d DEF takes, queues, passes, Inv, TypeOK
  <2>2. named' \in [Request -> Request \cup {Nobody}]
    BY <1>b, <1>d DEF takes, queues, passes, Inv, TypeOK
  <2>3. pc' \in [Request -> Ended \cup {"new", "opened", "blocked", "waiting", "locked",
          "queued", "owning", "running", "purged", "leaving", "truncated", "unlocked"}]
    BY <1>b DEF takes, queues, passes, Inv, TypeOK
  <2> QED BY <1>a, <1>c, <2>1, <2>2, <2>3 DEF Inv, TypeOK
<1>2. Placed'
  BY <1>a, <1>e DEF Inv, TypeOK, Placed, InLock
<1>3. Holders'
  BY <1>a, <1>e DEF Inv, TypeOK, Placed, Holders, InLock
<1>4. Excludes'
  BY <1>a DEF Inv, Excludes
<1>5. Owners'
  <2>1. CASE takes
    <3>1. \A q \in Request : q # r /\ mine(q) = mine(r) /\ fd[q] # NoFile => pc[q] \notin InTurn
      BY <2>1, <1>d DEF takes, Inv, Owners, mine
    <3>2. owner'[mine(r)] = r /\ \A k \in Process \X User : k # mine(r) => owner'[k] = owner[k]
      BY <2>1, <1>d DEF takes, Inv, TypeOK
    <3>3. \A q \in Request : user_uid(q) # NoUser => mine(q) \in Process \X User
      BY DEF mine
    <3> QED BY <1>a, <1>e, <3>1, <3>2, <3>3 DEF Inv, Owners
  <2>2. CASE queues
    BY <1>a, <2>2 DEF queues, Inv, TypeOK, Owners, InTurn, mine
  <2>3. CASE passes
    BY <1>a, <2>3 DEF passes, Inv, TypeOK, Owners, InTurn, mine
  <2> QED BY <1>b, <2>1, <2>2, <2>3
<1>6. Registered'
  <2>1. \A k \in Process \X User : owner[k] # Nobody => owner'[k] = owner[k]
    BY <1>b, <1>d DEF takes, queues, passes, Inv, TypeOK
  <2>2. \A q \in Request : pc[q] \in {"running", "purged"} => pc'[q] = pc[q]
    BY <1>a, <1>e
  <2> QED BY <1>a, <2>1, <2>2 DEF Inv, TypeOK, Registered, mine
<1>7. Written'
  <2>1. ASSUME NEW i \in Inode, text'[i] = text[i], text[i] # Nobody, At[text[i]] \in alive,
             text[i] \notin uncleared
        PROVE  /\ pc'[text[i]] \in {"owning", "running", "purged", "leaving"}
               /\ fd[text[i]] = i /\ exclusive(text[i])
    BY <1>a, <1>e, <2>1 DEF Inv, TypeOK, Written
  <2>2. exclusive(r) => pc'[r] = "owning"
    BY <1>b, <1>a DEF takes, queues, passes, Inv, TypeOK
  <2> QED BY <1>a, <1>c, <2>1, <2>2 DEF Inv, TypeOK, Written
<1> QED BY <1>1, <1>2, <1>3, <1>4, <1>5, <1>6, <1>7 DEF Inv

(* A queued request gets the mutex once it is free.                        *)
LEMMA DequeueInv ==
  ASSUME Inv, NEW r \in Request, Dequeue(r)
  PROVE  Inv'
<1>1. TypeOK'
  BY DEF Dequeue, at, to, Inv, TypeOK, Ended, unowned, mine
<1>2. Placed'
  BY DEF Dequeue, at, to, Inv, TypeOK, Placed, InLock
<1>3. Holders'
  BY DEF Dequeue, at, to, Inv, TypeOK, Placed, Holders, InLock
<1>4. Excludes'
  BY DEF Dequeue, at, to, Inv, TypeOK, Placed, Holders, Excludes, InLock
<1>5. Owners'
  BY DEF Dequeue, at, to, Inv, TypeOK, Placed, Owners, InTurn, mine, unowned
<1>6. Registered'
  BY DEF Dequeue, at, to, Inv, TypeOK, Placed, Owners, Registered, InTurn, mine,
         unowned
<1>7. Written'
  BY DEF Dequeue, at, to, Inv, TypeOK, Placed, Holders, Excludes, Written, InLock
<1> QED BY <1>1, <1>2, <1>3, <1>4, <1>5, <1>6, <1>7 DEF Inv

(* What the registry names owns the mutex it names it for.                 *)
LEMMA RegisterInv ==
  ASSUME Inv, NEW r \in Request, Register(r)
  PROVE  Inv'
<1>1. TypeOK'
  BY DEF Register, at, to, Inv, TypeOK, Ended, mine
<1>2. Placed'
  BY DEF Register, at, to, Inv, TypeOK, Placed, InLock
<1>3. Holders'
  BY DEF Register, at, to, Inv, TypeOK, Placed, Holders, InLock
<1>4. Excludes'
  BY DEF Register, at, to, Inv, TypeOK, Placed, Holders, Excludes, InLock
<1>5. Owners'
  BY DEF Register, at, to, Inv, TypeOK, Placed, Owners, InTurn, mine
<1>6. Registered'
  BY DEF Register, at, to, Inv, TypeOK, Placed, Owners, Registered, InTurn, mine
<1>7. Written'
  BY DEF Register, at, to, Inv, TypeOK, Placed, Holders, Excludes, Written, InLock
<1> QED BY <1>1, <1>2, <1>3, <1>4, <1>5, <1>6, <1>7 DEF Inv

(* A stopped request leaves its thread behind, or its flock.               *)
LEMMA StopInv ==
  ASSUME Inv, NEW r \in Request, Stop(r)
  PROVE  Inv'
<1>1. TypeOK'
  BY DEF Stop, at, to, Inv, TypeOK, Ended
<1>2. Placed'
  BY DEF Stop, at, to, Inv, TypeOK, Placed, InLock
<1>3. Holders'
  BY DEF Stop, at, to, Inv, TypeOK, Placed, Holders, InLock
<1>4. Excludes'
  BY DEF Stop, at, to, Inv, TypeOK, Placed, Holders, Excludes, InLock
<1>5. Owners'
  BY DEF Stop, at, to, Inv, TypeOK, Placed, Owners, InTurn, mine
<1>6. Registered'
  BY DEF Stop, at, to, Inv, TypeOK, Placed, Owners, Registered, InTurn, mine
<1>7. Written'
  BY DEF Stop, at, to, Inv, TypeOK, Placed, Holders, Excludes, Written, InLock
<1> QED BY <1>1, <1>2, <1>3, <1>4, <1>5, <1>6, <1>7 DEF Inv

(* A refused request holds nothing.                                        *)
LEMMA RefuseInv ==
  ASSUME Inv, NEW r \in Request, Refuse(r)
  PROVE  Inv'
<1>1. TypeOK'
  BY DEF Refuse, at, to, Inv, TypeOK, Ended
<1>2. Placed'
  BY DEF Refuse, at, to, Inv, TypeOK, Placed, InLock
<1>3. Holders'
  BY DEF Refuse, at, to, Inv, TypeOK, Placed, Holders, InLock
<1>4. Excludes'
  BY DEF Refuse, at, to, Inv, TypeOK, Placed, Holders, Excludes, InLock
<1>5. Owners'
  BY DEF Refuse, at, to, Inv, TypeOK, Placed, Owners, InTurn, mine
<1>6. Registered'
  <2>1. UNCHANGED <<fd, users, owner, machine, alive>>
    BY DEF Refuse
  <2>2. \A q \in Request : pc[q] \in {"running", "purged"} => pc'[q] = pc[q]
    BY DEF Refuse, at, to, Inv, TypeOK
  <2> QED BY <2>1, <2>2 DEF Inv, TypeOK, Registered, mine
<1>7. Written'
  BY DEF Refuse, at, to, Inv, TypeOK, Placed, Holders, Excludes, Written, InLock
<1> QED BY <1>1, <1>2, <1>3, <1>4, <1>5, <1>6, <1>7 DEF Inv

(* Purge changes where the path leads and no flock.                        *)
LEMMA UnlinkInv ==
  ASSUME Inv, NEW r \in Request, Unlink(r)
  PROVE  Inv'
<1>1. TypeOK'
  BY DEF Unlink, at, to, Inv, TypeOK, Ended
<1>2. Placed'
  BY DEF Unlink, at, to, Inv, TypeOK, Placed, InLock
<1>3. Holders'
  BY DEF Unlink, at, to, Inv, TypeOK, Placed, Holders, InLock
<1>4. Excludes'
  BY DEF Unlink, at, to, Inv, TypeOK, Placed, Holders, Excludes, InLock
<1>5. Owners'
  BY DEF Unlink, at, to, Inv, TypeOK, Placed, Owners, InTurn, mine
<1>6. Registered'
  BY DEF Unlink, at, to, Inv, TypeOK, Placed, Owners, Registered, InTurn, mine
<1>7. Written'
  BY DEF Unlink, at, to, Inv, TypeOK, Placed, Holders, Excludes, Written, InLock
<1> QED BY <1>1, <1>2, <1>3, <1>4, <1>5, <1>6, <1>7 DEF Inv

(* The registry forgets a request before it lets its locks go.             *)
LEMMA UnregisterInv ==
  ASSUME Inv, NEW r \in Request, Unregister(r)
  PROVE  Inv'
<1>1. TypeOK'
  BY DEF Unregister, at, to, Inv, TypeOK, Ended, mine
<1>2. Placed'
  BY DEF Unregister, at, to, Inv, TypeOK, Placed, InLock
<1>3. Holders'
  BY DEF Unregister, at, to, Inv, TypeOK, Placed, Holders, InLock
<1>4. Excludes'
  BY DEF Unregister, at, to, Inv, TypeOK, Placed, Holders, Excludes, InLock
<1>5. Owners'
  BY DEF Unregister, at, to, Inv, TypeOK, Placed, Owners, InTurn, mine
<1>6. Registered'
  BY DEF Unregister, at, to, Inv, TypeOK, Placed, Owners, Registered, InTurn, mine
<1>7. Written'
  BY DEF Unregister, at, to, Inv, TypeOK, Placed, Holders, Excludes, Written, InLock
<1> QED BY <1>1, <1>2, <1>3, <1>4, <1>5, <1>6, <1>7 DEF Inv

(* The file forgets a request before it lets its flock go.                 *)
LEMMA TruncateInv ==
  ASSUME Inv, NEW r \in Request, Truncate(r)
  PROVE  Inv'
<1>1. TypeOK'
  BY DEF Truncate, at, to, Inv, TypeOK, Ended
<1>2. Placed'
  BY DEF Truncate, at, to, Inv, TypeOK, Placed, InLock
<1>3. Holders'
  BY DEF Truncate, at, to, Inv, TypeOK, Placed, Holders, InLock
<1>4. Excludes'
  BY DEF Truncate, at, to, Inv, TypeOK, Placed, Holders, Excludes, InLock
<1>5. Owners'
  BY DEF Truncate, at, to, Inv, TypeOK, Placed, Owners, InTurn, mine
<1>6. Registered'
  BY DEF Truncate, at, to, Inv, TypeOK, Placed, Owners, Registered, InTurn, mine
<1>7. Written'
  BY DEF Truncate, at, to, Inv, TypeOK, Placed, Holders, Excludes, Written, InLock
<1> QED BY <1>1, <1>2, <1>3, <1>4, <1>5, <1>6, <1>7 DEF Inv

(* The flock goes.                                                         *)
LEMMA UnlockInv ==
  ASSUME Inv, NEW r \in Request, Unlock(r)
  PROVE  Inv'
<1>1. TypeOK'
  BY DEF Unlock, at, to, Inv, TypeOK, Ended
<1>2. Placed'
  BY DEF Unlock, at, to, Inv, TypeOK, Placed, InLock
<1>3. Holders'
  BY DEF Unlock, at, to, Inv, TypeOK, Placed, Holders, InLock
<1>4. Excludes'
  BY DEF Unlock, at, to, Inv, TypeOK, Placed, Holders, Excludes, InLock
<1>5. Owners'
  BY DEF Unlock, at, to, Inv, TypeOK, Placed, Owners, InTurn, mine
<1>6. Registered'
  BY DEF Unlock, at, to, Inv, TypeOK, Placed, Owners, Registered, InTurn, mine
<1>7. Written'
  BY DEF Unlock, at, to, Inv, TypeOK, Placed, Holders, Excludes, Written, InLock
<1> QED BY <1>1, <1>2, <1>3, <1>4, <1>5, <1>6, <1>7 DEF Inv

(* The mutex goes last.                                                    *)
LEMMA LeaveInv ==
  ASSUME Inv, NEW r \in Request, Leave(r)
  PROVE  Inv'
<1>1. TypeOK'
  BY DEF Leave, at, to, Inv, TypeOK, Ended
<1>2. Placed'
  BY DEF Leave, at, to, Inv, TypeOK, Placed, InLock
<1>3. Holders'
  BY DEF Leave, at, to, Inv, TypeOK, Placed, Holders, InLock
<1>4. Excludes'
  BY DEF Leave, at, to, Inv, TypeOK, Placed, Holders, Excludes, InLock
<1>5. Owners'
  BY DEF Leave, at, to, Inv, TypeOK, Placed, Owners, InTurn, mine
<1>6. Registered'
  BY DEF Leave, at, to, Inv, TypeOK, Placed, Owners, Registered, InTurn, mine
<1>7. Written'
  BY DEF Leave, at, to, Inv, TypeOK, Placed, Holders, Excludes, Written, InLock
<1> QED BY <1>1, <1>2, <1>3, <1>4, <1>5, <1>6, <1>7 DEF Inv

(* What a dead process held is free, and nobody reads what it knew.        *)
LEMMA DieInv ==
  ASSUME Inv, NEW p \in Process, Die(p)
  PROVE  Inv'
<1>1. TypeOK'
  BY DEF Die, at, to, Inv, TypeOK, Ended
<1>2. Placed'
  BY DEF Die, at, to, Inv, TypeOK, Placed, InLock, Ended
<1>3. Holders'
  BY DEF Die, at, to, Inv, TypeOK, Placed, Holders, InLock, Ended
<1>4. Excludes'
  BY DEF Die, at, to, Inv, TypeOK, Placed, Holders, Excludes, InLock, Ended
<1>5. Owners'
  BY DEF Die, at, to, Inv, TypeOK, Placed, Owners, InTurn, mine, Ended
<1>6. Registered'
  BY DEF Die, at, to, Inv, TypeOK, Placed, Owners, Registered, InTurn, mine, Ended
<1>7. Written'
  BY DEF Die, at, to, Inv, TypeOK, Placed, Holders, Excludes, Written, InLock, Ended
<1> QED BY <1>1, <1>2, <1>3, <1>4, <1>5, <1>6, <1>7 DEF Inv

(* Every step keeps the invariant.                                         *)
LEMMA NextInv == ASSUME Inv, [Next]_vars PROVE Inv'
<1>1. CASE UNCHANGED vars
  BY <1>1 DEF vars, Inv, TypeOK, Placed, Holders, Excludes, Owners, Registered, Written, mine
<1>2. CASE Over
  BY <1>1, <1>2 DEF Over
<1>3. ASSUME NEW r \in Request, Step(r) \/ Stop(r) \/ Refuse(r)
      PROVE  Inv'
  BY <1>3, OpenInv, TryLockInv, WaitInv, GrantedInv, ReceiveInv, OrphanInv, LockInv,
     DequeueInv, RegisterInv, StopInv, RefuseInv, UnlinkInv, UnregisterInv, TruncateInv,
     UnlockInv, LeaveInv DEF Step
<1>4. ASSUME NEW p \in Process, Die(p)
      PROVE  Inv'
  BY <1>4, DieInv
<1> QED BY <1>1, <1>2, <1>3, <1>4 DEF Next

-----------------------------------------------------------------------------
(* The theorems.                                                           *)

(* The invariant holds in every state of acquire() and of Held's end.      *)
THEOREM LocksInvariant == Spec => []Inv
<1>1. Init => Inv
  BY InitInv
<1>2. Inv /\ [Next]_vars => Inv'
  BY NextInv
<1> QED BY <1>1, <1>2, PTL DEF Spec

(* In one process no two requests of one user run at a time, a purge of    *)
(* the lock file or not.                                                   *)
THEOREM OneTurn == Spec => []OneRequestPerUser
<1>1. Inv => OneRequestPerUser
  BY DEF Inv, Owners, OneRequestPerUser, Runs, InTurn, mine
<1> QED BY <1>1, LocksInvariant, PTL

(* The registry's word on a user is the owner of the user's mutex.         *)
THEOREM RegistryIsRight == Spec => []UsersAreOwners
<1>1. Inv => UsersAreOwners
  BY DEF Inv, Registered, UsersAreOwners
<1> QED BY <1>1, LocksInvariant, PTL

(* Who waits is told of one that holds the lock, or could not take its     *)
(* name out of the file.                                                   *)
THEOREM WaitsAreNamed == Spec => NamesAHolder
<1> DEFINE Told == \A r \in Request :
                     named'[r] # named[r] => named'[r] \in holding \cup uncleared \cup {Nobody}
<1>1. ASSUME Inv, [Next]_vars PROVE Told
  <2>1. CASE UNCHANGED named
    BY <2>1
  <2>2. ASSUME NEW r \in Request, Wait(r) PROVE Told
    <3>1. registered(r) \subseteq holding
      BY <1>1 DEF registered, Inv, TypeOK, Registered, Holders, InLock
    <3>2. written(r) \in holding \cup uncleared \cup {Nobody}
      BY <1>1, <2>2 DEF Wait, at, written, Inv, TypeOK, Placed, Written, Holders, InLock
    <3> QED BY <1>1, <2>2, <3>1, <3>2 DEF Wait, Inv, TypeOK
  <2>3. ASSUME NEW r \in Request, Lock(r) PROVE Told
    <3>1. CASE UNCHANGED named
      BY <3>1
    <3>2. CASE user_uid(r) # NoUser /\ named' = [named EXCEPT ![r] = users[mine(r)]]
      <4>1. users[mine(r)] \in holding \cup {Nobody}
        BY <1>1, <2>3, <3>2 DEF Lock, at, mine, Inv, TypeOK, Registered, Holders, InLock
      <4> QED BY <1>1, <3>2, <4>1 DEF Inv, TypeOK
    <3> QED BY <2>3, <3>1, <3>2 DEF Lock
  <2> QED BY <1>1, <2>1, <2>2, <2>3 DEF Next, Step, vars, Over, Open, TryLock, Granted, Receive,
        Orphan, Dequeue, Register, Stop, Refuse, Unlink, Unregister, Truncate, Unlock, Leave, Die
<1>2. Inv /\ [Next]_vars => [Told]_vars
  BY <1>1
<1> QED BY <1>2, LocksInvariant, PTL DEF Spec, NamesAHolder

(* Every file is counted.                                                  *)
LEMMA MadeKept ==
  ASSUME Inv, Made, [Next]_vars
  PROVE  Made'
<1>1. CASE UNCHANGED <<fd, path, made>>
  BY <1>1 DEF Made
<1>2. ASSUME NEW r \in Request, Open(r) PROVE Made'
  <2>1. CASE UNCHANGED <<path, made>> /\ path # NoFile /\ fd' = [fd EXCEPT ![r] = path]
    BY <2>1 DEF Made, Inv, TypeOK
  <2>2. CASE made' = made + 1 /\ path' = made + 1 /\ fd' = [fd EXCEPT ![r] = made + 1]
    <3>1. made \in Nat /\ fd \in [Request -> Nat \cup {NoFile}]
      BY DEF Inv, TypeOK
    <3>2. ASSUME NEW q \in Request, fd'[q] # NoFile PROVE fd'[q] <= made + 1
      BY <2>2, <3>1, <3>2 DEF Made
    <3> QED BY <2>2, <3>1, <3>2 DEF Made
  <2> QED BY <1>1, <1>2, <2>1, <2>2 DEF Open
<1>3. ASSUME NEW r \in Request, Unlink(r) PROVE Made'
  BY <1>3 DEF Unlink, Made
<1> QED BY <1>1, <1>2, <1>3 DEF Next, Step, vars, Over, TryLock, Wait, Granted, Receive, Orphan,
      Lock, Dequeue, Register, Stop, Refuse, Unregister, Truncate, Unlock, Leave, Die

(* Whatever changes the whole machine runs alone, in however many          *)
(* processes, until a purge has had the lock file replaced.                *)
THEOREM RunsAlone == Spec => []ExclusiveUntilPurged
<1>1. Init => Made
  BY DEF Init, Made
<1>2. Inv /\ Made /\ [Next]_vars => Made'
  BY MadeKept
<1>3. Inv /\ Made => ExclusiveUntilPurged
  <2> SUFFICES ASSUME Inv, Made, made <= 1, NEW r \in Request, NEW q \in Request,
                      r # q, Runs(r), Runs(q), exclusive(r), fd[q] # NoFile
               PROVE  FALSE
    BY DEF ExclusiveUntilPurged, ExclusiveRunsAlone
  <2>1. r \in holding /\ q \in holding /\ fd[r] # NoFile
    BY DEF Inv, Placed, Holders, Runs, InLock
  <2>2. fd[r] = 1 /\ fd[q] = 1
    BY <2>1 DEF Inv, TypeOK, Made
  <2> QED BY <2>1, <2>2 DEF Inv, Excludes
<1> QED BY <1>1, <1>2, <1>3, LocksInvariant, PTL DEF Spec
=============================================================================
