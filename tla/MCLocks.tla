------------------------------ MODULE MCLocks ------------------------------
(* Small instances of Locks.                                               *)
EXTENDS Locks

(* An install and a dry run of one user in the daemon, and a purge in a    *)
(* process of its own.                                                     *)
DaemonRequest == {"install", "dry", "purge"}
DaemonAt    == [r \in Request |-> IF r = "purge" THEN "oneshot" ELSE "daemon"]
DaemonFor   == [r \in Request |-> "alice"]
DaemonWants == [r \in Request |-> CASE r = "install" -> "SharedForUser"
                                   [] r = "dry" -> "Observe"
                                   [] r = "purge" -> "Exclusive"]

(* A purge and two bootstraps, each in a process of its own.               *)
PurgeRequest == {"purge", "bootstrap", "again"}
PurgeAt    == [r \in Request |-> r]
PurgeFor   == [r \in Request |-> NoUser]
PurgeWants == [r \in Request |-> "Exclusive"]
=============================================================================
