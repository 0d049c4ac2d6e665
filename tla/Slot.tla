-------------------------------- MODULE Slot --------------------------------
(***************************************************************************)
(* What the file actions of mix promise the other programs of the machine  *)
(* about one path: the file of another is never taken away from its path,  *)
(* and none is put there.  Only the others do that.                        *)
(*                                                                         *)
(* The promise ends ("void") when somebody acts on the path between the    *)
(* rename that caught the file of another and the rename that gives it     *)
(* back, or that one fails: crates/fs/src/lib.rs has no single system call *)
(* for both.                                                               *)
(***************************************************************************)
EXTENDS Naturals

VARIABLES
    at,     \* what is at the path: "ours", "theirs", "nothing" or "void"
    moves   \* how often the others acted on it

Init == at \in {"ours", "nothing"} /\ moves = 0

Mix == /\ at \in {"ours", "nothing"}
       /\ at' \in {"ours", "nothing"}
       /\ UNCHANGED moves

GivesUp == at = "theirs" /\ at' = "void" /\ UNCHANGED moves

Others == /\ moves' = moves + 1
          /\ at' \in IF at = "void" THEN {"void"}
                     ELSE {at, "theirs", "nothing", "void"}

Spec == Init /\ [][Mix \/ GivesUp \/ Others]_<<at, moves>>
=============================================================================
