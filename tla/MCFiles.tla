------------------------------ MODULE MCFiles ------------------------------
(* Files for TLC: every action, on a path that holds a file, a directory,  *)
(* a directory of a lower overlay layer, or nothing.                       *)
EXTENDS Files

MCStarts == {"file", "dir", "lower", None}
MCOps == {"file", "dir", "tree", "put", "aside", "reclaim", "mode", "discard"}
=============================================================================
