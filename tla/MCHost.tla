------------------------------- MODULE MCHost -------------------------------
(* Small instances of Host.                                                *)
EXTENDS Host

Users == [c \in Client |-> IF c \in Member THEN c ELSE "eve"]
=============================================================================
