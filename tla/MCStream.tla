------------------------------ MODULE MCStream ------------------------------
(* Two steps, the second depending on the first and made of two actions;   *)
(* an action may announce nothing or a tree to reclaim.                    *)
EXTENDS Stream

MCAction == {"restore", "keep", "reload", "start"}
MCFrom   == [a \in MCAction |-> NoPath]
MCDeps   == [s \in Steps |-> IF s = 1 THEN <<0>> ELSE <<>>]
MCPlans  == [s \in Steps |-> IF s = 1 THEN {<<"act", "act">>} ELSE {<<>>, <<"act">>}]
MCUndoLists == {<<>>, <<"keep">>}
=============================================================================
