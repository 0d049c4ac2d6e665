------------------------------ MODULE MCDrive ------------------------------
(* Small instances of Drive.                                               *)
EXTENDS Drive

MCPlace == {"conf", "unit", "git", "junk"}

(* A service is stopped, its unit file replaced, loaded and started.       *)
ServicePlans == <<{<<Stops>>}, {<<InstallUnit, Reloads>>}, {<<Starts>>, <<RecordState>>}>>
(* A file is written twice; a second step writes another and gives up a   *)
(* path or records the state; a third, which needs the first, gives up a   *)
(* path.                                                                   *)
FilePlans    == <<{<<PutFile("conf"), PutFile("conf")>>}, {<<PutFile("unit"), Discard>>, <<PutFile("unit"), RecordState>>},
                  {<<Discard>>}>>
MCPlans(p) == [s \in Steps |-> p[s + 1]]
MCServicePlans == MCPlans(ServicePlans)
MCFilePlans == MCPlans(FilePlans)
MCDeps == [s \in Steps |-> <<>>]
MCFileDeps == [s \in Steps |-> IF s = 2 THEN <<0>> ELSE <<>>]
=============================================================================
