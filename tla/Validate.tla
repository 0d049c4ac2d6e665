------------------------------ MODULE Validate ------------------------------
(***************************************************************************)
(* The grammar of a request's stream of events, as the validator checks it *)
(* one envelope after another (crates/events/src/validate.rs).  The first  *)
(* violation ends the check.  Paths of entries and the results a node may  *)
(* carry are left out.                                                     *)
(***************************************************************************)
EXTENDS EventTree

Valid == "None"     \* no violation

NewValidator == [next_seq |-> 1, nodes |-> <<>>, root_finished |-> FALSE, violation |-> Valid]

refuses(v, violation) == [v EXCEPT !.violation = violation]
known(v, id) == id \in DOMAIN v.nodes
running(v, id) == known(v, id) /\ v.nodes[id].outcome = "Running"

is_root_start(e) == e.event = "NodeStarted" /\ e.id = ROOT /\ e.parent = NoNode /\ e.kind = "Command"

undoes_well(v, e) ==
    /\ known(v, e.undoes)
    /\ v.nodes[e.undoes].kind = "Step"
    /\ ~running(v, e.undoes)
    /\ v.nodes[e.undoes].parent = e.parent

started(v, e) ==
    LET record == [parent |-> e.parent, kind |-> e.kind, planned |-> e.planned,
                   keys |-> {}, open_children |-> {}, outcome |-> "Running"]
        root == e.id = ROOT /\ e.parent = NoNode
        under(n) == IF n = e.parent
                    THEN [v.nodes[n] EXCEPT !.keys = @ \cup {e.key}, !.open_children = @ \cup {e.id}]
                    ELSE v.nodes[n]
    IN IF e.id = NoNode THEN refuses(v, "ZeroId")
       ELSE IF known(v, e.id) THEN refuses(v, "DuplicateId")
       ELSE IF ~root /\ ~known(v, e.parent) THEN refuses(v, "UnknownParent")
       ELSE IF ~root /\ ~running(v, e.parent) THEN refuses(v, "ParentFinished")
       ELSE IF ~root /\ e.key \in v.nodes[e.parent].keys THEN refuses(v, "DuplicateKey")
       ELSE IF e.kind = "Rollback" /\ ~undoes_well(v, e) THEN refuses(v, "RollbackTarget")
       ELSE [v EXCEPT !.nodes = [n \in DOMAIN v.nodes \cup {e.id} |->
                                   IF n = e.id THEN record ELSE under(n)]]

unreported(node) == \E i \in DOMAIN node.planned : node.planned[i] \notin node.keys

finished(v, e) ==
    LET node == v.nodes[e.id]
        after(n) == CASE n = e.id -> [node EXCEPT !.outcome = e.status]
                      [] n # e.id /\ n = node.parent -> [v.nodes[n] EXCEPT !.open_children = @ \ {e.id}]
                      [] OTHER -> v.nodes[n]
    IN IF ~known(v, e.id) THEN refuses(v, "UnknownNode")
       ELSE IF ~running(v, e.id) THEN refuses(v, "FinishedTwice")
       ELSE IF node.open_children # {} THEN refuses(v, "ChildrenOpen")
       ELSE IF unreported(node) THEN refuses(v, "PlannedMissing")
       ELSE IF e.status = "Unspecified" THEN refuses(v, "UnspecifiedStatus")
       ELSE IF (e.status = "Cancelled") # e.cause THEN refuses(v, "CancellationMismatch")
       ELSE IF e.id # ROOT /\ e.exit # 0 THEN refuses(v, "ExitCodeOnChild")
       ELSE [v EXCEPT !.nodes = [n \in DOMAIN v.nodes |-> after(n)],
                      !.root_finished = @ \/ e.id = ROOT]

not_run(v, e) ==
    IF ~running(v, e.parent) THEN refuses(v, "NotOpen")
    ELSE IF e.key \in v.nodes[e.parent].keys THEN refuses(v, "DuplicateKey")
    ELSE IF e.reason = "Unspecified" THEN refuses(v, "UnspecifiedReason")
    ELSE IF (e.reason = "Blocked") = (e.by = <<>>) THEN refuses(v, "BlockerMismatch")
    ELSE [v EXCEPT !.nodes[e.parent].keys = @ \cup {e.key}]

validate(v, envelope) ==
    LET e == envelope.event
        counted == [v EXCEPT !.next_seq = @ + 1]
    IN IF v.violation # Valid THEN v
       ELSE IF envelope.seq # v.next_seq THEN refuses(v, "SeqGap")
       ELSE IF v.root_finished THEN refuses(counted, "AfterRoot")
       ELSE IF DOMAIN v.nodes = {} /\ ~is_root_start(e) THEN refuses(counted, "FirstNotRoot")
       ELSE CASE e.event = "NodeStarted" -> started(counted, e)
              [] e.event = "NodeFinished" -> finished(counted, e)
              [] e.event = "NotRun" -> not_run(counted, e)
              [] e.event \in {"NodeProgress", "Diagnostic"} ->
                   IF running(v, e.id) THEN counted ELSE refuses(counted, "NotOpen")

Truncated(v) == ~v.root_finished
=============================================================================
