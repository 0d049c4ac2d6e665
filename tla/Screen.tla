------------------------------- MODULE Screen -------------------------------
(***************************************************************************)
(* The two readers of a request's events: the lines a person sees          *)
(* (crates/render/src/human.rs on crates/ui/src/display.rs) and the audit  *)
(* entries the daemon writes (crates/daemon/src/journal.rs).               *)
(*                                                                         *)
(* A step has a line once it acts.  On a terminal the line is drawn live   *)
(* and is only logged (deferred, flushed) when something else is written   *)
(* or the step ends; its actions draw on the same line.  A log entry is    *)
(* the kind of line and the node it is about, never its words.             *)
(***************************************************************************)
EXTENDS EventTree


NewScreen(live, wide, level) ==
    [live |-> live, wide |-> wide, level |-> level,
     lines |-> <<>>,        \* node -> the step whose line it draws on
     drawn |-> <<>>,        \* step -> its live line
     pending |-> {}, undone |-> {}, actions |-> {},
     unlogged |-> <<>>, log |-> <<>>, stop_noticed |-> FALSE]

set(f, x, value) == [y \in DOMAIN f \cup {x} |-> IF y = x THEN value ELSE f[y]]
unset(f, x) == [y \in DOMAIN f \ {x} |-> f[y]]

-----------------------------------------------------------------------------
(* The live line.  committed: it is in the log.                            *)

NewLine == [bar |-> TRUE, showing |-> "Working", committed |-> FALSE, reading |-> NoReading]

commit(d) == [d EXCEPT !.committed = TRUE, !.bar = @ /\ d.showing # "Working"]

line_finish(d) == [d EXCEPT !.bar = FALSE]

has_phase(reading) == reading > 1      \* downloads or builds are expected

draw(s, d, reading) ==
    LET wanted == IF has_phase(reading) /\ s.wide THEN "Bar" ELSE "Working"
    IN IF wanted = "Working" /\ d.committed THEN d
       ELSE [d EXCEPT !.bar = TRUE, !.showing = wanted, !.reading = reading]

-----------------------------------------------------------------------------
(* Human.                                                                  *)

shows(s, detail) == detail = "Step" \/ s.level = "Action"

flush(s) ==
    LET logged(n) == \E i \in DOMAIN s.unlogged : s.unlogged[i][2] = n
    IN [s EXCEPT
          !.log = @ \o s.unlogged,
          !.unlogged = <<>>,
          !.drawn = [n \in DOMAIN @ |-> IF logged(n) THEN commit(@[n]) ELSE @[n]]]

write(s, entry) == [flush(s) EXCEPT !.log = Append(@, entry)]
status(s, detail, entry) == IF shows(s, detail) THEN write(s, entry) ELSE s

announce(s, node, entry) ==
    LET noted == IF s.live THEN [s EXCEPT !.unlogged = Append(@, entry),
                                          !.drawn = set(@, node, NewLine)]
                 ELSE status(s, "Step", entry)
    IN [noted EXCEPT !.lines = set(@, node, node)]

step_started(s, e) == [s EXCEPT !.pending = @ \cup {e.id}, !.undone = @ \cup {e.id}]

rollback_started(s, e) ==
    announce(s, e.id, <<"rollback", e.id, IF e.undoes \in s.undone THEN e.undoes ELSE NoNode>>)

action_started(s, e) ==
    LET begun == IF e.parent \notin s.pending THEN s
                 ELSE announce([s EXCEPT !.pending = @ \ {e.parent}],
                               e.parent, <<"step", e.parent>>)
        told == status(begun, "Action", <<"action", e.id>>)
    IN IF e.parent \notin DOMAIN told.lines THEN told
       ELSE [told EXCEPT !.actions = @ \cup {e.id}, !.lines = set(@, e.id, @[e.parent])]

node_finished(s, e) ==
    IF e.id \in s.actions
    THEN [s EXCEPT !.actions = @ \ {e.id}, !.lines = unset(@, e.id)]
    ELSE IF e.id \notin DOMAIN s.lines THEN [s EXCEPT !.pending = @ \ {e.id}]
    ELSE [flush(s) EXCEPT
            !.pending = @ \ {e.id},
            !.lines = unset(@, e.id),
            !.drawn = IF s.live THEN [@ EXCEPT ![e.id] = line_finish(@)] ELSE @]

outcome(s, e) ==
    IF e.status \in {"Failed", "Cancelled"} THEN write(s, <<"outcome", e.id>>) ELSE s

shown_progress(s, e) ==
    CASE e.progress.kind = "Stopping" ->
           IF s.stop_noticed THEN s
           ELSE [write(s, <<"stopping", e.id>>) EXCEPT !.stop_noticed = TRUE]
      [] e.progress.kind = "Builds" /\ e.id \in DOMAIN s.lines ->
           LET flushed == IF has_phase(e.progress.reading) THEN flush(s) ELSE s
           IN IF ~s.live THEN s
              ELSE [flushed EXCEPT !.drawn[s.lines[e.id]] =
                      draw(s, flushed.drawn[s.lines[e.id]], e.progress.reading)]
      [] OTHER -> s

node_started(s, e) ==
    CASE e.kind = "Step" -> step_started(s, e)
      [] e.kind = "Rollback" -> rollback_started(s, e)
      [] e.kind = "Action" -> action_started(s, e)
      [] e.kind = "LockWait" -> status(s, "Step", <<"waiting", e.id>>)
      [] e.kind \in {"Command", "Plan", "Inspection"} -> s

show(s, e) ==
    CASE e.event = "NodeStarted" -> node_started(s, e)
      [] e.event = "NodeFinished" ->
           IF e.id = ROOT THEN outcome(s, e) ELSE node_finished(s, e)
      [] e.event = "NodeProgress" -> shown_progress(s, e)
      [] e.event = "Diagnostic" -> write(s, <<"warning", e.id>>)
      [] e.event = "NotRun" -> s

-----------------------------------------------------------------------------
(* The audit entries.                                                      *)

NewAudit == [nodes |-> <<>>, entries |-> <<>>]

(* The key of the step a node belongs to; a rollback belongs to the step   *)
(* it undoes.                                                              *)
step_of(a, id) ==
    LET of[n \in 0..id] ==
          IF n \notin DOMAIN a.nodes THEN <<>>
          ELSE CASE a.nodes[n].kind = "Step" -> a.nodes[n].key
                 [] a.nodes[n].kind = "Rollback" -> of[a.nodes[n].undoes]
                 [] OTHER -> of[a.nodes[n].parent]
    IN of[id]

(* Mutant: only the node itself is looked at.                              *)
undoing_itself(a, id) == FALSE

undoing(a, id) ==
    LET up[n \in 0..id] == n \in DOMAIN a.nodes /\ (a.nodes[n].kind = "Rollback" \/ up[a.nodes[n].parent])
    IN up[id]

entries(a, e) ==
    CASE e.event = "NodeStarted" -> [a EXCEPT !.nodes = set(@, e.id,
           [kind |-> e.kind, key |-> e.key, parent |-> e.parent, undoes |-> e.undoes])]
      [] e.event = "NodeFinished" /\ a.nodes[e.id].kind \in {"Step", "Action"} ->
           [a EXCEPT !.entries = Append(@,
              [what |-> a.nodes[e.id].kind, step |-> step_of(a, e.id), status |-> e.status,
               undo |-> a.nodes[e.id].kind = "Action" /\ undoing(a, a.nodes[e.id].parent)])]
      [] e.event = "Diagnostic" ->
           [a EXCEPT !.entries = Append(@,
              [what |-> "Warning", step |-> <<>>, status |-> "Failed", undo |-> FALSE])]
      [] OTHER -> a
=============================================================================
