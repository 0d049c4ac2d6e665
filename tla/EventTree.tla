----------------------------- MODULE EventTree ------------------------------
(***************************************************************************)
(* What a request tells its client while it runs: a tree of nodes          *)
(* (crates/events/src/tree.rs), written as events into an outbox that      *)
(* drops readings overtaken by newer ones (crates/events/src/outbox.rs).   *)
(*                                                                         *)
(* A tree is a value t; each operator returns the tree after the call.     *)
(* Node::start and the runner turn a Misuse into a panic: it is remembered *)
(* in misused.  Of the progress kinds Builds stands for the two gauges and *)
(* Stopping for the others.                                                *)
(***************************************************************************)
EXTENDS Integers, Sequences, FiniteSets
LOCAL INSTANCE SequencesExt
LOCAL INSTANCE FiniteSetsExt

ROOT == 1
NoNode == 0
NoReading == 0      \* a gauge that has not been read yet

(* FoldLeft of SequencesExt, which TLC would evaluate over sets.           *)
FoldEvents(op(_, _), base, s) ==
    LET fold[i \in 0..Len(s)] == IF i = 0 THEN base ELSE op(fold[i - 1], s[i])
    IN fold[Len(s)]

-----------------------------------------------------------------------------
(* The events.                                                             *)

NodeStarted(id, parent, s) ==
    [event |-> "NodeStarted", id |-> id, parent |-> parent, key |-> s.key,
     kind |-> s.kind, planned |-> s.planned, undoes |-> s.undoes]
NodeFinished(id, e) == [event |-> "NodeFinished", id |-> id, status |-> e.status,
                        cause |-> e.cause, exit |-> e.exit]
NotRun(parent, key, reason, by) ==
    [event |-> "NotRun", parent |-> parent, key |-> key, reason |-> reason, by |-> by]
NodeProgress(id, p) == [event |-> "NodeProgress", id |-> id, progress |-> p]
Warned(id) == [event |-> "Diagnostic", id |-> id]

Builds(n) == [kind |-> "Builds", reading |-> n]
Stopping == [kind |-> "Stopping", reading |-> NoReading]

Start(key, kind) == [key |-> key, kind |-> kind, planned |-> <<>>, undoes |-> NoNode]
Planned(s, keys) == [s EXCEPT !.planned = keys]
Rollback(s, undoes) == [s EXCEPT !.undoes = undoes]

Ending(status) == [status |-> status, cause |-> FALSE, exit |-> 0]
CancelledEnding == [status |-> "Cancelled", cause |-> TRUE, exit |-> 0]

exit == [SUCCEEDED |-> 0, FAILED |-> 1, PROBLEMS_REMAIN |-> 3, INTERRUPTED |-> 130]

for_root(e, problems_remain) ==
    [e EXCEPT !.exit = CASE e.status = "Failed" -> exit.FAILED
                         [] e.status = "Cancelled" -> exit.INTERRUPTED
                         [] OTHER -> IF problems_remain THEN exit.PROBLEMS_REMAIN
                                     ELSE exit.SUCCEEDED]

-----------------------------------------------------------------------------
(* The outbox.  Positions count from head; seq numbers what is taken.      *)

EmptyQueue == [head |-> 0, seq |-> 0, items |-> <<>>, pending |-> <<>>, superseded |-> {}]

slot(e) == IF e.event = "NodeProgress" /\ e.progress.kind = "Builds" THEN {e.id} ELSE {}

(* Mutant: the newer reading is dropped.                                   *)
push_first(q, e) ==
    LET position == q.head + Len(q.items)
        taken == slot(e) \cap DOMAIN q.pending
    IN [q EXCEPT
          !.items = Append(@, e),
          !.pending = [n \in DOMAIN @ \cup slot(e) |-> IF n \in DOMAIN @ THEN @[n] ELSE position],
          !.superseded = IF taken = {} THEN @ ELSE @ \cup {position}]

push(q, e) ==
    LET position == q.head + Len(q.items)
    IN [q EXCEPT
          !.items = Append(@, e),
          !.pending = [n \in DOMAIN @ \cup slot(e) |-> IF n \in slot(e) THEN position ELSE @[n]],
          !.superseded = @ \cup {q.pending[n] : n \in slot(e) \cap DOMAIN q.pending}]

(* One turn of next's loop on the item at the front: what is superseded is *)
(* skipped, anything else is numbered and handed out.                      *)
skips(q) == q.head \in q.superseded
taken(q) ==
    LET e == Head(q.items)
    IN [q EXCEPT
          !.head = @ + 1,
          !.items = Tail(@),
          !.superseded = @ \ {q.head},
          !.seq = IF skips(q) THEN @ ELSE @ + 1,
          !.pending = [n \in {m \in DOMAIN @ :
                                ~(m \in slot(e) /\ ~skips(q) /\ @[m] = q.head)} |-> @[n]]]

(* drain: everything that is in the queue now, under one lock.             *)
drain(q) ==
    FoldEvents(LAMBDA d, e :
               [queue |-> taken(d.queue),
                out |-> IF skips(d.queue) THEN d.out
                        ELSE Append(d.out, [seq |-> d.queue.seq + 1, event |-> e])],
             [queue |-> q, out |-> <<>>], q.items)

-----------------------------------------------------------------------------
(* The tree.                                                               *)

is_open(t, id) == id \in DOMAIN t.open

emit(t, e) == [t EXCEPT !.outbox = push(@, e)]

misuse(t) == [t EXCEPT !.misused = TRUE]

open_node(t, parent, s) ==
    LET id == t.next
        opened == [parent |-> parent, planned |-> s.planned, used |-> {},
                   children |-> 0, builds |-> NoReading]
        told == emit(t, NodeStarted(id, parent, s))
    IN [told EXCEPT
          !.next = @ + 1,
          !.open = [n \in DOMAIN @ \cup {id} |->
                      IF n = id THEN opened
                      ELSE IF n = parent THEN [@[n] EXCEPT !.children = @ + 1]
                      ELSE @[n]]]

NewTree(s) ==
    open_node([next |-> ROOT, open |-> <<>>, outbox |-> EmptyQueue, misused |-> FALSE],
              NoNode, s)

claimable(t, parent, key) == is_open(t, parent) /\ key \notin t.open[parent].used
claim(t, parent, key) == [t EXCEPT !.open[parent].used = @ \cup {key}]

start(t, parent, s) ==
    IF claimable(t, parent, s.key) THEN open_node(claim(t, parent, s.key), parent, s)
    ELSE misuse(t)

blocked(t, parent, key, by) ==
    IF claimable(t, parent, key)
    THEN emit(claim(t, parent, key), NotRun(parent, key, "Blocked", by))
    ELSE misuse(t)

(* A reading that says nothing new is not told.                            *)
progress(t, id, p) ==
    IF ~is_open(t, id) THEN misuse(t)
    ELSE IF p.kind # "Builds" THEN emit(t, NodeProgress(id, p))
    ELSE IF t.open[id].builds = p.reading THEN t
    ELSE emit([t EXCEPT !.open[id].builds = p.reading], NodeProgress(id, p))

warn(t, id) == IF is_open(t, id) THEN emit(t, Warned(id)) ELSE misuse(t)

unreached(t, id) == SelectSeq(t.open[id].planned, LAMBDA key : key \notin t.open[id].used)

finish(t, id, e) ==
    IF ~is_open(t, id) \/ t.open[id].children > 0 THEN misuse(t)
    ELSE LET parent == t.open[id].parent
             closed == [t EXCEPT !.open =
                          [n \in DOMAIN @ \ {id} |->
                             IF n = parent THEN [@[n] EXCEPT !.children = @ - 1] ELSE @[n]]]
             noted == FoldEvents(LAMBDA u, key : emit(u, NotRun(id, key, "NotReached", <<>>)),
                               closed, unreached(t, id))
         IN emit(noted, NodeFinished(id, e))

descends_from(t, node, ancestor) ==
    LET up[n \in DOMAIN t.open] == n = ancestor \/ (is_open(t, t.open[n].parent) /\ up[t.open[n].parent])
    IN up[node]

(* Mutant: parents are closed first.                                       *)
closing_order_down(t, id) ==
    SetToSortSeq({n \in DOMAIN t.open : descends_from(t, n, id)}, LAMBDA a, b : a < b)

closing_order(t, id) ==
    SetToSortSeq({n \in DOMAIN t.open : descends_from(t, n, id)}, LAMBDA a, b : a > b)

(* Drop for Tree and for Node: all that is still open ends, cancelled if   *)
(* there is a reason to stop and failed otherwise, the youngest first.     *)
abandon(t, id, stopped) ==
    FoldEvents(LAMBDA u, n : finish(u, n, IF stopped THEN CancelledEnding ELSE Ending("Failed")),
             t, closing_order(t, id))

(* drop(tree): after finish was refused, or if it was never called.        *)
dropped(t, stopped) == IF is_open(t, ROOT) THEN abandon(t, ROOT, stopped) ELSE t
=============================================================================
