------------------------------ MODULE Journal ------------------------------
(***************************************************************************)
(* The write-ahead journal of one request: what its records mean, and what *)
(* a later process must do with a journal it finds abandoned               *)
(* (crates/core/src/run/journal.rs).                                       *)
(*                                                                         *)
(* Every operator is a pure function of a sequence of records.  An undo    *)
(* action is a value; two undos may be equal (DisableUnit of one unit) and *)
(* the code compares them by value only, so the model does too.            *)
(***************************************************************************)
EXTENDS Naturals, Sequences, FiniteSets
LOCAL INSTANCE SequencesExt

CONSTANTS
    Action,     \* the actions an undo list may hold
    Sync,       \* those for which Action::is_sync holds
    Reload,     \* Action::DaemonReload
    Loaded,     \* those for which Action::needs_loaded_units holds
    from,       \* the backup a Restore puts back; NoPath for the others
    NoPath      \* no backup

ASSUME JournalAssumption ==
    /\ Sync \subseteq Action
    /\ Reload \in Sync
    /\ Loaded \subseteq Action \ Sync
    /\ DOMAIN from = Action

-----------------------------------------------------------------------------
(* The records.                                                            *)

Began            == [rec |-> "Began"]
Prepared(n, u)   == [rec |-> "Prepared", seq |-> n, undo |-> u]
Done(n)          == [rec |-> "Done", seq |-> n]
Settled(n, u)    == [rec |-> "Settled", seq |-> n, undo |-> u]
Failed(n)        == [rec |-> "Failed", seq |-> n]
Reverted(a)      == [rec |-> "Reverted", action |-> a]
Committing       == [rec |-> "Committing"]
Ended            == [rec |-> "Ended"]

(* A Rust for loop over s with an accumulator, and a filter over s.        *)
Fold(Op(_, _), base, s) ==
    LET f[i \in 0..Len(s)] == IF i = 0 THEN base ELSE Op(f[i - 1], s[i])
    IN  f[Len(s)]

Filter(s, Test(_)) ==
    Fold(LAMBDA acc, e : IF Test(e) THEN Append(acc, e) ELSE acc, <<>>, s)

OfKind(records, kind) == Filter(records, LAMBDA r : r.rec = kind)

Count(s, e) == Cardinality({i \in DOMAIN s : s[i] = e})

-----------------------------------------------------------------------------
(* The order undos are performed in: groups last to first, each in its own *)
(* order; a sync waits for the end, except that a reload runs before the   *)
(* first action that needs the units it loads.                             *)

is_sync(a) == a \in Sync
needs_loaded_units(a) == a \in Loaded

(* Mutant: a reload waits for the end like any sync.                       *)
OrderLate(acc, a) ==
    IF is_sync(a)
    THEN IF Contains(acc.pending, a) THEN acc
         ELSE [acc EXCEPT !.pending = Append(@, a)]
    ELSE [acc EXCEPT !.ordered = Append(@, a)]

Order(acc, a) ==
    IF is_sync(a)
    THEN IF Contains(acc.pending, a) THEN acc
         ELSE [acc EXCEPT !.pending = Append(@, a)]
    ELSE IF needs_loaded_units(a) /\ Contains(acc.pending, Reload)
    THEN [ordered |-> acc.ordered \o <<Reload, a>>,
          pending |-> RemoveFirst(acc.pending, Reload)]
    ELSE [acc EXCEPT !.ordered = Append(@, a)]

(* Mutants: oldest group first; the syncs at the end are forgotten.        *)
rollback_forwards(journal) ==
    LET end == Fold(Order, [ordered |-> <<>>, pending |-> <<>>], FlattenSeq(journal))
    IN  end.ordered \o Reverse(end.pending)
rollback_unsynced(journal) ==
    Fold(Order, [ordered |-> <<>>, pending |-> <<>>],
             FlattenSeq(Reverse(journal))).ordered

rollback_order(journal) ==
    LET end == Fold(Order, [ordered |-> <<>>, pending |-> <<>>],
                        FlattenSeq(Reverse(journal)))
    IN  end.ordered \o Reverse(end.pending)

-----------------------------------------------------------------------------
(* The actions that are known to have taken effect, with their undos.  A   *)
(* Prepared replaces an earlier one of the same number; Done confirms the  *)
(* undo prepared last, Settled brings its own.                             *)

Confirm(acc, r) ==
    CASE r.rec = "Prepared" ->
           [acc EXCEPT !.prepared = [n \in DOMAIN @ \cup {r.seq} |->
                                       IF n = r.seq THEN r.undo ELSE @[n]]]
      [] r.rec = "Done" /\ r.seq \in DOMAIN acc.prepared ->
           [acc EXCEPT !.list =
               Append(@, [seq |-> r.seq, undo |-> acc.prepared[r.seq]])]
      [] r.rec = "Settled" ->
           [acc EXCEPT !.list = Append(@, [seq |-> r.seq, undo |-> r.undo])]
      [] OTHER -> acc

confirmed(records) ==
    Fold(Confirm, [prepared |-> <<>>, list |-> <<>>], records).list

Undos(list) == [i \in DOMAIN list |-> list[i].undo]

(* Mutant: the backups of what was announced, confirmed or not.            *)
pending_announced(records) ==
    LET all == FlattenSeq(Undos(OfKind(records, "Prepared")))
        restores == Filter(all, LAMBDA a : from[a] # NoPath)
    IN  [i \in DOMAIN restores |-> from[restores[i]]]

(* The backups a commit must still delete.                                 *)
pending(records) ==
    LET all == FlattenSeq(Undos(confirmed(records)))
        restores == Filter(all, LAMBDA a : from[a] # NoPath)
    IN  [i \in DOMAIN restores |-> from[restores[i]]]

(* Mutant: an announcement never replaces an earlier one.                  *)
AnnounceAgain(acc, r) == Append(acc, r)

(* Of every action that was announced but neither confirmed nor failed,    *)
(* the undo announced last, in the order of the first announcements.       *)
Announce(acc, r) ==
    IF \E i \in DOMAIN acc : acc[i].seq = r.seq
    THEN [i \in DOMAIN acc |-> IF acc[i].seq = r.seq THEN r ELSE acc[i]]
    ELSE Append(acc, r)

latest(records) ==
    LET known == {confirmed(records)[i].seq : i \in DOMAIN confirmed(records)}
                 \cup {r.seq : r \in ToSet(OfKind(records, "Failed"))}
        open  == Filter(OfKind(records, "Prepared"), LAMBDA r : r.seq \notin known)
    IN  Fold(Announce, <<>>, open)

(* The undos still to be performed: every Reverted record cancels one undo *)
(* equal to it, confirmed ones first.                                      *)
Cancel(acc, a) ==
    IF Contains(acc.reverted, a)
    THEN [acc EXCEPT !.reverted = RemoveFirst(@, a)]
    ELSE [acc EXCEPT !.left = Append(@, a)]

Still(acc, undo) ==
    LET end == Fold(Cancel, [reverted |-> acc.reverted, left |-> <<>>], undo)
    IN  [reverted |-> end.reverted, lists |-> Append(acc.lists, end.left)]

(* Mutant: what was undone before the crash is undone again.               *)
still_everything(records, undos) == undos

still(records, undos) ==
    LET done == OfKind(records, "Reverted")
    IN  Fold(Still,
                 [reverted |-> [i \in DOMAIN done |-> done[i].action],
                  lists |-> <<>>], undos).lists

Nothing == [does |-> "Nothing"]
RollBack(u, c) == [does |-> "RollBack", uncertain |-> u, certain |-> c]
FinishCommit(p) == [does |-> "FinishCommit", pending |-> p]

recover(records) ==
    LET sure  == Undos(confirmed(records))
        lists == still(records, sure \o Undos(latest(records)))
        certain == rollback_order(SubSeq(lists, 1, Len(sure)))
        doubts  == SubSeq(lists, Len(sure) + 1, Len(lists))
        uncertain == FlattenSeq([i \in DOMAIN doubts |->
                                    rollback_order(<<doubts[i]>>)])
    IN  CASE Contains(records, Ended) -> Nothing
          [] Contains(records, Committing) /\ ~Contains(records, Ended) ->
               FinishCommit(pending(records))
          [] OTHER ->
               IF uncertain = <<>> /\ certain = <<>> THEN Nothing
               ELSE RollBack(uncertain, certain)
=============================================================================
