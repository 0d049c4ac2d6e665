----------------------------- MODULE MCListings -----------------------------
(* Two listings of one user, one of them a task that warms the cache, and  *)
(* a removal; generations of two pins, one without a package and one       *)
(* whose lock cannot be read.                                              *)
EXTENDS Listings, TLC

MCuser == ("list" :> "alice") @@ ("warm" :> "alice")
B(list, pins, readable) == [list |-> list, pins |-> pins, readable |-> readable]
MCBuilt == {B({}, 1, TRUE), B({"vim", "git"}, 1, TRUE), B({"vim", "git"}, 2, TRUE),
            B({"vim", "git"}, 2, FALSE)}
=============================================================================
