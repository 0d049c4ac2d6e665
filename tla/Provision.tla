----------------------------- MODULE Provision -----------------------------
(***************************************************************************)
(* Installing the Nix runtime: the archive is fetched and verified         *)
(* (crates/shell/src/ops/bootstrap/tarball.rs), unpacked into a scratch    *)
(* directory and moved into the store entry by entry (steps/               *)
(* fetch_and_unpack.rs), and taken away again when something fails, when   *)
(* mix died on the way or when a later step fails (effect/runtime.rs).     *)
(*                                                                         *)
(* Outside the store /nix is a set of things: scratch directories, the     *)
(* names of Scratch, "manifest", a manifest being written, "db" and        *)
(* "generation" (a link of the default profile); its directories are there *)
(* from the start.  The store has paths by name.                           *)
(***************************************************************************)
EXTENDS Integers, Sequences, FiniteSets

CONSTANTS
    Entries,        \* the store paths of the archive: its two packages and what they need
    Resolved,       \* the two packages, "nix" one of them, that links are looked up for
    Size,           \* its length
    Scratch,        \* names for scratch directories
    Temporary,      \* the name of a manifest being written, by attempt
    MaxAttempts,    \* bound: how often it is installed
    MaxTroubles     \* bound: failures and crashes

VARIABLES
    things,     \* what /nix holds outside the store
    scratch,    \* scratch directory -> [unpacked, tree, links]
    manifest,   \* the scratch directory the manifest names
    store,      \* the paths of the store: name -> "new" or "sealed"; or Absent
    registered, \* the paths the database calls valid
    profile,    \* where the default profile points: None, "theirs", "ours", "gone"
    job,        \* the installation, or its removal
    owed,       \* the undo the journal holds: a set of at most one
    origin,     \* how the machine was before the attempt, once it is prepared,
                \* and whether the attempt pointed the profile elsewhere
    troubles, attempts

vars == <<things, scratch, manifest, store, registered, profile, job, owed, origin, troubles, attempts>>
disk == <<things, scratch, manifest, store, registered, profile>>

None == "none"

(* The names: those of /nix, of the archive and of what is removed with    *)
(* them are different ones.                                                *)
Fixed == {"var", "db", "manifest", "generation"}
Temps == {Temporary[k] : k \in 1..MaxAttempts}
Things == Fixed \cup Scratch \cup Temps
NamesAreApart ==
    /\ MaxAttempts \in Nat /\ Size \in Nat
    /\ Fixed \cap (Scratch \cup Temps) = {} /\ Scratch \cap Temps = {}
    /\ Entries \cap Things = {} /\ Resolved \subseteq Entries
    /\ {"profile", "store", "none", "absent"} \cap (Things \cup Entries) = {}

Absent == [absent |-> "sealed"]
StoreExists == store # Absent
InStore == IF StoreExists THEN DOMAIN store ELSE {}

Idle == [at |-> "Idle", got |-> 0, good |-> TRUE, dir |-> None, entry |-> None, isNew |-> FALSE,
         storeNew |-> FALSE, profileNew |-> FALSE, paths |-> {}, kept |-> {}, left |-> {}, failed |-> FALSE,
         recovered |-> FALSE]

Empty == [unpacked |-> "No", tree |-> {}, links |-> {}]

(* A directory that is removed holds nothing any more.                     *)
Emptied(p) == scratch' = IF p \in Scratch THEN [scratch EXCEPT ![p] = Empty] ELSE scratch

At(where) == job.at = where
Goes(where) == job' = [job EXCEPT !.at = where]
Trouble == troubles > 0 /\ troubles' = troubles - 1

-----------------------------------------------------------------------------
(* download                                                                *)

Begin ==
    /\ At("Idle") /\ attempts < MaxAttempts
    /\ attempts' = attempts + 1
    /\ job' = [Idle EXCEPT !.at = "Fetching"]
    /\ UNCHANGED <<disk, owed, origin, troubles>>

(* A length that is announced is compared before a byte is read: here the  *)
(* same failure as a body of another length.                               *)
Chunk ==
    /\ At("Fetching")
    /\ \E n \in 1 .. Size + 1, good \in BOOLEAN :
         IF job.got + n > Size THEN job' = [Idle EXCEPT !.at = "Refused"]
         ELSE job' = [job EXCEPT !.got = @ + n, !.good = @ /\ good]
    /\ UNCHANGED <<disk, owed, origin, troubles, attempts>>

Fetched(got, good) == got = Size /\ good

EndOfBody ==
    /\ At("Fetching")
    /\ IF Fetched(job.got, job.good) THEN Goes("Verified") ELSE job' = [Idle EXCEPT !.at = "Refused"]
    /\ UNCHANGED <<disk, owed, origin, troubles, attempts>>

(* A network error, or the request is cancelled.                           *)
FetchFails ==
    /\ At("Fetching") /\ Trouble
    /\ job' = [Idle EXCEPT !.at = "Refused"]
    /\ UNCHANGED <<disk, owed, origin, attempts>>

Refuses ==
    /\ At("Refused")
    /\ job' = Idle
    /\ UNCHANGED <<disk, owed, origin, troubles, attempts>>

-----------------------------------------------------------------------------
(* install and provision                                                   *)

ProfileExists == profile \in {"theirs", "ours"}     \* a dangling link does not exist

(* The undo is written ahead: what will be created as far as it is known,  *)
(* and the listing of what was there.                                      *)
Prepare ==
    /\ At("Verified")
    /\ owed' = {[kept |-> things,
                 created |-> (IF ProfileExists THEN {} ELSE {"profile"}) \cup (IF StoreExists THEN {} ELSE {"store"})]}
    /\ job' = [job EXCEPT !.at = "Scratch", !.kept = things]
    /\ origin' = {[things |-> things, manifest |-> manifest, store |-> InStore,
                   exists |-> StoreExists, profile |-> profile, repointed |-> FALSE]}
    /\ UNCHANGED <<disk, troubles, attempts>>

(* recover_scratch: the manifest of an attempt that could not be removed.  *)
Usable(d) == d \in things /\ scratch[d].unpacked # "No"

RecoverScratch ==
    /\ At("Scratch")
    /\ IF "manifest" \in things /\ Usable(manifest)
       THEN /\ job' = [job EXCEPT !.at = "Store", !.dir = manifest, !.recovered = TRUE]
            /\ UNCHANGED <<things, manifest>>
       ELSE /\ things' = things \ {"manifest"} /\ manifest' = None
            /\ Goes("New scratch")
    /\ UNCHANGED <<scratch, store, registered, profile, owed, origin, troubles, attempts>>

NewScratch ==
    /\ At("New scratch")
    /\ \E d \in DOMAIN scratch \ things :
         /\ things' = things \cup {d}
         /\ job' = [job EXCEPT !.at = "Unpacking", !.dir = d]
    /\ UNCHANGED <<scratch, manifest, store, registered, profile, owed, origin, troubles, attempts>>

(* Files first, directories last; nothing looks at what is there until all *)
(* is.                                                                     *)
Unpack ==
    /\ At("Unpacking")
    /\ \/ /\ scratch[job.dir].unpacked = "No"
          /\ scratch' = [scratch EXCEPT ![job.dir].unpacked = "Partly"]
          /\ UNCHANGED job
       \/ /\ scratch[job.dir].unpacked = "Partly"
          /\ scratch' = [scratch EXCEPT ![job.dir] = [unpacked |-> "Yes", tree |-> Entries, links |-> {}]]
          /\ Goes("Manifest")
    /\ UNCHANGED <<things, manifest, store, registered, profile, owed, origin, troubles, attempts>>

(* The scratch directory removes itself until it is kept.                  *)
UnpackFails ==
    /\ At("Unpacking") /\ Trouble
    /\ things' = things \ {job.dir} /\ Emptied(job.dir)
    /\ job' = [job EXCEPT !.at = "Failing", !.failed = TRUE]
    /\ UNCHANGED <<manifest, store, registered, profile, owed, origin, attempts>>

(* The name has the number of the process in it: a later attempt of the    *)
(* same process uses it again, and what it finds there is overwritten.     *)
Tmp == Temporary[attempts]

WriteManifest ==
    /\ At("Manifest")
    /\ IF Tmp \notin things
       THEN /\ things' = things \cup {Tmp}
            /\ UNCHANGED <<manifest, job>>
       ELSE /\ things' = (things \ {Tmp}) \cup {"manifest"}
            /\ manifest' = job.dir
            /\ Goes("Store")
    /\ UNCHANGED <<scratch, store, registered, profile, owed, origin, troubles, attempts>>

MakeStore ==
    /\ At("Store")
    /\ job' = [job EXCEPT !.at = "Moving", !.storeNew = ~StoreExists]
    /\ store' = IF StoreExists THEN store ELSE [p \in {} |-> "sealed"]
    /\ UNCHANGED <<things, scratch, manifest, registered, profile, owed, origin, troubles, attempts>>

(* An entry is taken up: what is in its place goes first.  A name that an  *)
(* earlier attempt moved is not there, or is a link: it is passed over,    *)
(* though that attempt may have died before it sealed it.                  *)
Displace ==
    /\ At("Moving") /\ job.entry = None
    /\ \E e \in scratch[job.dir].tree :
         /\ job' = [job EXCEPT !.entry = e, !.isNew = e \notin DOMAIN store]
         /\ store' = [p \in DOMAIN store \ {e} |-> store[p]]
    /\ UNCHANGED <<things, scratch, manifest, registered, profile, owed, origin, troubles, attempts>>

Rename ==
    /\ At("Moving") /\ job.entry \in scratch[job.dir].tree
    /\ store' = [p \in DOMAIN store \cup {job.entry} |-> IF p = job.entry THEN "new" ELSE store[p]]
    /\ scratch' = [scratch EXCEPT ![job.dir].tree = @ \ {job.entry}]
    /\ UNCHANGED <<things, manifest, registered, profile, job, owed, origin, troubles, attempts>>

(* strip_write_bit, and the entry counts as created from here.             *)
Seal ==
    /\ At("Moving") /\ job.entry # None /\ job.entry \notin scratch[job.dir].tree
    /\ store[job.entry] = "new"
    /\ store' = [store EXCEPT ![job.entry] = "sealed"]
    /\ job' = [job EXCEPT !.paths = IF job.isNew THEN @ \cup {job.entry} ELSE @]
    /\ UNCHANGED <<things, scratch, manifest, registered, profile, owed, origin, troubles, attempts>>

Backlink ==
    /\ At("Moving") /\ job.entry # None /\ job.entry \notin scratch[job.dir].tree
    /\ store[job.entry] = "sealed"
    /\ scratch' = [scratch EXCEPT ![job.dir].links = @ \cup {job.entry}]
    /\ job' = [job EXCEPT !.entry = None]
    /\ UNCHANGED <<things, manifest, store, registered, profile, owed, origin, troubles, attempts>>

(* resolve_backlink: a link in the scratch directory for each of the two   *)
(* packages, and for no other path.                                        *)
Looked(links) == Resolved \subseteq links

Resolve ==
    /\ At("Moving") /\ job.entry = None /\ scratch[job.dir].tree = {}
    /\ IF Looked(scratch[job.dir].links) THEN Goes("Loading")
       ELSE job' = [job EXCEPT !.at = "Failing", !.failed = TRUE]
    /\ UNCHANGED <<disk, owed, origin, troubles, attempts>>

(* External: the nix that is run is the one of the store.  Its --verify    *)
(* forgets a path that vanished, and fails instead if another valid one    *)
(* needs it; nix-env takes no package unless all it needs is valid, makes  *)
(* a generation and points the profile to it.                              *)
NixRuns == "nix" \in DOMAIN store

LoadDb ==
    /\ At("Loading") /\ NixRuns
    /\ things' = things \cup {"db"}
    /\ registered' = registered \cup Entries
    /\ Goes("Verifying")
    /\ UNCHANGED <<scratch, manifest, store, profile, owed, origin, troubles, attempts>>

ForgetVanished ==
    /\ At("Verifying")
    /\ registered' = registered \cap DOMAIN store
    /\ Goes("Activating")
    /\ UNCHANGED <<things, scratch, manifest, store, profile, owed, origin, troubles, attempts>>

Activate ==
    /\ At("Activating") /\ Entries \subseteq registered
    /\ things' = things \cup {"generation"}
    /\ profile' = "ours"
    /\ job' = [job EXCEPT !.at = "Tidying", !.profileNew = ~ProfileExists]
    /\ origin' = {[o EXCEPT !.repointed = TRUE] : o \in origin}
    /\ UNCHANGED <<scratch, manifest, store, registered, owed, troubles, attempts>>

(* The manifest goes first; that the directory stays is let pass.          *)
Tidy ==
    /\ At("Tidying")
    /\ \/ /\ "manifest" \in things
          /\ things' = things \ {"manifest"} /\ manifest' = None
          /\ UNCHANGED <<scratch, job, troubles>>
       \/ /\ "manifest" \notin things
          /\ \/ things' = things \ {job.dir} /\ Emptied(job.dir) /\ UNCHANGED troubles
             \/ Trouble /\ UNCHANGED <<things, scratch>>
          /\ Goes("Listing")
          /\ UNCHANGED manifest
    /\ UNCHANGED <<store, registered, profile, owed, origin, attempts>>

(* A step of provision fails, or it is told to stop, after the last too.   *)
Fails ==
    /\ job.at \in {"Scratch", "New scratch", "Manifest", "Store", "Moving", "Loading", "Verifying", "Activating",
                   "Listing"}
    /\ Trouble
    /\ job' = [job EXCEPT !.at = "Failing", !.failed = TRUE]
    /\ UNCHANGED <<disk, owed, origin, attempts>>

NixFails ==
    /\ \/ At("Loading") /\ ~NixRuns
       \/ At("Verifying") /\ ~(registered \subseteq DOMAIN store)
       \/ At("Activating") /\ ~(Entries \subseteq registered)
    /\ job' = [job EXCEPT !.at = "Failing", !.failed = TRUE]
    /\ UNCHANGED <<disk, owed, origin, troubles, attempts>>

-----------------------------------------------------------------------------
(* What was created: as far as provision knows, and what is new in /nix.   *)

created(j) ==
    (IF j.profileNew THEN {"profile"} ELSE {}) \cup (IF j.storeNew THEN {"store"} ELSE j.paths)
added(before, after) == after \ before

(* Mutant: only what provision knows of is removed.                        *)
AllKnown(j) == created(j)

All(j) == created(j) \cup added(j.kept, things)

Performed ==
    /\ At("Listing")
    /\ owed' = {[kept |-> job.kept, created |-> All(job)]}
    /\ job' = [Idle EXCEPT !.at = "Installed", !.recovered = job.recovered]
    /\ UNCHANGED <<disk, origin, troubles, attempts>>

CleanUp ==
    /\ At("Failing")
    /\ job' = [job EXCEPT !.at = "Removing", !.left = All(job)]
    /\ UNCHANGED <<disk, owed, origin, troubles, attempts>>

(* The rest of the plan succeeds, or fails and is undone.                  *)
Commit ==
    /\ At("Installed")
    /\ owed' = {} /\ job' = [Idle EXCEPT !.at = "Committed"]
    /\ UNCHANGED <<disk, origin, troubles, attempts>>

Dies ==
    /\ job.at \notin {"Idle", "Committed", "Undone", "Warned", "Recovering"} /\ Trouble
    /\ job' = IF owed = {} THEN Idle ELSE [Idle EXCEPT !.at = "Recovering"]
    /\ UNCHANGED <<disk, owed, origin, attempts>>

(* remove: of an undo of the journal, by the next request or the plan's.   *)
Undo ==
    /\ At("Recovering") \/ At("Installed")
    /\ \E u \in owed :
         job' = [Idle EXCEPT !.at = "Removing",
                             !.left = u.created \cup IF u.kept = {} THEN {} ELSE added(u.kept, things)]
    /\ UNCHANGED <<disk, owed, origin, troubles, attempts>>

(* remove_path of one of them: what is not there counts as removed, and    *)
(* with the profile goes the generation it points to.                      *)
RemovePath ==
    /\ At("Removing") /\ job.left # {}
    /\ \E p \in job.left :
         /\ job' = [job EXCEPT !.left = @ \ {p}]
         /\ CASE p = "profile" -> /\ profile' = None
                                  /\ things' = things \ {"generation"}
                                  /\ UNCHANGED store
              [] p = "store" -> store' = Absent /\ UNCHANGED <<things, profile>>
              [] p \in Entries -> /\ store' = IF StoreExists THEN [q \in DOMAIN store \ {p} |-> store[q]] ELSE store
                                  /\ UNCHANGED <<things, profile>>
              [] OTHER -> /\ things' = things \ {p}
                          /\ profile' = IF p = "generation" /\ profile = "ours" THEN "gone" ELSE profile
                          /\ UNCHANGED store
         /\ registered' = IF p = "db" THEN {} ELSE registered
         /\ manifest' = IF p = "manifest" THEN None ELSE manifest
         /\ Emptied(p)
    /\ UNCHANGED <<owed, origin, troubles, attempts>>

(* Then what the manifest still names, and the manifest.                   *)
RemoveManifest ==
    /\ At("Removing") /\ job.left = {}
    /\ IF "manifest" \in things /\ manifest \in things
       THEN things' = things \ {manifest} /\ Emptied(manifest) /\ UNCHANGED <<manifest, job, owed>>
       ELSE /\ things' = things \ {"manifest"} /\ manifest' = None
            /\ job' = [Idle EXCEPT !.at = "Undone"]
            /\ owed' = {}
            /\ UNCHANGED scratch
    /\ UNCHANGED <<store, registered, profile, origin, troubles, attempts>>

(* A partly installed runtime could not be removed: a warning after a      *)
(* failure.  The next attempt finds what is left.                          *)
CleanUpFails ==
    /\ At("Removing") /\ job.failed /\ Trouble
    /\ job' = [Idle EXCEPT !.at = "Warned"]
    /\ owed' = {}
    /\ UNCHANGED <<disk, origin, attempts>>

Again ==
    /\ At("Undone") \/ At("Warned")
    /\ attempts < MaxAttempts
    /\ job' = Idle
    /\ UNCHANGED <<disk, owed, origin, troubles, attempts>>

Init ==
    /\ \E has \in SUBSET (Entries \cup {"user"}), link \in {None, "theirs"} :
         \/ /\ has = {} /\ link = None
            /\ store = Absent /\ things = {"var"} /\ registered = {} /\ profile = None
         \/ /\ "user" \in has
            /\ store = [p \in has |-> "sealed"]
            /\ things = {"var", "db"} /\ registered = has
            /\ profile = link
    /\ scratch = [d \in Scratch |-> Empty]
    /\ manifest = None
    /\ job = Idle /\ owed = {} /\ origin = {}
    /\ troubles = MaxTroubles /\ attempts = 0

Fetching == Begin \/ Chunk \/ EndOfBody \/ FetchFails \/ Refuses
Placing ==
    \/ Prepare \/ RecoverScratch \/ NewScratch \/ Unpack \/ UnpackFails \/ WriteManifest \/ MakeStore
    \/ Displace \/ Rename \/ Seal \/ Backlink \/ Resolve \/ LoadDb \/ ForgetVanished \/ Activate \/ Tidy \/ Fails \/ NixFails
Removing == Performed \/ CleanUp \/ Commit \/ Dies \/ Undo \/ RemovePath \/ RemoveManifest \/ CleanUpFails \/ Again

Next == Fetching \/ Placing \/ Removing
Spec == Init /\ [][Next]_vars

-----------------------------------------------------------------------------
(* An archive is unpacked only when it came whole and its digest is right; *)
(* and a runtime that counts as installed has all its paths in the store   *)
(* and registered, the profile in place, no path the database calls valid  *)
(* but the store lacks, and no manifest that would make the next attempt   *)
(* start from a directory emptied by this one.  All its paths are read-    *)
(* only if the attempt unpacked the archive itself; if it took over what   *)
(* an earlier one left, its two packages are, and a path they need may be  *)
(* one the earlier attempt moved and did not seal.                         *)
InstalledIsWhole ==
    /\ At("Unpacking") => job.got = Size /\ job.good
    /\ At("Installed") =>
         /\ Entries \subseteq DOMAIN store
         /\ \A e \in (IF job.recovered THEN Resolved ELSE Entries) : store[e] = "sealed"
         /\ Entries \subseteq registered /\ registered \subseteq DOMAIN store
         /\ profile = "ours" /\ "generation" \in things
         /\ "manifest" \notin things

(* After the removal, wherever mix died or failed before, nothing of the   *)
(* installation is left outside the store and all that was there is there, *)
(* but for a manifest an earlier attempt left and one it could not finish; *)
(* what the manifest named may stay if mix died while it tidied up.  A     *)
(* store it made is gone, and a store it found still has all paths but     *)
(* those of the archive.  A default profile it made is gone; one it found  *)
(* leads where it led, but for one that nix-env pointed to its own         *)
(* generation: that is removed, and the profile dangles.                   *)
UndoneIsAsBefore ==
    At("Undone") =>
        \A o \in origin :
            /\ things \ {o.manifest} \subseteq o.things \ {"manifest"}
            /\ o.things \ {"manifest", o.manifest, Tmp} \subseteq things
            /\ StoreExists <=> o.exists
            /\ o.store \ Entries \subseteq InStore
            /\ profile # o.profile =>
                 \/ o.profile = "gone" /\ profile = None
                 \/ o.profile = "theirs" /\ profile = "gone" /\ o.repointed

RuntimeIsWholeOrGone == InstalledIsWhole /\ UndoneIsAsBefore
=============================================================================
