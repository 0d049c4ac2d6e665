-------------------------- MODULE ProvisionProofs --------------------------
(***************************************************************************)
(* What is proved of the installation of the Nix runtime, whatever the     *)
(* archive, the failures, the deaths of mix and the number of attempts.    *)
(*                                                                         *)
(* The argument: while an attempt is under way, the journal owes an undo   *)
(* that is enough to bring back what the machine was before it (Under).    *)
(* What was there stays there (Base), as every step touches only what the  *)
(* attempt made, the paths of the archive, and the manifest; what is new   *)
(* is known by the listing of before, whether or not the code recorded it  *)
(* (Stage); and what remains to be removed covers the rest (Clearing).     *)
(* That the runtime is whole rests on the order of the moves: an entry is  *)
(* linked to only when it is sealed (Linked), and leaves the directory     *)
(* only to be linked to (Accounted).  So a directory this attempt unpacked *)
(* vouches for all its entries when nothing is left to move, and one that  *)
(* another attempt emptied for those whose links are looked up (Vouched).  *)
(***************************************************************************)
EXTENDS Provision, TLAPS
-----------------------------------------------------------------------------
(* 1. The invariant.                                                       *)

InProgress == {"Scratch", "New scratch", "Unpacking", "Manifest", "Store", "Moving", "Loading",
               "Verifying", "Activating", "Tidying", "Listing", "Failing"}
Busy == InProgress \cup {"Installed", "Removing", "Recovering"}
Quiet == {"Idle", "Fetching", "Refused", "Verified", "Committed", "Undone", "Warned"}

Dirs == [unpacked : {"No", "Partly", "Yes"}, tree : SUBSET Entries, links : SUBSET Entries]
Removable == Things \cup Entries \cup {"profile", "store"}
Jobs == [at : Busy \cup Quiet, got : Nat, good : BOOLEAN, dir : Scratch \cup {None},
         entry : Entries \cup {None}, isNew : BOOLEAN, storeNew : BOOLEAN, profileNew : BOOLEAN,
         paths : SUBSET Entries, kept : SUBSET Things, left : SUBSET Removable, failed : BOOLEAN,
         recovered : BOOLEAN]
Profiles == {None, "theirs", "ours", "gone"}
Stored == StoreExists => /\ DOMAIN store \subseteq Entries \cup {"user"}
                         /\ store \in [DOMAIN store -> {"new", "sealed"}]

Typed ==
    /\ things \subseteq Things /\ "var" \in things
    /\ scratch \in [Scratch -> Dirs] /\ Stored
    /\ profile \in Profiles
    /\ job \in Jobs /\ attempts \in 0..MaxAttempts
    /\ manifest \in Scratch \cup {None} /\ ("manifest" \notin things => manifest = None)
    /\ "generation" \in things <=> profile = "ours"

(* An attempt that has not begun to act.                                   *)
Fresh ==
    /\ job.at \in {"Fetching", "Refused", "Verified"} =>
         attempts > 0 /\ ~job.storeNew /\ ~job.profileNew
    /\ job.at \in {"Verified", "Scratch", "New scratch", "Unpacking"} => job.got = Size /\ job.good
    /\ job.at \in {"Fetching", "Refused", "Verified", "Scratch", "New scratch", "Unpacking", "Manifest", "Store"} =>
         job.entry = None

(* What a scratch directory links to is in the store and read-only, unless *)
(* it was removed.                                                         *)
Linked(d) ==
    /\ scratch[d].tree \cap scratch[d].links = {}
    /\ \A e \in scratch[d].links : e \in InStore => store[e] = "sealed"
Accounted == job.recovered \/ Entries \subseteq scratch[job.dir].tree \cup scratch[job.dir].links \cup {job.entry}
Vouched == IF job.recovered THEN Resolved ELSE Entries
Sealed == StoreExists /\ \A e \in Vouched : e \in DOMAIN store => store[e] = "sealed"
Whole ==
    /\ Sealed /\ Entries \subseteq DOMAIN store
    /\ Entries \subseteq registered /\ registered \subseteq DOMAIN store
    /\ profile = "ours" /\ "generation" \in things

Course ==
    /\ manifest # None => Linked(manifest)
    /\ job.at \in {"Unpacking", "Manifest", "Store", "Moving", "Loading", "Verifying", "Activating",
                  "Tidying"} => job.dir \in Scratch
    /\ job.at \in {"New scratch", "Unpacking", "Manifest"} => manifest = None
    /\ At("Manifest") => Linked(job.dir)
    /\ job.at \in {"Store", "Moving"} => manifest = job.dir
    /\ job.at \in {"Manifest", "Store", "Moving"} => Accounted
    /\ At("Moving") /\ job.entry # None
       /\ job.entry \notin scratch[job.dir].tree => job.entry \in DOMAIN store
    /\ At("Tidying") => manifest \in {job.dir, None}
    /\ job.at \in {"Loading", "Verifying", "Activating"} => Sealed /\ manifest = job.dir
    /\ At("Activating") => registered \subseteq DOMAIN store
    /\ job.at \in {"Tidying", "Listing", "Installed"} => Whole
    /\ job.at \in {"Listing", "Installed"} => "manifest" \notin things

(* How the machine was before the attempt, and what the journal owes it.   *)
Made == {None, "gone"}
Origins == [things : SUBSET Things, manifest : Scratch \cup {None}, store : SUBSET (Entries \cup {"user"}),
            exists : BOOLEAN, profile : Profiles, repointed : BOOLEAN]
Origin(o) ==
    /\ o \in Origins /\ o.things \subseteq Things /\ "var" \in o.things
    /\ "generation" \in o.things <=> o.profile = "ours"
    /\ attempts > 0
    /\ ~o.exists => o.store = {}
Owes(o, u) ==
    /\ u.kept = o.things
    /\ u.created \subseteq Removable /\ u.created \cap o.things = {}
    /\ "profile" \in u.created <=> o.profile \in Made
    /\ "store" \in u.created <=> ~o.exists

(* What was there is there.                                                *)
Base(o) ==
    /\ o.things \ {"manifest", o.manifest, Tmp} \subseteq things
    /\ o.store \ Entries \subseteq InStore /\ (o.exists => StoreExists)
    /\ manifest \in o.things => manifest = o.manifest
    /\ o.profile = "theirs" => profile # None /\ (profile # "theirs" => o.repointed)

UntilStore == {"Scratch", "New scratch", "Unpacking", "Manifest", "Store"}
FromStore == {"Moving", "Loading", "Verifying", "Activating", "Tidying", "Listing"}
NoStore(o) == (StoreExists <=> o.exists) /\ ~job.storeNew
HasStore(o) == StoreExists /\ (job.storeNew <=> ~o.exists)
NoProfile(o) == profile = o.profile /\ ~job.profileNew
HasProfile(o) == job.profileNew <=> o.profile \in Made

Stage(o) ==
    /\ job.at \in InProgress => job.kept = o.things
    /\ At("Scratch") => things = o.things /\ manifest = o.manifest
    /\ At("New scratch") => o.things \ {"manifest"} \subseteq things
    /\ At("Unpacking") => job.dir \notin o.things
    /\ job.at \in {"Manifest", "Store", "Moving", "Loading", "Verifying", "Activating", "Tidying"} =>
         (job.dir \in o.things => job.dir = o.manifest)
    /\ job.at \in UntilStore => NoStore(o)
    /\ job.at \in FromStore => HasStore(o)
    /\ job.at \in InProgress \ {"Tidying", "Listing", "Failing"} => NoProfile(o)
    /\ job.at \in {"Tidying", "Listing"} => HasProfile(o)
    /\ At("Failing") => (NoStore(o) \/ HasStore(o)) /\ (NoProfile(o) \/ HasProfile(o))

Clearing(o) ==
    /\ things \subseteq o.things \cup job.left
    /\ job.left \cap o.things = {}
    /\ "profile" \in job.left => o.profile \in Made
    /\ "store" \in job.left => ~o.exists
    /\ ~o.exists /\ StoreExists => "store" \in job.left
    /\ o.profile \in Made /\ profile \notin {None, o.profile} => "profile" \in job.left

Under(o, u) ==
    /\ origin = {o} /\ owed = {u} /\ Origin(o) /\ Owes(o, u) /\ Base(o) /\ Stage(o)
    /\ At("Removing") => Clearing(o)

Attempt ==
    /\ job.at \in Quiet => owed = {}
    /\ job.at \in Busy => \E o \in origin, u \in owed : Under(o, u)
    /\ UndoneIsAsBefore

ProvisionInv == NamesAreApart /\ Typed /\ Fresh /\ Course /\ Attempt

-----------------------------------------------------------------------------
(* 2. The names, and a job that begins.                                    *)

(* No name is two things: a consequence of NamesAreApart.                  *)
LEMMA Names ==
  ASSUME NamesAreApart
  PROVE  /\ \A k \in 1..MaxAttempts : /\ Temporary[k] \notin {"var", "db", "manifest", "generation", "profile", "store", "none"}
                                     /\ Temporary[k] \notin Scratch /\ Temporary[k] \notin Entries
                                        /\ Temporary[k] \in Things
         /\ \A d \in Scratch : /\ d \notin {"var", "db", "manifest", "generation", "profile", "store", "none"}
                               /\ d \notin Entries /\ d \in Things
         /\ \A e \in Entries : /\ e \notin {"var", "db", "manifest", "generation", "profile", "store", "none", "absent"}
                               /\ e \notin Things
         /\ {"var", "db", "manifest", "generation"} \subseteq Things
         /\ "profile" \notin Things /\ "store" \notin Things /\ "none" \notin Things
  BY DEF NamesAreApart, Things, Fixed, Temps

Blank(w, l) == [at |-> w, got |-> 0, good |-> TRUE, dir |-> None, entry |-> None, isNew |-> FALSE, storeNew |-> FALSE,
               profileNew |-> FALSE, paths |-> {}, kept |-> {}, left |-> l, failed |-> FALSE, recovered |-> FALSE]

(* A job of which only the state, and what is left to remove, is set.      *)
LEMMA BlankJob ==
  ASSUME NEW w \in Busy \cup Quiet, NEW l \in SUBSET Removable
  PROVE  Blank(w, l) \in Jobs /\ Blank(w, l).at = w /\ Blank(w, l).left = l
         /\ Blank(w, l).dir = None /\ Blank(w, l).entry = None
<1>1. Blank(w, l).at = w /\ Blank(w, l).left = l /\ Blank(w, l).dir = None /\ Blank(w, l).entry = None
  BY DEF Blank
<1>2. 0 \in Nat /\ TRUE \in BOOLEAN /\ FALSE \in BOOLEAN /\ None \in Scratch \cup {None} /\ None \in Entries \cup {None}
      /\ {} \in SUBSET Entries /\ {} \in SUBSET Things
  OBVIOUS
<1>3. Blank(w, l) \in Jobs
  BY <1>2, SMT DEF Jobs, Blank
<1> QED BY <1>1, <1>3

(* The job of a state nothing is known in.                                 *)
LEMMA IdleJob ==
  ASSUME NEW w \in Busy \cup Quiet, NEW j, j = [Idle EXCEPT !.at = w]
  PROVE  j \in Jobs /\ j.at = w /\ j.left = {} /\ j.dir = None /\ j.entry = None
<1>1. j = Blank(w, {})
  BY DEF Idle, Blank
<1>2. {} \in SUBSET Removable
  OBVIOUS
<1>3. Blank(w, {}) \in Jobs /\ Blank(w, {}).at = w /\ Blank(w, {}).left = {}
      /\ Blank(w, {}).dir = None /\ Blank(w, {}).entry = None
  BY <1>2, BlankJob, Zenon
<1> QED BY <1>1, <1>3, Zenon


(* A store that exists is told from one that does not.                     *)
LEMMA NotAbsent ==
  ASSUME NamesAreApart, NEW f, DOMAIN f \subseteq Entries \cup {"user"}
  PROVE  f # Absent
<1>1. DOMAIN Absent = {"absent"}
  BY DEF Absent
<1>2. "absent" \notin DOMAIN f
  BY Names
<1> QED BY <1>1, <1>2

(* A directory that is removed links to nothing: the others are as before. *)
LEMMA EmptiedDirs ==
  ASSUME scratch \in [Scratch -> Dirs], NEW p, Emptied(p)
  PROVE  /\ scratch' \in [Scratch -> Dirs]
         /\ \A d \in Scratch : scratch'[d] = scratch[d] \/ (scratch'[d].tree = {} /\ scratch'[d].links = {})
<1>1. Empty \in Dirs /\ Empty.tree = {} /\ Empty.links = {}
  BY DEF Empty, Dirs
<1> QED BY <1>1 DEF Emptied

-----------------------------------------------------------------------------
(* 3. Fetching.                                                            *)

(* Begin: the name of a process is given out, nothing is acted on.         *)
LEMMA BeginStep ==
  ASSUME ProvisionInv, Begin
  PROVE  ProvisionInv'
<1>0. NamesAreApart /\ Typed /\ Fresh /\ Course /\ Attempt /\ job \in Jobs
  BY DEF ProvisionInv, Typed
<1>1. /\ job.at = "Idle" /\ job'.at = "Fetching" /\ job'.dir = None /\ job'.entry = None
         /\ ~job'.storeNew /\ ~job'.profileNew /\ job' \in Jobs
      /\ things' = things /\ scratch' = scratch /\ manifest' = manifest /\ store' = store
      /\ registered' = registered /\ profile' = profile /\ owed' = owed /\ origin' = origin
      /\ attempts < MaxAttempts /\ attempts' = attempts + 1
  BY <1>0 DEF Begin, At, Idle, disk, Jobs, None, Quiet, Busy, InProgress
<1>2. Typed'
  BY <1>0, <1>1 DEF Typed, Profiles, Stored, StoreExists, NamesAreApart
<1>3. Fresh'
  BY <1>0, <1>1 DEF Typed, Fresh, NamesAreApart
<1>4. Course'
  BY <1>0, <1>1 DEF Course, Linked, InStore, StoreExists, At, Accounted, Vouched
<1>5. Attempt'
  BY <1>0, <1>1 DEF Attempt, Quiet, Busy, InProgress, UndoneIsAsBefore, At
<1> QED BY <1>0, <1>2, <1>3, <1>4, <1>5 DEF ProvisionInv, NamesAreApart, Temps, Things

(* A chunk of the body.                                                    *)
LEMMA ChunkStep ==
  ASSUME ProvisionInv, At("Fetching"), NEW n \in 1 .. Size + 1, NEW good \in BOOLEAN,
         job' = [job EXCEPT !.got = @ + n, !.good = @ /\ good],
         UNCHANGED <<things, scratch, manifest, store, registered, profile, owed, origin, attempts>>
  PROVE  ProvisionInv'
<1>0. NamesAreApart /\ Typed /\ Fresh /\ Course /\ Attempt /\ job \in Jobs
  BY DEF ProvisionInv, Typed
<1>1. /\ job.at = "Fetching" /\ job'.at = "Fetching"
      /\ job'.got = job.got + n /\ (job'.good <=> job.good /\ good) /\ job'.dir = job.dir
         /\ job'.entry = job.entry /\ job'.isNew = job.isNew /\ job'.storeNew = job.storeNew
         /\ job'.profileNew = job.profileNew /\ job'.paths = job.paths /\ job'.kept = job.kept
         /\ job'.left = job.left /\ job'.failed = job.failed /\ job'.recovered = job.recovered
      /\ things' = things /\ scratch' = scratch /\ manifest' = manifest /\ store' = store
         /\ registered' = registered /\ profile' = profile /\ owed' = owed /\ origin' = origin
         /\ attempts' = attempts
  BY <1>0 DEF At, Jobs, Goes, Trouble, Idle, disk
<1>9. job.got + n \in Nat /\ (job.good /\ good) \in BOOLEAN
  BY <1>0 DEF Jobs, NamesAreApart
<1>10. job' \in Jobs
  BY <1>0, <1>1, <1>9 DEF At, Jobs, Goes, InProgress, Busy, Quiet
<1>2. Typed'
  BY <1>0, <1>1, <1>10, Names DEF Typed, Profiles, Stored, StoreExists, InStore
<1>3. Fresh'
  BY <1>0, <1>1, Names DEF Typed, Fresh, NamesAreApart
<1>4. Course'
  BY <1>0, <1>1, Names DEF Course, Linked, InStore, StoreExists, At, Whole, Sealed, None, Typed, Accounted, Vouched
<1>7. Attempt'
  BY <1>0, <1>1 DEF Attempt, Quiet, Busy, InProgress, UndoneIsAsBefore, At
<1> QED BY <1>0, <1>2, <1>3, <1>4, <1>7 DEF ProvisionInv, NamesAreApart, Temps, Things

(* The body ends, and is what it should be.                                *)
LEMMA FetchedStep ==
  ASSUME ProvisionInv, job.at = "Fetching", Fetched(job.got, job.good),
         job' = [job EXCEPT !.at = "Verified"], UNCHANGED <<disk, owed, origin, attempts>>
  PROVE  ProvisionInv'
<1>0. NamesAreApart /\ Typed /\ Fresh /\ Course /\ Attempt /\ job \in Jobs
  BY DEF ProvisionInv, Typed
<1>1. /\ job.at = "Fetching" /\ job'.at = "Verified"
      /\ job'.got = job.got /\ job'.good = job.good /\ job'.dir = job.dir /\ job'.entry = job.entry
         /\ job'.isNew = job.isNew /\ job'.storeNew = job.storeNew
         /\ job'.profileNew = job.profileNew /\ job'.paths = job.paths /\ job'.kept = job.kept
         /\ job'.left = job.left /\ job'.failed = job.failed /\ job'.recovered = job.recovered
      /\ things' = things /\ scratch' = scratch /\ manifest' = manifest /\ store' = store
         /\ registered' = registered /\ profile' = profile /\ owed' = owed /\ origin' = origin
         /\ attempts' = attempts
      /\ job.got = Size /\ job.good
  BY <1>0 DEF At, Jobs, Goes, Trouble, Idle, disk, Fetched
<1>10. job' \in Jobs
  BY <1>0, <1>1 DEF At, Jobs, Goes, InProgress, Busy, Quiet
<1>2. Typed'
  BY <1>0, <1>1, <1>10, Names DEF Typed, Profiles, Stored, StoreExists, InStore
<1>3. Fresh'
  BY <1>0, <1>1, Names DEF Typed, Fresh, NamesAreApart
<1>4. Course'
  BY <1>0, <1>1, Names DEF Course, Linked, InStore, StoreExists, At, Whole, Sealed, None, Typed, Accounted, Vouched
<1>7. Attempt'
  BY <1>0, <1>1 DEF Attempt, Quiet, Busy, InProgress, UndoneIsAsBefore, At
<1> QED BY <1>0, <1>2, <1>3, <1>4, <1>7 DEF ProvisionInv, NamesAreApart, Temps, Things

(* The body is not what it should be, or never came.                       *)
LEMMA RefusedStep ==
  ASSUME ProvisionInv, job.at = "Fetching", job' = [Idle EXCEPT !.at = "Refused"],
         UNCHANGED <<disk, owed, origin, attempts>>
  PROVE  ProvisionInv'
<1>0. NamesAreApart /\ Typed /\ Fresh /\ Course /\ Attempt /\ job \in Jobs
  BY DEF ProvisionInv, Typed
<1>1. /\ job.at = "Fetching" /\ job'.at = "Refused"
      /\ job' = [Idle EXCEPT !.at = "Refused"] /\ job'.dir = None /\ job'.entry = None
         /\ ~job'.storeNew /\ ~job'.profileNew
      /\ things' = things /\ scratch' = scratch /\ manifest' = manifest /\ store' = store
         /\ registered' = registered /\ profile' = profile /\ owed' = owed /\ origin' = origin
         /\ attempts' = attempts
  BY <1>0 DEF At, Jobs, Goes, Trouble, Idle, disk
<1>10. job' \in Jobs
  BY <1>1, IdleJob DEF Quiet, Busy, InProgress
<1>2. Typed'
  BY <1>0, <1>1, <1>10, Names DEF Typed, Profiles, Stored, StoreExists, InStore
<1>3. Fresh'
  BY <1>0, <1>1, Names DEF Typed, Fresh, NamesAreApart
<1>4. Course'
  BY <1>0, <1>1, Names DEF Course, Linked, InStore, StoreExists, At, Whole, Sealed, None, Typed, Accounted, Vouched
<1>7. Attempt'
  BY <1>0, <1>1 DEF Attempt, Quiet, Busy, InProgress, UndoneIsAsBefore, At
<1> QED BY <1>0, <1>2, <1>3, <1>4, <1>7 DEF ProvisionInv, NamesAreApart, Temps, Things

(* Before anything is owed, giving up is returning.                        *)
LEMMA IdleStep ==
  ASSUME ProvisionInv, job.at \in Quiet, job' = Idle, UNCHANGED <<disk, owed, origin, attempts>>
  PROVE  ProvisionInv'
<1>0. NamesAreApart /\ Typed /\ Fresh /\ Course /\ Attempt /\ job \in Jobs
  BY DEF ProvisionInv, Typed
<1>1. /\ job.at \in Quiet /\ job'.at = "Idle"
      /\ job' = Idle /\ job'.dir = None /\ job'.entry = None /\ ~job'.storeNew /\ ~job'.profileNew
      /\ things' = things /\ scratch' = scratch /\ manifest' = manifest /\ store' = store
         /\ registered' = registered /\ profile' = profile /\ owed' = owed /\ origin' = origin
         /\ attempts' = attempts
  BY <1>0 DEF At, Jobs, Goes, Trouble, Idle, disk
<1>10. job' \in Jobs
  <2>1. job' = [Idle EXCEPT !.at = "Idle"]
    BY <1>1 DEF Idle
  <2> QED BY <2>1, IdleJob DEF Quiet
<1>2. Typed'
  BY <1>0, <1>1, <1>10, Names DEF Typed, Profiles, Stored, StoreExists, InStore
<1>3. Fresh'
  BY <1>0, <1>1, Names DEF Typed, Fresh, NamesAreApart
<1>4. Course'
  BY <1>0, <1>1, Names DEF Course, Linked, InStore, StoreExists, At, Whole, Sealed, None, Typed, Accounted, Vouched
<1>7. Attempt'
  BY <1>0, <1>1 DEF Attempt, Quiet, Busy, InProgress, UndoneIsAsBefore, At
<1> QED BY <1>0, <1>2, <1>3, <1>4, <1>7 DEF ProvisionInv, NamesAreApart, Temps, Things

-----------------------------------------------------------------------------
(* 4. Placing.                                                             *)

(* The undo is written: it is enough to go back to what is there now.      *)
LEMMA PrepareStep ==
  ASSUME ProvisionInv, Prepare
  PROVE  ProvisionInv'
<1>0. NamesAreApart /\ Typed /\ Fresh /\ Course /\ Attempt /\ job \in Jobs
  BY DEF ProvisionInv, Typed
<1>91. PICK o : o = [things |-> things, manifest |-> manifest, store |-> InStore, exists |-> StoreExists,
                 profile |-> profile, repointed |-> FALSE]
  OBVIOUS
<1>92. PICK u : u = [kept |-> things, created |-> (IF ProfileExists THEN {} ELSE {"profile"}) \cup (IF StoreExists THEN {} ELSE {"store"})]
  OBVIOUS
<1>1. /\ job.at = "Verified" /\ job'.at = "Scratch"
      /\ job'.got = job.got /\ job'.good = job.good /\ job'.dir = job.dir /\ job'.entry = job.entry
         /\ job'.isNew = job.isNew /\ job'.storeNew = job.storeNew
         /\ job'.profileNew = job.profileNew /\ job'.paths = job.paths /\ job'.kept = things
         /\ job'.left = job.left /\ job'.failed = job.failed /\ job'.recovered = job.recovered
      /\ things' = things /\ scratch' = scratch /\ manifest' = manifest /\ store' = store
         /\ registered' = registered /\ profile' = profile /\ attempts' = attempts
      /\ owed' = {u} /\ origin' = {o}
  BY <1>0, <1>91, <1>92 DEF Prepare, At, Jobs, Goes, Trouble, Idle, disk
<1>10. job' \in Jobs
  BY <1>0, <1>1 DEF Prepare, At, Jobs, Goes, InProgress, Busy, Quiet, Typed
<1>2. Typed'
  BY <1>0, <1>1, <1>10, Names DEF Typed, Profiles, Stored, StoreExists, InStore
<1>3. Fresh'
  BY <1>0, <1>1, Names DEF Typed, Fresh, NamesAreApart
<1>4. Course'
  BY <1>0, <1>1, Names DEF Course, Linked, InStore, StoreExists, At, Whole, Sealed, None, Typed, Accounted, Vouched
<1>5. /\ o.things = things /\ o.manifest = manifest /\ o.store = InStore /\ (o.exists <=> StoreExists) /\ o.profile = profile
      /\ u.kept = things
         /\ u.created = (IF ProfileExists THEN {} ELSE {"profile"}) \cup (IF StoreExists THEN {} ELSE {"store"})
  BY <1>91, <1>92
<1>55. job.storeNew = FALSE /\ job.profileNew = FALSE
  BY <1>0, <1>1 DEF Fresh
<1>6. Under(o, u)'
  <2>1. o \in Origins
    <3>1. things \in SUBSET Things /\ manifest \in Scratch \cup {None} /\ profile \in Profiles
      BY <1>0 DEF Typed
    <3>2. InStore \in SUBSET (Entries \cup {"user"}) /\ StoreExists \in BOOLEAN
      BY <1>0 DEF Typed, Stored, InStore, StoreExists
    <3> QED BY <1>91, <3>1, <3>2, SMT DEF Origins
  <2>11. o.repointed = FALSE
    BY <1>91
  <2>12. Base(o)' /\ Origin(o)'
    <3>1. Origin(o)'
      BY <1>0, <1>1, <1>5, <2>1 DEF Typed, Fresh, Origin, InStore
    <3>2. Base(o)'
      BY <1>0, <1>1, <1>5, <2>11, Names DEF Base, InStore, StoreExists, Tmp, None
    <3> QED BY <3>1, <3>2
  <2>2. Owes(o, u)'
    BY <1>0, <1>1, <1>5, Names DEF Typed, Profiles, Owes, ProfileExists, Made, Removable, None
  <2>3. Stage(o)'
    BY <1>0, <1>1, <1>5, <1>55 DEF Stage, InProgress, At, UntilStore, FromStore, NoStore, NoProfile,
         StoreExists
  <2> QED BY <1>1, <2>12, <2>2, <2>3 DEF Under, At
<1>7. Attempt'
  BY <1>1, <1>5, <1>6 DEF Attempt, Quiet, Busy, InProgress, UndoneIsAsBefore, At, Under
<1> QED BY <1>0, <1>2, <1>3, <1>4, <1>7 DEF ProvisionInv, NamesAreApart, Temps, Things

(* The directory an earlier attempt left is used again.                    *)
LEMMA ReuseStep ==
  ASSUME ProvisionInv, At("Scratch"), "manifest" \in things, manifest \in things, manifest # None,
         job' = [job EXCEPT !.at = "Store", !.dir = manifest, !.recovered = TRUE],
         UNCHANGED <<things, scratch, manifest, store, registered, profile, owed, origin, attempts>>
  PROVE  ProvisionInv'
<1>0. NamesAreApart /\ Typed /\ Fresh /\ Course /\ Attempt /\ job \in Jobs
  BY DEF ProvisionInv, Typed
<1>1. /\ job.at = "Scratch" /\ job'.at = "Store"
      /\ job'.got = job.got /\ job'.good = job.good /\ job'.dir = manifest /\ job'.entry = job.entry
         /\ job'.isNew = job.isNew /\ job'.storeNew = job.storeNew
         /\ job'.profileNew = job.profileNew /\ job'.paths = job.paths /\ job'.kept = job.kept
         /\ job'.left = job.left /\ job'.failed = job.failed /\ (job'.recovered <=> TRUE)
      /\ things' = things /\ scratch' = scratch /\ manifest' = manifest /\ store' = store
         /\ registered' = registered /\ profile' = profile /\ owed' = owed /\ origin' = origin
         /\ attempts' = attempts
      /\ manifest # None
  BY <1>0 DEF At, Jobs, Goes, Trouble, Idle, disk
<1>10. job' \in Jobs
  BY <1>0, <1>1 DEF At, Jobs, Goes, InProgress, Busy, Quiet, Typed
<1>2. Typed'
  BY <1>0, <1>1, <1>10, Names DEF Typed, Profiles, Stored, StoreExists, InStore
<1>3. Fresh'
  BY <1>0, <1>1, Names DEF Typed, Fresh, NamesAreApart
<1>4. Course'
  BY <1>0, <1>1, Names DEF Course, Linked, InStore, StoreExists, At, Whole, Sealed, None, Typed, Accounted, Vouched
<1>5. PICK o \in origin, u \in owed : Under(o, u)
  BY <1>0, <1>1 DEF Attempt, Busy, InProgress
<1>6. Under(o, u)'
  <2>1. Base(o)' /\ Origin(o)' /\ Owes(o, u)'
    BY <1>0, <1>1, <1>5, Names DEF Typed, Under, Base, Origin, Owes, InStore, StoreExists, Stage,
         At, None, Tmp
  <2>2. Stage(o)'
    BY <1>0, <1>1, <1>5, Names DEF Under, Stage, InProgress, At, UntilStore, FromStore, HasStore,
         NoStore, NoProfile, HasProfile, StoreExists
  <2> QED BY <1>1, <1>5, <2>1, <2>2 DEF Under, At
<1>7. Attempt'
  BY <1>1, <1>5, <1>6 DEF Attempt, Quiet, Busy, InProgress, UndoneIsAsBefore, At, Under
<1> QED BY <1>0, <1>2, <1>3, <1>4, <1>7 DEF ProvisionInv, NamesAreApart, Temps, Things

(* It cannot be: the manifest is dropped, and it may have been there       *)
(* before.                                                                 *)
LEMMA DropStep ==
  ASSUME ProvisionInv, At("Scratch"), things' = things \ {"manifest"}, manifest' = None,
         Goes("New scratch"),
         UNCHANGED <<scratch, store, registered, profile, owed, origin, attempts>>
  PROVE  ProvisionInv'
<1>0. NamesAreApart /\ Typed /\ Fresh /\ Course /\ Attempt /\ job \in Jobs
  BY DEF ProvisionInv, Typed
<1>1. /\ job.at = "Scratch" /\ job'.at = "New scratch"
      /\ job'.got = job.got /\ job'.good = job.good /\ job'.dir = job.dir /\ job'.entry = job.entry
         /\ job'.isNew = job.isNew /\ job'.storeNew = job.storeNew
         /\ job'.profileNew = job.profileNew /\ job'.paths = job.paths /\ job'.kept = job.kept
         /\ job'.left = job.left /\ job'.failed = job.failed /\ job'.recovered = job.recovered
      /\ things' = things \ {"manifest"} /\ scratch' = scratch /\ manifest' = None /\ store' = store
         /\ registered' = registered /\ profile' = profile /\ owed' = owed /\ origin' = origin
         /\ attempts' = attempts
  BY <1>0 DEF At, Jobs, Goes, Trouble, Idle, disk
<1>10. job' \in Jobs
  BY <1>0, <1>1 DEF At, Jobs, Goes, InProgress, Busy, Quiet
<1>2. Typed'
  BY <1>0, <1>1, <1>10, Names DEF Typed, Profiles, Stored, StoreExists, InStore
<1>3. Fresh'
  BY <1>0, <1>1, Names DEF Typed, Fresh, NamesAreApart
<1>4. Course'
  BY <1>0, <1>1, Names DEF Course, Linked, InStore, StoreExists, At, Whole, Sealed, None, Typed, Accounted, Vouched
<1>5. PICK o \in origin, u \in owed : Under(o, u)
  BY <1>0, <1>1 DEF Attempt, Busy, InProgress
<1>6. Under(o, u)'
  <2>1. Base(o)' /\ Origin(o)' /\ Owes(o, u)'
    BY <1>0, <1>1, <1>5, Names DEF Typed, Under, Base, Origin, Owes, InStore, StoreExists, Stage,
         At, None, Tmp
  <2>2. Stage(o)'
    BY <1>0, <1>1, <1>5, Names DEF Under, Stage, InProgress, At, UntilStore, FromStore, HasStore,
         NoStore, NoProfile, HasProfile, StoreExists
  <2> QED BY <1>1, <1>5, <2>1, <2>2 DEF Under, At
<1>7. Attempt'
  BY <1>1, <1>5, <1>6 DEF Attempt, Quiet, Busy, InProgress, UndoneIsAsBefore, At, Under
<1> QED BY <1>0, <1>2, <1>3, <1>4, <1>7 DEF ProvisionInv, NamesAreApart, Temps, Things

(* The new directory was not there before.                                 *)
LEMMA NewScratchStep ==
  ASSUME ProvisionInv, At("New scratch"), NEW d \in Scratch, d \notin things, things' = things \cup {d},
         job' = [job EXCEPT !.at = "Unpacking", !.dir = d],
         UNCHANGED <<scratch, manifest, store, registered, profile, owed, origin, attempts>>
  PROVE  ProvisionInv'
<1>0. NamesAreApart /\ Typed /\ Fresh /\ Course /\ Attempt /\ job \in Jobs
  BY DEF ProvisionInv, Typed
<1>1. /\ job.at = "New scratch" /\ job'.at = "Unpacking"
      /\ job'.got = job.got /\ job'.good = job.good /\ job'.dir = d /\ job'.entry = job.entry
         /\ job'.isNew = job.isNew /\ job'.storeNew = job.storeNew
         /\ job'.profileNew = job.profileNew /\ job'.paths = job.paths /\ job'.kept = job.kept
         /\ job'.left = job.left /\ job'.failed = job.failed /\ job'.recovered = job.recovered
      /\ things' = things \cup {d} /\ scratch' = scratch /\ manifest' = manifest /\ store' = store
         /\ registered' = registered /\ profile' = profile /\ owed' = owed /\ origin' = origin
         /\ attempts' = attempts
  BY <1>0 DEF At, Jobs, Goes, Trouble, Idle, disk
<1>10. job' \in Jobs
  BY <1>0, <1>1 DEF At, Jobs, Goes, InProgress, Busy, Quiet
<1>2. Typed'
  BY <1>0, <1>1, <1>10, Names DEF Typed, Profiles, Stored, StoreExists, InStore
<1>3. Fresh'
  BY <1>0, <1>1, Names DEF Typed, Fresh, NamesAreApart
<1>4. Course'
  BY <1>0, <1>1, Names DEF Course, Linked, InStore, StoreExists, At, Whole, Sealed, None, Typed, Accounted, Vouched
<1>5. PICK o \in origin, u \in owed : Under(o, u)
  BY <1>0, <1>1 DEF Attempt, Busy, InProgress
<1>6. Under(o, u)'
  <2>1. Base(o)' /\ Origin(o)' /\ Owes(o, u)'
    BY <1>0, <1>1, <1>5, Names DEF Typed, Under, Base, Origin, Owes, InStore, StoreExists, Stage,
         At, None, Tmp
  <2>2. Stage(o)'
    BY <1>0, <1>1, <1>5, Names DEF Under, Stage, InProgress, At, UntilStore, FromStore, HasStore,
         NoStore, NoProfile, HasProfile, StoreExists
  <2> QED BY <1>1, <1>5, <2>1, <2>2 DEF Under, At
<1>7. Attempt'
  BY <1>1, <1>5, <1>6 DEF Attempt, Quiet, Busy, InProgress, UndoneIsAsBefore, At, Under
<1> QED BY <1>0, <1>2, <1>3, <1>4, <1>7 DEF ProvisionInv, NamesAreApart, Temps, Things

(* Files.                                                                  *)
LEMMA UnpackStep ==
  ASSUME ProvisionInv, At("Unpacking"), UNCHANGED job,
         scratch' = [scratch EXCEPT ![job.dir].unpacked = "Partly"], UNCHANGED <<things, manifest, store, registered, profile, owed, origin, attempts>>
  PROVE  ProvisionInv'
<1>0. NamesAreApart /\ Typed /\ Fresh /\ Course /\ Attempt /\ job \in Jobs
  BY DEF ProvisionInv, Typed
<1>1. /\ job.at = "Unpacking" /\ job'.at = "Unpacking"
      /\ job'.got = job.got /\ job'.good = job.good /\ job'.dir = job.dir /\ job'.entry = job.entry
         /\ job'.isNew = job.isNew /\ job'.storeNew = job.storeNew
         /\ job'.profileNew = job.profileNew /\ job'.paths = job.paths /\ job'.kept = job.kept
         /\ job'.left = job.left /\ job'.failed = job.failed /\ job'.recovered = job.recovered
      /\ things' = things /\ manifest' = manifest /\ store' = store /\ registered' = registered
         /\ profile' = profile /\ owed' = owed /\ origin' = origin /\ attempts' = attempts
      /\ scratch' = [scratch EXCEPT ![job.dir].unpacked = "Partly"]
  BY <1>0 DEF At, Jobs, Goes, Trouble, Idle, disk
<1>10. job' \in Jobs
  BY <1>0, <1>1 DEF At, Jobs, Goes, InProgress, Busy, Quiet
<1>11. scratch' \in [Scratch -> Dirs]
  <2>1. job.dir \in Scratch /\ scratch \in [Scratch -> Dirs] /\ scratch[job.dir] \in Dirs
    BY <1>0, <1>1 DEF Typed, Course
  <2>2. [scratch[job.dir] EXCEPT !.unpacked = "Partly"] \in Dirs
    BY <2>1 DEF Dirs
  <2> QED BY <1>1, <2>1, <2>2
<1>2. Typed'
  BY <1>0, <1>1, <1>10, <1>11, Names DEF Typed, Profiles, Stored, StoreExists, InStore
<1>3. Fresh'
  BY <1>0, <1>1, Names DEF Typed, Fresh, NamesAreApart
<1>4. Course'
  BY <1>0, <1>1, Names DEF Course, Linked, InStore, StoreExists, At, Whole, Sealed, None, Typed, Accounted, Vouched
<1>5. PICK o \in origin, u \in owed : Under(o, u)
  BY <1>0, <1>1 DEF Attempt, Busy, InProgress
<1>6. Under(o, u)'
  <2>1. Base(o)' /\ Origin(o)' /\ Owes(o, u)'
    BY <1>0, <1>1, <1>5, Names DEF Typed, Under, Base, Origin, Owes, InStore, StoreExists, Stage,
         At, None, Tmp
  <2>2. Stage(o)'
    BY <1>0, <1>1, <1>5, Names DEF Under, Stage, InProgress, At, UntilStore, FromStore, HasStore,
         NoStore, NoProfile, HasProfile, StoreExists
  <2> QED BY <1>1, <1>5, <2>1, <2>2 DEF Under, At
<1>7. Attempt'
  BY <1>1, <1>5, <1>6 DEF Attempt, Quiet, Busy, InProgress, UndoneIsAsBefore, At, Under
<1> QED BY <1>0, <1>2, <1>3, <1>4, <1>7 DEF ProvisionInv, NamesAreApart, Temps, Things

(* Then directories: the directory links to nothing yet.                   *)
LEMMA UnpackedStep ==
  ASSUME ProvisionInv, At("Unpacking"), Goes("Manifest"),
         scratch' = [scratch EXCEPT ![job.dir] = [unpacked |-> "Yes", tree |-> Entries, links |-> {}]], UNCHANGED <<things, manifest, store, registered, profile, owed, origin, attempts>>
  PROVE  ProvisionInv'
<1>0. NamesAreApart /\ Typed /\ Fresh /\ Course /\ Attempt /\ job \in Jobs
  BY DEF ProvisionInv, Typed
<1>1. /\ job.at = "Unpacking" /\ job'.at = "Manifest"
      /\ job'.got = job.got /\ job'.good = job.good /\ job'.dir = job.dir /\ job'.entry = job.entry
         /\ job'.isNew = job.isNew /\ job'.storeNew = job.storeNew
         /\ job'.profileNew = job.profileNew /\ job'.paths = job.paths /\ job'.kept = job.kept
         /\ job'.left = job.left /\ job'.failed = job.failed /\ job'.recovered = job.recovered
      /\ things' = things /\ manifest' = manifest /\ store' = store /\ registered' = registered
         /\ profile' = profile /\ owed' = owed /\ origin' = origin /\ attempts' = attempts
      /\ scratch' = [scratch EXCEPT ![job.dir] = [unpacked |-> "Yes", tree |-> Entries, links |-> {}]]
  BY <1>0 DEF At, Jobs, Goes, Trouble, Idle, disk
<1>10. job' \in Jobs
  BY <1>0, <1>1 DEF At, Jobs, Goes, InProgress, Busy, Quiet
<1>11. scratch' \in [Scratch -> Dirs]
  <2>1. [unpacked |-> "Yes", tree |-> Entries, links |-> {}] \in Dirs
    BY DEF Dirs
  <2> QED BY <1>0, <1>1, <2>1 DEF Typed
<1>2. Typed'
  BY <1>0, <1>1, <1>10, <1>11, Names DEF Typed, Profiles, Stored, StoreExists, InStore
<1>3. Fresh'
  BY <1>0, <1>1, Names DEF Typed, Fresh, NamesAreApart
<1>4. Course'
  BY <1>0, <1>1, Names DEF Course, Linked, InStore, StoreExists, At, Whole, Sealed, None, Typed, Accounted, Vouched
<1>5. PICK o \in origin, u \in owed : Under(o, u)
  BY <1>0, <1>1 DEF Attempt, Busy, InProgress
<1>6. Under(o, u)'
  <2>1. Base(o)' /\ Origin(o)' /\ Owes(o, u)'
    BY <1>0, <1>1, <1>5, Names DEF Typed, Under, Base, Origin, Owes, InStore, StoreExists, Stage,
         At, None, Tmp
  <2>2. Stage(o)'
    BY <1>0, <1>1, <1>5, Names DEF Under, Stage, InProgress, At, UntilStore, FromStore, HasStore,
         NoStore, NoProfile, HasProfile, StoreExists
  <2> QED BY <1>1, <1>5, <2>1, <2>2 DEF Under, At
<1>7. Attempt'
  BY <1>1, <1>5, <1>6 DEF Attempt, Quiet, Busy, InProgress, UndoneIsAsBefore, At, Under
<1> QED BY <1>0, <1>2, <1>3, <1>4, <1>7 DEF ProvisionInv, NamesAreApart, Temps, Things

(* The scratch directory removes itself, and it is the attempt's own.      *)
LEMMA UnpackFailsStep ==
  ASSUME ProvisionInv, UnpackFails
  PROVE  ProvisionInv'
<1>0. NamesAreApart /\ Typed /\ Fresh /\ Course /\ Attempt /\ job \in Jobs
  BY DEF ProvisionInv, Typed
<1>1. /\ job.at = "Unpacking" /\ job'.at = "Failing"
      /\ job'.got = job.got /\ job'.good = job.good /\ job'.dir = job.dir /\ job'.entry = job.entry
         /\ job'.isNew = job.isNew /\ job'.storeNew = job.storeNew
         /\ job'.profileNew = job.profileNew /\ job'.paths = job.paths /\ job'.kept = job.kept
         /\ job'.left = job.left /\ (job'.failed <=> TRUE) /\ job'.recovered = job.recovered
      /\ things' = things \ {job.dir} /\ manifest' = manifest
         /\ store' = store /\ registered' = registered /\ profile' = profile /\ owed' = owed
         /\ origin' = origin /\ attempts' = attempts
  BY <1>0 DEF UnpackFails, At, Jobs, Goes, Trouble, Idle, disk
<1>12. /\ scratch' \in [Scratch -> Dirs]
       /\ \A d \in Scratch : scratch'[d] = scratch[d] \/ (scratch'[d].tree = {} /\ scratch'[d].links = {})
  BY <1>0, EmptiedDirs DEF Typed, UnpackFails
<1>10. job' \in Jobs
  BY <1>0, <1>1 DEF UnpackFails, At, Jobs, Goes, InProgress, Busy, Quiet
<1>11. job.dir \in Scratch
  BY <1>0, <1>1 DEF Course
<1>2. Typed'
  BY <1>0, <1>1, <1>10, <1>11, <1>12, Names DEF Typed, Profiles, Stored, StoreExists, InStore
<1>3. Fresh'
  BY <1>0, <1>1, Names DEF Typed, Fresh, NamesAreApart
<1>4. Course'
  BY <1>0, <1>1, <1>12, Names DEF Course, Linked, InStore, StoreExists, At, Whole, Sealed, None, Typed, Accounted, Vouched
<1>5. PICK o \in origin, u \in owed : Under(o, u)
  BY <1>0, <1>1 DEF Attempt, Busy, InProgress
<1>6. Under(o, u)'
  <2>1. Base(o)' /\ Origin(o)' /\ Owes(o, u)'
    BY <1>0, <1>1, <1>5, <1>11, Names DEF Typed, Under, Base, Origin, Owes, InStore, StoreExists,
         Stage, At, None, Tmp
  <2>2. Stage(o)'
    BY <1>0, <1>1, <1>5, Names DEF Under, Stage, InProgress, At, UntilStore, FromStore, HasStore,
         NoStore, NoProfile, HasProfile, StoreExists
  <2> QED BY <1>1, <1>5, <2>1, <2>2 DEF Under, At
<1>7. Attempt'
  BY <1>1, <1>5, <1>6 DEF Attempt, Quiet, Busy, InProgress, UndoneIsAsBefore, At, Under
<1> QED BY <1>0, <1>2, <1>3, <1>4, <1>7 DEF ProvisionInv, NamesAreApart, Temps, Things

(* The manifest is written under another name ...                          *)
LEMMA TemporaryStep ==
  ASSUME ProvisionInv, At("Manifest"), Tmp \notin things, things' = things \cup {Tmp},
         UNCHANGED job,
         UNCHANGED <<scratch, manifest, store, registered, profile, owed, origin, attempts>>
  PROVE  ProvisionInv'
<1>0. NamesAreApart /\ Typed /\ Fresh /\ Course /\ Attempt /\ job \in Jobs
  BY DEF ProvisionInv, Typed
<1>1. /\ job.at = "Manifest" /\ job'.at = "Manifest"
      /\ job'.got = job.got /\ job'.good = job.good /\ job'.dir = job.dir /\ job'.entry = job.entry
         /\ job'.isNew = job.isNew /\ job'.storeNew = job.storeNew
         /\ job'.profileNew = job.profileNew /\ job'.paths = job.paths /\ job'.kept = job.kept
         /\ job'.left = job.left /\ job'.failed = job.failed /\ job'.recovered = job.recovered
      /\ things' = things \cup {Temporary[attempts]} /\ scratch' = scratch /\ manifest' = manifest
         /\ store' = store /\ registered' = registered /\ profile' = profile /\ owed' = owed
         /\ origin' = origin /\ attempts' = attempts
  BY <1>0 DEF At, Jobs, Goes, Trouble, Idle, disk, Tmp
<1>10. job' \in Jobs
  BY <1>0, <1>1 DEF At, Jobs, Goes, InProgress, Busy, Quiet
<1>11. job.dir \in Scratch /\ attempts \in 1..MaxAttempts
  BY <1>0, <1>1 DEF Course, Attempt, Under, Origin, Busy, InProgress, Typed, NamesAreApart
<1>2. Typed'
  BY <1>0, <1>1, <1>10, <1>11, Names DEF Typed, Profiles, Stored, StoreExists, InStore
<1>3. Fresh'
  BY <1>0, <1>1, Names DEF Typed, Fresh, NamesAreApart
<1>4. Course'
  BY <1>0, <1>1, Names DEF Course, Linked, InStore, StoreExists, At, Whole, Sealed, None, Typed, Accounted, Vouched
<1>5. PICK o \in origin, u \in owed : Under(o, u)
  BY <1>0, <1>1 DEF Attempt, Busy, InProgress
<1>6. Under(o, u)'
  <2>1. Base(o)' /\ Origin(o)' /\ Owes(o, u)'
    BY <1>0, <1>1, <1>5, <1>11, Names DEF Typed, Under, Base, Origin, Owes, InStore, StoreExists,
         Stage, At, None, Tmp
  <2>2. Stage(o)'
    BY <1>0, <1>1, <1>5, Names DEF Under, Stage, InProgress, At, UntilStore, FromStore, HasStore,
         NoStore, NoProfile, HasProfile, StoreExists
  <2> QED BY <1>1, <1>5, <2>1, <2>2 DEF Under, At
<1>7. Attempt'
  BY <1>1, <1>5, <1>6 DEF Attempt, Quiet, Busy, InProgress, UndoneIsAsBefore, At, Under
<1> QED BY <1>0, <1>2, <1>3, <1>4, <1>7 DEF ProvisionInv, NamesAreApart, Temps, Things

(* ... and renamed.                                                        *)
LEMMA ManifestStep ==
  ASSUME ProvisionInv, At("Manifest"), things' = (things \ {Tmp}) \cup {"manifest"},
         manifest' = job.dir, Goes("Store"),
         UNCHANGED <<scratch, store, registered, profile, owed, origin, attempts>>
  PROVE  ProvisionInv'
<1>0. NamesAreApart /\ Typed /\ Fresh /\ Course /\ Attempt /\ job \in Jobs
  BY DEF ProvisionInv, Typed
<1>1. /\ job.at = "Manifest" /\ job'.at = "Store"
      /\ job'.got = job.got /\ job'.good = job.good /\ job'.dir = job.dir /\ job'.entry = job.entry
         /\ job'.isNew = job.isNew /\ job'.storeNew = job.storeNew
         /\ job'.profileNew = job.profileNew /\ job'.paths = job.paths /\ job'.kept = job.kept
         /\ job'.left = job.left /\ job'.failed = job.failed /\ job'.recovered = job.recovered
      /\ things' = (things \ {Temporary[attempts]}) \cup {"manifest"} /\ scratch' = scratch
         /\ manifest' = job.dir /\ store' = store /\ registered' = registered /\ profile' = profile
         /\ owed' = owed /\ origin' = origin /\ attempts' = attempts
  BY <1>0 DEF At, Jobs, Goes, Trouble, Idle, disk, Tmp
<1>10. job' \in Jobs
  BY <1>0, <1>1 DEF At, Jobs, Goes, InProgress, Busy, Quiet
<1>11. job.dir \in Scratch /\ attempts \in 1..MaxAttempts
  BY <1>0, <1>1 DEF Course, Attempt, Under, Origin, Busy, InProgress, Typed, NamesAreApart
<1>2. Typed'
  BY <1>0, <1>1, <1>10, <1>11, Names DEF Typed, Profiles, Stored, StoreExists, InStore
<1>3. Fresh'
  BY <1>0, <1>1, Names DEF Typed, Fresh, NamesAreApart
<1>4. Course'
  BY <1>0, <1>1, <1>11, Names DEF Course, Linked, InStore, StoreExists, At, Whole, Sealed, None, Typed, Accounted, Vouched
<1>5. PICK o \in origin, u \in owed : Under(o, u)
  BY <1>0, <1>1 DEF Attempt, Busy, InProgress
<1>6. Under(o, u)'
  <2>1. Base(o)' /\ Origin(o)' /\ Owes(o, u)'
    BY <1>0, <1>1, <1>5, <1>11, Names DEF Typed, Under, Base, Origin, Owes, InStore, StoreExists,
         Stage, At, None, Tmp
  <2>2. Stage(o)'
    BY <1>0, <1>1, <1>5, Names DEF Under, Stage, InProgress, At, UntilStore, FromStore, HasStore,
         NoStore, NoProfile, HasProfile, StoreExists
  <2> QED BY <1>1, <1>5, <2>1, <2>2 DEF Under, At
<1>7. Attempt'
  BY <1>1, <1>5, <1>6 DEF Attempt, Quiet, Busy, InProgress, UndoneIsAsBefore, At, Under
<1> QED BY <1>0, <1>2, <1>3, <1>4, <1>7 DEF ProvisionInv, NamesAreApart, Temps, Things

(* The store is new if there was none before.                              *)
LEMMA MakeStoreStep ==
  ASSUME ProvisionInv, MakeStore
  PROVE  ProvisionInv'
<1>0. NamesAreApart /\ Typed /\ Fresh /\ Course /\ Attempt /\ job \in Jobs
  BY DEF ProvisionInv, Typed
<1>1. /\ job.at = "Store" /\ job'.at = "Moving"
      /\ job'.got = job.got /\ job'.good = job.good /\ job'.dir = job.dir /\ job'.entry = job.entry
         /\ job'.isNew = job.isNew /\ (job'.storeNew <=> ~StoreExists)
         /\ job'.profileNew = job.profileNew /\ job'.paths = job.paths /\ job'.kept = job.kept
         /\ job'.left = job.left /\ job'.failed = job.failed /\ job'.recovered = job.recovered
      /\ things' = things /\ scratch' = scratch /\ manifest' = manifest /\ registered' = registered
         /\ profile' = profile /\ owed' = owed /\ origin' = origin /\ attempts' = attempts
      /\ store' = IF StoreExists THEN store ELSE [p \in {} |-> "sealed"]
  BY <1>0 DEF MakeStore, At, Jobs, Goes, Trouble, Idle, disk
<1>10. job' \in Jobs
  BY <1>0, <1>1 DEF MakeStore, At, Jobs, Goes, InProgress, Busy, Quiet, MakeStore
<1>11. [p \in {} |-> "sealed"] # Absent
  BY DEF Absent
<1>12. StoreExists' /\ InStore' = InStore /\ \A e \in InStore : store'[e] = store[e]
  BY <1>1, <1>11 DEF StoreExists, InStore
<1>2. Typed'
  BY <1>0, <1>1, <1>10, <1>12, Names DEF Typed, Profiles, Stored, StoreExists, InStore
<1>3. Fresh'
  BY <1>0, <1>1, Names DEF Typed, Fresh, NamesAreApart
<1>4. Course'
  <2>1. InStore = DOMAIN store' /\ (StoreExists => InStore = DOMAIN store)
    BY <1>12 DEF InStore
  <2> QED BY <1>0, <1>1, <1>12, Names DEF Course, Fresh, Linked, At, None, Typed, Accounted
<1>5. PICK o \in origin, u \in owed : Under(o, u)
  BY <1>0, <1>1 DEF Attempt, Busy, InProgress
<1>6. Under(o, u)'
  <2>1. Base(o)' /\ Origin(o)' /\ Owes(o, u)'
    BY <1>0, <1>1, <1>5, <1>12, Names DEF Typed, Under, Base, Origin, Owes, InStore, StoreExists,
         Stage, At, None, Tmp
  <2>2. Stage(o)'
    BY <1>0, <1>1, <1>5, <1>12, Names DEF Under, Stage, InProgress, At, UntilStore, FromStore,
         HasStore, NoStore, NoProfile, HasProfile, StoreExists
  <2> QED BY <1>1, <1>5, <2>1, <2>2 DEF Under, At
<1>7. Attempt'
  BY <1>1, <1>5, <1>6 DEF Attempt, Quiet, Busy, InProgress, UndoneIsAsBefore, At, Under
<1> QED BY <1>0, <1>2, <1>3, <1>4, <1>7 DEF ProvisionInv, NamesAreApart, Temps, Things

(* What is in the place of an entry is one of the archive's paths.         *)
LEMMA DisplaceStep ==
  ASSUME ProvisionInv, Displace
  PROVE  ProvisionInv'
<1>0. NamesAreApart /\ Typed /\ Fresh /\ Course /\ Attempt /\ job \in Jobs
  BY DEF ProvisionInv, Typed
<1>1. /\ job.at = "Moving" /\ job'.at = "Moving"
      /\ job'.got = job.got /\ job'.good = job.good /\ job'.dir = job.dir
         /\ job'.storeNew = job.storeNew /\ job'.profileNew = job.profileNew
         /\ job'.paths = job.paths /\ job'.kept = job.kept /\ job'.left = job.left
         /\ job'.failed = job.failed /\ job'.recovered = job.recovered
      /\ things' = things /\ scratch' = scratch /\ manifest' = manifest /\ registered' = registered
         /\ profile' = profile /\ owed' = owed /\ origin' = origin /\ attempts' = attempts
      /\ job.entry = None /\ job'.entry \in scratch[job.dir].tree
         /\ store' = [p \in DOMAIN store \ {job'.entry} |-> store[p]]
  BY <1>0 DEF Displace, At, Jobs, Goes, Trouble, Idle, disk
<1>9. StoreExists /\ job.dir \in Scratch /\ manifest = job.dir /\ manifest # None
  <2>1. StoreExists
    BY <1>0, <1>1 DEF Attempt, Under, Stage, HasStore, FromStore, Busy, InProgress
  <2> QED BY <1>0, <1>1, <2>1, Names DEF Course, None
<1>11. /\ StoreExists /\ job.dir \in Scratch /\ DOMAIN store \subseteq Entries \cup {"user"} /\ InStore = DOMAIN store
       /\ store \in [DOMAIN store -> {"new", "sealed"}] /\ manifest = job.dir /\ Linked(job.dir)
          /\ manifest # None
       /\ scratch[job.dir].tree \subseteq Entries /\ scratch[job.dir] \in Dirs
  <2>1. scratch[job.dir] \in Dirs
    BY <1>0, <1>9 DEF Typed
  <2>2. scratch[job.dir].tree \subseteq Entries
    BY <2>1 DEF Dirs
  <2>3. Linked(job.dir)
    BY <1>0, <1>9 DEF Course
  <2> QED BY <1>0, <1>9, <2>1, <2>2, <2>3 DEF Typed, Stored, InStore
<1>10. job' \in Jobs
  BY <1>0, <1>1, <1>11 DEF Displace, At, Jobs, Goes, InProgress, Busy, Quiet
<1>12. DOMAIN store' = DOMAIN store \ {job'.entry} /\ \A x \in DOMAIN store' : store'[x] = store[x]
  BY <1>1, <1>11
<1>125. store' \in [DOMAIN store' -> {"new", "sealed"}]
  BY <1>1, <1>11
<1>13. StoreExists' /\ InStore' = DOMAIN store' /\ DOMAIN store' \subseteq Entries \cup {"user"}
  BY <1>0, <1>11, <1>12, NotAbsent DEF StoreExists, InStore
<1>14. Stored'
  BY <1>12, <1>125, <1>13 DEF Stored
<1>2. Typed'
  BY <1>0, <1>1, <1>10, <1>14, Names DEF Typed, Profiles
<1>3. Fresh'
  BY <1>0, <1>1, Names DEF Typed, Fresh, NamesAreApart
<1>4. Course'
  BY <1>0, <1>1, <1>11, <1>12, <1>13, Names DEF Course, Linked, At, None, Accounted, Vouched
<1>5. PICK o \in origin, u \in owed : Under(o, u)
  BY <1>0, <1>1 DEF Attempt, Busy, InProgress
<1>6. Under(o, u)'
  <2>1. Base(o)' /\ Origin(o)' /\ Owes(o, u)'
    BY <1>0, <1>1, <1>5, <1>11, <1>12, <1>13, Names DEF Typed, Under, Base, Origin, Owes, InStore,
         StoreExists, Stage, At, None, Tmp
  <2>2. Stage(o)'
    BY <1>0, <1>1, <1>5, <1>11, <1>13, Names DEF Under, Stage, InProgress, At, UntilStore,
         FromStore, HasStore, NoStore, NoProfile, HasProfile, StoreExists
  <2> QED BY <1>1, <1>5, <2>1, <2>2 DEF Under, At
<1>7. Attempt'
  BY <1>1, <1>5, <1>6 DEF Attempt, Quiet, Busy, InProgress, UndoneIsAsBefore, At, Under
<1> QED BY <1>0, <1>2, <1>3, <1>4, <1>7 DEF ProvisionInv, NamesAreApart, Temps, Things

(* The entry in the store is not sealed yet, and not linked to.            *)
LEMMA RenameStep ==
  ASSUME ProvisionInv, Rename
  PROVE  ProvisionInv'
<1>0. NamesAreApart /\ Typed /\ Fresh /\ Course /\ Attempt /\ job \in Jobs
  BY DEF ProvisionInv, Typed
<1>1. /\ job.at = "Moving" /\ job'.at = "Moving"
      /\ job'.got = job.got /\ job'.good = job.good /\ job'.dir = job.dir /\ job'.entry = job.entry
         /\ job'.isNew = job.isNew /\ job'.storeNew = job.storeNew
         /\ job'.profileNew = job.profileNew /\ job'.paths = job.paths /\ job'.kept = job.kept
         /\ job'.left = job.left /\ job'.failed = job.failed /\ job'.recovered = job.recovered
      /\ things' = things /\ manifest' = manifest /\ registered' = registered /\ profile' = profile
         /\ owed' = owed /\ origin' = origin /\ attempts' = attempts
      /\ job.entry \in scratch[job.dir].tree
      /\ store' = [p \in DOMAIN store \cup {job.entry} |-> IF p = job.entry THEN "new" ELSE store[p]]
      /\ scratch' = [scratch EXCEPT ![job.dir].tree = @ \ {job.entry}]
  BY <1>0 DEF Rename, At, Jobs, Goes, Trouble, Idle, disk
<1>9. StoreExists /\ job.dir \in Scratch /\ manifest = job.dir /\ manifest # None
  <2>1. StoreExists
    BY <1>0, <1>1 DEF Attempt, Under, Stage, HasStore, FromStore, Busy, InProgress
  <2> QED BY <1>0, <1>1, <2>1, Names DEF Course, None
<1>11. /\ StoreExists /\ job.dir \in Scratch /\ DOMAIN store \subseteq Entries \cup {"user"} /\ InStore = DOMAIN store
       /\ store \in [DOMAIN store -> {"new", "sealed"}] /\ manifest = job.dir /\ Linked(job.dir)
          /\ manifest # None
       /\ scratch[job.dir].tree \subseteq Entries /\ scratch[job.dir] \in Dirs
  <2>1. scratch[job.dir] \in Dirs
    BY <1>0, <1>9 DEF Typed
  <2>2. scratch[job.dir].tree \subseteq Entries
    BY <2>1 DEF Dirs
  <2>3. Linked(job.dir)
    BY <1>0, <1>9 DEF Course
  <2> QED BY <1>0, <1>9, <2>1, <2>2, <2>3 DEF Typed, Stored, InStore
<1>10. job' \in Jobs
  BY <1>0, <1>1 DEF Rename, At, Jobs, Goes, InProgress, Busy, Quiet
<1>12. /\ DOMAIN store' = DOMAIN store \cup {job.entry} /\ store'[job.entry] = "new"
       /\ (\A x \in DOMAIN store' : x # job.entry => store'[x] = store[x])
       /\ scratch' \in [Scratch -> Dirs] /\ scratch'[job.dir].tree = scratch[job.dir].tree \ {job.entry}
       /\ scratch'[job.dir].links = scratch[job.dir].links /\ job.entry \in Entries
  <2>1. scratch[job.dir] \in Dirs /\ scratch[job.dir].tree \ {job.entry} \in SUBSET Entries
    BY <1>11 DEF Dirs
  <2>2. [scratch[job.dir] EXCEPT !.tree = @ \ {job.entry}] \in Dirs
    BY <2>1 DEF Dirs
  <2>3. scratch' = [scratch EXCEPT ![job.dir] = [scratch[job.dir] EXCEPT !.tree = @ \ {job.entry}]]
    BY <1>1
  <2>4. scratch' \in [Scratch -> Dirs] /\ scratch'[job.dir] = [scratch[job.dir] EXCEPT !.tree = @ \ {job.entry}]
    BY <1>0, <1>11, <2>2, <2>3 DEF Typed
  <2>5. scratch'[job.dir].tree = scratch[job.dir].tree \ {job.entry} /\ scratch'[job.dir].links = scratch[job.dir].links
    BY <2>1, <2>4 DEF Dirs
  <2> QED BY <1>1, <1>11, <2>4, <2>5
<1>125. store' \in [DOMAIN store' -> {"new", "sealed"}]
  BY <1>1, <1>11
<1>13. StoreExists' /\ InStore' = DOMAIN store' /\ DOMAIN store' \subseteq Entries \cup {"user"}
  BY <1>0, <1>11, <1>12, NotAbsent DEF StoreExists, InStore
<1>14. Stored'
  BY <1>12, <1>125, <1>13 DEF Stored
<1>2. Typed'
  BY <1>0, <1>1, <1>10, <1>14, <1>12, Names DEF Typed, Profiles
<1>3. Fresh'
  BY <1>0, <1>1, Names DEF Typed, Fresh, NamesAreApart
<1>4. Course'
  BY <1>0, <1>1, <1>11, <1>12, <1>13, Names DEF Course, Linked, At, None, Accounted, Vouched
<1>5. PICK o \in origin, u \in owed : Under(o, u)
  BY <1>0, <1>1 DEF Attempt, Busy, InProgress
<1>6. Under(o, u)'
  <2>1. Base(o)' /\ Origin(o)' /\ Owes(o, u)'
    BY <1>0, <1>1, <1>5, <1>11, <1>12, <1>13, Names DEF Typed, Under, Base, Origin, Owes, InStore,
         StoreExists, Stage, At, None, Tmp
  <2>2. Stage(o)'
    <3>1. /\ job.at = "Moving" /\ job'.at = "Moving" /\ job'.dir = job.dir /\ job'.kept = job.kept /\ job'.storeNew = job.storeNew
          /\ job'.profileNew = job.profileNew /\ profile' = profile /\ manifest' = manifest
             /\ things' = things
      BY <1>1
    <3> QED BY <1>5, <1>11, <1>13, <3>1 DEF Under, Stage, InProgress, At, UntilStore, FromStore, HasStore, NoProfile
  <2> QED BY <1>1, <1>5, <2>1, <2>2 DEF Under, At
<1>7. Attempt'
  BY <1>1, <1>5, <1>6 DEF Attempt, Quiet, Busy, InProgress, UndoneIsAsBefore, At, Under
<1> QED BY <1>0, <1>2, <1>3, <1>4, <1>7 DEF ProvisionInv, NamesAreApart, Temps, Things

(* Now it is sealed.                                                       *)
LEMMA SealStep ==
  ASSUME ProvisionInv, Seal
  PROVE  ProvisionInv'
<1>0. NamesAreApart /\ Typed /\ Fresh /\ Course /\ Attempt /\ job \in Jobs
  BY DEF ProvisionInv, Typed
<1>1. /\ job.at = "Moving" /\ job'.at = "Moving"
      /\ job'.got = job.got /\ job'.good = job.good /\ job'.dir = job.dir /\ job'.entry = job.entry
         /\ job'.isNew = job.isNew /\ job'.storeNew = job.storeNew
         /\ job'.profileNew = job.profileNew /\ job'.kept = job.kept /\ job'.left = job.left
         /\ job'.failed = job.failed /\ job'.recovered = job.recovered
      /\ things' = things /\ scratch' = scratch /\ manifest' = manifest /\ registered' = registered
         /\ profile' = profile /\ owed' = owed /\ origin' = origin /\ attempts' = attempts
      /\ job.entry # None /\ job.entry \notin scratch[job.dir].tree /\ store[job.entry] = "new"
      /\ store' = [store EXCEPT ![job.entry] = "sealed"]
  BY <1>0 DEF Seal, At, Jobs, Goes, Trouble, Idle, disk
<1>9. StoreExists /\ job.dir \in Scratch /\ manifest = job.dir /\ manifest # None
  <2>1. StoreExists
    BY <1>0, <1>1 DEF Attempt, Under, Stage, HasStore, FromStore, Busy, InProgress
  <2> QED BY <1>0, <1>1, <2>1, Names DEF Course, None
<1>11. /\ StoreExists /\ job.dir \in Scratch /\ DOMAIN store \subseteq Entries \cup {"user"} /\ InStore = DOMAIN store
       /\ store \in [DOMAIN store -> {"new", "sealed"}] /\ manifest = job.dir /\ Linked(job.dir)
          /\ manifest # None
       /\ scratch[job.dir].tree \subseteq Entries /\ scratch[job.dir] \in Dirs
  <2>1. scratch[job.dir] \in Dirs
    BY <1>0, <1>9 DEF Typed
  <2>2. scratch[job.dir].tree \subseteq Entries
    BY <2>1 DEF Dirs
  <2>3. Linked(job.dir)
    BY <1>0, <1>9 DEF Course
  <2> QED BY <1>0, <1>9, <2>1, <2>2, <2>3 DEF Typed, Stored, InStore
<1>105. job.entry \in DOMAIN store
  BY <1>0, <1>1 DEF Course, At
<1>10. job' \in Jobs
  BY <1>0, <1>1 DEF Seal, At, Jobs, Goes, InProgress, Busy, Quiet
<1>12. /\ DOMAIN store' = DOMAIN store /\ store'[job.entry] = "sealed"
       /\ (\A x \in DOMAIN store' : x # job.entry => store'[x] = store[x])
  BY <1>1, <1>105, <1>11
<1>125. store' \in [DOMAIN store' -> {"new", "sealed"}]
  BY <1>1, <1>11
<1>13. StoreExists' /\ InStore' = DOMAIN store' /\ DOMAIN store' \subseteq Entries \cup {"user"}
  BY <1>0, <1>11, <1>12, NotAbsent DEF StoreExists, InStore
<1>14. Stored'
  BY <1>12, <1>125, <1>13 DEF Stored
<1>2. Typed'
  BY <1>0, <1>1, <1>10, <1>14, Names DEF Typed, Profiles
<1>3. Fresh'
  BY <1>0, <1>1, Names DEF Typed, Fresh, NamesAreApart
<1>4. Course'
  BY <1>0, <1>1, <1>11, <1>12, <1>13, Names DEF Course, Linked, At, None, Accounted, Vouched
<1>5. PICK o \in origin, u \in owed : Under(o, u)
  BY <1>0, <1>1 DEF Attempt, Busy, InProgress
<1>6. Under(o, u)'
  <2>1. Base(o)' /\ Origin(o)' /\ Owes(o, u)'
    BY <1>0, <1>1, <1>5, <1>11, <1>12, <1>13, Names DEF Typed, Under, Base, Origin, Owes, InStore,
         StoreExists, Stage, At, None, Tmp
  <2>2. Stage(o)'
    BY <1>0, <1>1, <1>5, <1>11, <1>13, Names DEF Under, Stage, InProgress, At, UntilStore,
         FromStore, HasStore, NoStore, NoProfile, HasProfile, StoreExists
  <2> QED BY <1>1, <1>5, <2>1, <2>2 DEF Under, At
<1>7. Attempt'
  BY <1>1, <1>5, <1>6 DEF Attempt, Quiet, Busy, InProgress, UndoneIsAsBefore, At, Under
<1> QED BY <1>0, <1>2, <1>3, <1>4, <1>7 DEF ProvisionInv, NamesAreApart, Temps, Things

(* So what is linked to is sealed.                                         *)
LEMMA BacklinkStep ==
  ASSUME ProvisionInv, Backlink
  PROVE  ProvisionInv'
<1>0. NamesAreApart /\ Typed /\ Fresh /\ Course /\ Attempt /\ job \in Jobs
  BY DEF ProvisionInv, Typed
<1>1. /\ job.at = "Moving" /\ job'.at = "Moving"
      /\ job'.got = job.got /\ job'.good = job.good /\ job'.dir = job.dir /\ job'.entry = None
         /\ job'.isNew = job.isNew /\ job'.storeNew = job.storeNew
         /\ job'.profileNew = job.profileNew /\ job'.paths = job.paths /\ job'.kept = job.kept
         /\ job'.left = job.left /\ job'.failed = job.failed /\ job'.recovered = job.recovered
      /\ things' = things /\ manifest' = manifest /\ store' = store /\ registered' = registered
         /\ profile' = profile /\ owed' = owed /\ origin' = origin /\ attempts' = attempts
      /\ job.entry # None /\ job.entry \notin scratch[job.dir].tree /\ store[job.entry] = "sealed"
      /\ scratch' = [scratch EXCEPT ![job.dir].links = @ \cup {job.entry}]
  BY <1>0 DEF Backlink, At, Jobs, Goes, Trouble, Idle, disk
<1>9. StoreExists /\ job.dir \in Scratch /\ manifest = job.dir /\ manifest # None
  <2>1. StoreExists
    BY <1>0, <1>1 DEF Attempt, Under, Stage, HasStore, FromStore, Busy, InProgress
  <2> QED BY <1>0, <1>1, <2>1, Names DEF Course, None
<1>11. /\ StoreExists /\ job.dir \in Scratch /\ DOMAIN store \subseteq Entries \cup {"user"} /\ InStore = DOMAIN store
       /\ store \in [DOMAIN store -> {"new", "sealed"}] /\ manifest = job.dir /\ Linked(job.dir)
          /\ manifest # None
       /\ scratch[job.dir].tree \subseteq Entries /\ scratch[job.dir] \in Dirs
  <2>1. scratch[job.dir] \in Dirs
    BY <1>0, <1>9 DEF Typed
  <2>2. scratch[job.dir].tree \subseteq Entries
    BY <2>1 DEF Dirs
  <2>3. Linked(job.dir)
    BY <1>0, <1>9 DEF Course
  <2> QED BY <1>0, <1>9, <2>1, <2>2, <2>3 DEF Typed, Stored, InStore
<1>10. job' \in Jobs
  BY <1>0, <1>1 DEF Backlink, At, Jobs, Goes, InProgress, Busy, Quiet
<1>13. StoreExists' /\ InStore' = DOMAIN store' /\ Stored'
  BY <1>0, <1>1, <1>11 DEF StoreExists, InStore, Typed, Stored
<1>12. /\ scratch' \in [Scratch -> Dirs] /\ scratch'[job.dir].tree = scratch[job.dir].tree
       /\ scratch'[job.dir].links = scratch[job.dir].links \cup {job.entry}
  <2>1. scratch[job.dir] \in Dirs /\ scratch[job.dir].links \cup {job.entry} \in SUBSET Entries
    BY <1>0, <1>1, <1>11 DEF Dirs, Jobs
  <2>2. [scratch[job.dir] EXCEPT !.links = @ \cup {job.entry}] \in Dirs
    BY <2>1 DEF Dirs
  <2>3. scratch' = [scratch EXCEPT ![job.dir] = [scratch[job.dir] EXCEPT !.links = @ \cup {job.entry}]]
    BY <1>1
  <2>4. scratch' \in [Scratch -> Dirs] /\ scratch'[job.dir] = [scratch[job.dir] EXCEPT !.links = @ \cup {job.entry}]
    BY <1>0, <1>11, <2>2, <2>3 DEF Typed
  <2>5. scratch'[job.dir].tree = scratch[job.dir].tree /\ scratch'[job.dir].links = scratch[job.dir].links \cup {job.entry}
    BY <2>1, <2>4 DEF Dirs
  <2> QED BY <2>4, <2>5
<1>2. Typed'
  BY <1>0, <1>1, <1>10, <1>13, <1>12, Names DEF Typed, Profiles
<1>3. Fresh'
  BY <1>0, <1>1, Names DEF Typed, Fresh, NamesAreApart
<1>4. Course'
  BY <1>0, <1>1, <1>11, <1>12, <1>13, Names DEF Course, Linked, At, None, Accounted, Vouched
<1>5. PICK o \in origin, u \in owed : Under(o, u)
  BY <1>0, <1>1 DEF Attempt, Busy, InProgress
<1>6. Under(o, u)'
  <2>1. Base(o)' /\ Origin(o)' /\ Owes(o, u)'
    BY <1>0, <1>1, <1>5, <1>11, <1>12, <1>13, Names DEF Typed, Under, Base, Origin, Owes, InStore,
         StoreExists, Stage, At, None, Tmp
  <2>2. Stage(o)'
    <3>1. /\ job.at = "Moving" /\ job'.at = "Moving" /\ job'.dir = job.dir /\ job'.kept = job.kept /\ job'.storeNew = job.storeNew
          /\ job'.profileNew = job.profileNew /\ profile' = profile /\ manifest' = manifest
             /\ things' = things
      BY <1>1
    <3> QED BY <1>5, <1>11, <1>13, <3>1 DEF Under, Stage, InProgress, At, UntilStore, FromStore, HasStore, NoProfile
  <2> QED BY <1>1, <1>5, <2>1, <2>2 DEF Under, At
<1>7. Attempt'
  BY <1>1, <1>5, <1>6 DEF Attempt, Quiet, Busy, InProgress, UndoneIsAsBefore, At, Under
<1> QED BY <1>0, <1>2, <1>3, <1>4, <1>7 DEF ProvisionInv, NamesAreApart, Temps, Things

(* A link for each of the two packages, and for all that this attempt     *)
(* moved: what it vouches for is sealed.                                   *)
LEMMA ResolvedStep ==
  ASSUME ProvisionInv, At("Moving"), job.entry = None, scratch[job.dir].tree = {},
         Looked(scratch[job.dir].links), Goes("Loading"),
         UNCHANGED <<things, scratch, manifest, store, registered, profile, owed, origin, attempts>>
  PROVE  ProvisionInv'
<1>0. NamesAreApart /\ Typed /\ Fresh /\ Course /\ Attempt /\ job \in Jobs
  BY DEF ProvisionInv, Typed
<1>1. /\ job.at = "Moving" /\ job'.at = "Loading"
      /\ job'.got = job.got /\ job'.good = job.good /\ job'.dir = job.dir /\ job'.entry = job.entry
         /\ job'.isNew = job.isNew /\ job'.storeNew = job.storeNew
         /\ job'.profileNew = job.profileNew /\ job'.paths = job.paths /\ job'.kept = job.kept
         /\ job'.left = job.left /\ job'.failed = job.failed /\ job'.recovered = job.recovered
      /\ job.entry = None /\ scratch[job.dir].tree = {} /\ Resolved \subseteq scratch[job.dir].links
      /\ things' = things /\ scratch' = scratch /\ manifest' = manifest /\ store' = store
         /\ registered' = registered /\ profile' = profile /\ owed' = owed /\ origin' = origin
         /\ attempts' = attempts
  BY <1>0 DEF At, Jobs, Goes, Trouble, Idle, disk, Looked
<1>9. StoreExists /\ job.dir \in Scratch /\ manifest = job.dir /\ manifest # None
  <2>1. StoreExists
    BY <1>0, <1>1 DEF Attempt, Under, Stage, HasStore, FromStore, Busy, InProgress
  <2> QED BY <1>0, <1>1, <2>1, Names DEF Course, None
<1>11. /\ StoreExists /\ job.dir \in Scratch /\ DOMAIN store \subseteq Entries \cup {"user"} /\ InStore = DOMAIN store
       /\ store \in [DOMAIN store -> {"new", "sealed"}] /\ manifest = job.dir /\ Linked(job.dir)
          /\ manifest # None
       /\ scratch[job.dir].tree \subseteq Entries /\ scratch[job.dir] \in Dirs
  <2>1. scratch[job.dir] \in Dirs
    BY <1>0, <1>9 DEF Typed
  <2>2. scratch[job.dir].tree \subseteq Entries
    BY <2>1 DEF Dirs
  <2>3. Linked(job.dir)
    BY <1>0, <1>9 DEF Course
  <2> QED BY <1>0, <1>9, <2>1, <2>2, <2>3 DEF Typed, Stored, InStore
<1>10. job' \in Jobs
  BY <1>0, <1>1 DEF At, Jobs, Goes, InProgress, Busy, Quiet
<1>13. StoreExists' /\ InStore' = DOMAIN store' /\ Stored'
  BY <1>0, <1>1, <1>11 DEF StoreExists, InStore, Typed, Stored
<1>12. \A e \in Vouched : e \in DOMAIN store => store[e] = "sealed"
  <2>1. Vouched \subseteq scratch[job.dir].links
    BY <1>0, <1>1, Names DEF Course, Accounted, Vouched, None
  <2> QED BY <1>11, <2>1 DEF Linked
<1>2. Typed'
  BY <1>0, <1>1, <1>10, <1>13, Names DEF Typed, Profiles
<1>3. Fresh'
  BY <1>0, <1>1, Names DEF Typed, Fresh, NamesAreApart
<1>4. Course'
  BY <1>0, <1>1, <1>11, <1>12, <1>13, Names DEF Course, Linked, At, None, Sealed, Accounted, Vouched
<1>5. PICK o \in origin, u \in owed : Under(o, u)
  BY <1>0, <1>1 DEF Attempt, Busy, InProgress
<1>6. Under(o, u)'
  <2>1. Base(o)' /\ Origin(o)' /\ Owes(o, u)'
    BY <1>0, <1>1, <1>5, <1>11, <1>12, <1>13, Names DEF Typed, Under, Base, Origin, Owes, InStore,
         StoreExists, Stage, At, None, Tmp
  <2>2. Stage(o)'
    BY <1>0, <1>1, <1>5, <1>11, <1>13, Names DEF Under, Stage, InProgress, At, UntilStore,
         FromStore, HasStore, NoStore, NoProfile, HasProfile, StoreExists
  <2> QED BY <1>1, <1>5, <2>1, <2>2 DEF Under, At
<1>7. Attempt'
  BY <1>1, <1>5, <1>6 DEF Attempt, Quiet, Busy, InProgress, UndoneIsAsBefore, At, Under
<1> QED BY <1>0, <1>2, <1>3, <1>4, <1>7 DEF ProvisionInv, NamesAreApart, Temps, Things

(* The paths are registered,                                               *)
LEMMA LoadDbStep ==
  ASSUME ProvisionInv, LoadDb
  PROVE  ProvisionInv'
<1>0. NamesAreApart /\ Typed /\ Fresh /\ Course /\ Attempt /\ job \in Jobs
  BY DEF ProvisionInv, Typed
<1>1. /\ job.at = "Loading" /\ job'.at = "Verifying"
      /\ job'.got = job.got /\ job'.good = job.good /\ job'.dir = job.dir /\ job'.entry = job.entry
         /\ job'.isNew = job.isNew /\ job'.storeNew = job.storeNew
         /\ job'.profileNew = job.profileNew /\ job'.paths = job.paths /\ job'.kept = job.kept
         /\ job'.left = job.left /\ job'.failed = job.failed /\ job'.recovered = job.recovered
      /\ things' = things \cup {"db"} /\ scratch' = scratch /\ manifest' = manifest
         /\ store' = store /\ registered' = registered \cup Entries /\ profile' = profile
         /\ owed' = owed /\ origin' = origin /\ attempts' = attempts
  BY <1>0 DEF LoadDb, At, Jobs, Goes, Trouble, Idle, disk
<1>10. job' \in Jobs
  BY <1>0, <1>1 DEF LoadDb, At, Jobs, Goes, InProgress, Busy, Quiet
<1>2. Typed'
  BY <1>0, <1>1, <1>10, Names DEF Typed, Profiles, Stored, StoreExists, InStore
<1>3. Fresh'
  BY <1>0, <1>1, Names DEF Typed, Fresh, NamesAreApart
<1>4. Course'
  BY <1>0, <1>1, Names DEF Course, Linked, InStore, StoreExists, At, Whole, Sealed, None, Typed, Accounted, Vouched
<1>5. PICK o \in origin, u \in owed : Under(o, u)
  BY <1>0, <1>1 DEF Attempt, Busy, InProgress
<1>6. Under(o, u)'
  <2>1. Base(o)' /\ Origin(o)' /\ Owes(o, u)'
    BY <1>0, <1>1, <1>5, Names DEF Typed, Under, Base, Origin, Owes, InStore, StoreExists, Stage,
         At, None, Tmp
  <2>2. Stage(o)'
    BY <1>0, <1>1, <1>5, Names DEF Under, Stage, InProgress, At, UntilStore, FromStore, HasStore,
         NoStore, NoProfile, HasProfile, StoreExists
  <2> QED BY <1>1, <1>5, <2>1, <2>2 DEF Under, At
<1>7. Attempt'
  BY <1>1, <1>5, <1>6 DEF Attempt, Quiet, Busy, InProgress, UndoneIsAsBefore, At, Under
<1> QED BY <1>0, <1>2, <1>3, <1>4, <1>7 DEF ProvisionInv, NamesAreApart, Temps, Things

(* and no other path is that the store lacks,                              *)
LEMMA ForgetStep ==
  ASSUME ProvisionInv, ForgetVanished
  PROVE  ProvisionInv'
<1>0. NamesAreApart /\ Typed /\ Fresh /\ Course /\ Attempt /\ job \in Jobs
  BY DEF ProvisionInv, Typed
<1>1. /\ job.at = "Verifying" /\ job'.at = "Activating"
      /\ job'.got = job.got /\ job'.good = job.good /\ job'.dir = job.dir /\ job'.entry = job.entry
         /\ job'.isNew = job.isNew /\ job'.storeNew = job.storeNew
         /\ job'.profileNew = job.profileNew /\ job'.paths = job.paths /\ job'.kept = job.kept
         /\ job'.left = job.left /\ job'.failed = job.failed /\ job'.recovered = job.recovered
      /\ things' = things /\ scratch' = scratch /\ manifest' = manifest /\ store' = store
         /\ registered' = registered \cap DOMAIN store /\ profile' = profile /\ owed' = owed
         /\ origin' = origin /\ attempts' = attempts
  BY <1>0 DEF ForgetVanished, At, Jobs, Goes, Trouble, Idle, disk
<1>10. job' \in Jobs
  BY <1>0, <1>1 DEF ForgetVanished, At, Jobs, Goes, InProgress, Busy, Quiet
<1>2. Typed'
  BY <1>0, <1>1, <1>10, Names DEF Typed, Profiles, Stored, StoreExists, InStore
<1>3. Fresh'
  BY <1>0, <1>1, Names DEF Typed, Fresh, NamesAreApart
<1>4. Course'
  BY <1>0, <1>1, Names DEF Course, Linked, InStore, StoreExists, At, Whole, Sealed, None, Typed, Accounted, Vouched
<1>5. PICK o \in origin, u \in owed : Under(o, u)
  BY <1>0, <1>1 DEF Attempt, Busy, InProgress
<1>6. Under(o, u)'
  <2>1. Base(o)' /\ Origin(o)' /\ Owes(o, u)'
    BY <1>0, <1>1, <1>5, Names DEF Typed, Under, Base, Origin, Owes, InStore, StoreExists, Stage,
         At, None, Tmp
  <2>2. Stage(o)'
    BY <1>0, <1>1, <1>5, Names DEF Under, Stage, InProgress, At, UntilStore, FromStore, HasStore,
         NoStore, NoProfile, HasProfile, StoreExists
  <2> QED BY <1>1, <1>5, <2>1, <2>2 DEF Under, At
<1>7. Attempt'
  BY <1>1, <1>5, <1>6 DEF Attempt, Quiet, Busy, InProgress, UndoneIsAsBefore, At, Under
<1> QED BY <1>0, <1>2, <1>3, <1>4, <1>7 DEF ProvisionInv, NamesAreApart, Temps, Things

(* so they are in the store when the profile takes them.                   *)
LEMMA ActivateStep ==
  ASSUME ProvisionInv, Activate
  PROVE  ProvisionInv'
<1>0. NamesAreApart /\ Typed /\ Fresh /\ Course /\ Attempt /\ job \in Jobs
  BY DEF ProvisionInv, Typed
<1>1. /\ job.at = "Activating" /\ job'.at = "Tidying"
         /\ job' = [job EXCEPT !.at = "Tidying", !.profileNew = ~ProfileExists]
      /\ job'.dir = job.dir /\ job'.entry = job.entry /\ job'.storeNew = job.storeNew
         /\ (job'.profileNew <=> ~ProfileExists)
      /\ job'.kept = job.kept /\ job'.paths = job.paths /\ job'.recovered = job.recovered
      /\ things' = things \cup {"generation"} /\ scratch' = scratch /\ manifest' = manifest
         /\ store' = store
      /\ registered' = registered /\ profile' = "ours" /\ owed' = owed
         /\ origin' = {[o EXCEPT !.repointed = TRUE] : o \in origin}
      /\ attempts' = attempts /\ Entries \subseteq registered
  BY <1>0 DEF Activate, At, Jobs
<1>11. job' \in Jobs
  BY <1>0, <1>1 DEF Jobs, InProgress, Busy
<1>2. Typed'
  BY <1>0, <1>1, <1>11, Names DEF Typed, Profiles, Stored, StoreExists
<1>3. Fresh'
  BY <1>0, <1>1 DEF Typed, Fresh, NamesAreApart
<1>4. Course'
  BY <1>0, <1>1 DEF Course, Linked, InStore, StoreExists, At, Whole, Sealed, Accounted, Vouched
<1>5. PICK o \in origin, u \in owed : Under(o, u)
  BY <1>0, <1>1 DEF Attempt, Busy, InProgress
<1>55. PICK r : r = [o EXCEPT !.repointed = TRUE]
  OBVIOUS
<1>56. /\ r \in Origins /\ r.things = o.things /\ r.manifest = o.manifest /\ r.store = o.store
       /\ (r.exists <=> o.exists) /\ r.profile = o.profile /\ r.repointed /\ origin' = {r}
  <2>1. o \in Origins /\ origin = {o}
    BY <1>5 DEF Under, Origin
  <2>2. origin' = {r}
    BY <1>1, <1>55, <2>1
  <2> QED BY <1>55, <2>1, <2>2 DEF Origins
<1>6. Under(r, u)'
  <2>1. Base(r)' /\ Origin(r)' /\ Owes(r, u)'
    BY <1>0, <1>1, <1>5, <1>56 DEF Under, Base, Origin, Owes, InStore, StoreExists, Tmp, None
  <2>2. Stage(r)'
    BY <1>0, <1>1, <1>5, <1>56 DEF Under, Stage, InProgress, At, UntilStore, FromStore, HasStore,
         NoProfile, HasProfile, Made, StoreExists, ProfileExists, Typed, Profiles, None
  <2> QED BY <1>1, <1>5, <1>56, <2>1, <2>2 DEF Under, At
<1>7. Attempt'
  BY <1>1, <1>5, <1>56, <1>6 DEF Attempt, Quiet, Busy, InProgress, UndoneIsAsBefore, At, Under
<1> QED BY <1>0, <1>2, <1>3, <1>4, <1>7 DEF ProvisionInv, NamesAreApart, Temps, Things

(* The manifest goes,                                                      *)
LEMMA TidyManifestStep ==
  ASSUME ProvisionInv, At("Tidying"), things' = things \ {"manifest"}, manifest' = None,
         UNCHANGED job, UNCHANGED <<scratch, store, registered, profile, owed, origin, attempts>>
  PROVE  ProvisionInv'
<1>0. NamesAreApart /\ Typed /\ Fresh /\ Course /\ Attempt /\ job \in Jobs
  BY DEF ProvisionInv, Typed
<1>1. /\ job.at = "Tidying" /\ job'.at = "Tidying"
      /\ job'.got = job.got /\ job'.good = job.good /\ job'.dir = job.dir /\ job'.entry = job.entry
         /\ job'.isNew = job.isNew /\ job'.storeNew = job.storeNew
         /\ job'.profileNew = job.profileNew /\ job'.paths = job.paths /\ job'.kept = job.kept
         /\ job'.left = job.left /\ job'.failed = job.failed /\ job'.recovered = job.recovered
      /\ things' = things \ {"manifest"} /\ scratch' = scratch /\ manifest' = None /\ store' = store
         /\ registered' = registered /\ profile' = profile /\ owed' = owed /\ origin' = origin
         /\ attempts' = attempts
  BY <1>0 DEF At, Jobs, Goes, Trouble, Idle, disk
<1>10. job' \in Jobs
  BY <1>0, <1>1 DEF At, Jobs, Goes, InProgress, Busy, Quiet
<1>2. Typed'
  BY <1>0, <1>1, <1>10, Names DEF Typed, Profiles, Stored, StoreExists, InStore
<1>3. Fresh'
  BY <1>0, <1>1, Names DEF Typed, Fresh, NamesAreApart
<1>4. Course'
  BY <1>0, <1>1, Names DEF Course, Linked, InStore, StoreExists, At, Whole, Sealed, None, Typed, Accounted, Vouched
<1>5. PICK o \in origin, u \in owed : Under(o, u)
  BY <1>0, <1>1 DEF Attempt, Busy, InProgress
<1>6. Under(o, u)'
  <2>1. Base(o)' /\ Origin(o)' /\ Owes(o, u)'
    BY <1>0, <1>1, <1>5, Names DEF Typed, Under, Base, Origin, Owes, InStore, StoreExists, Stage,
         At, None, Tmp
  <2>2. Stage(o)'
    BY <1>0, <1>1, <1>5, Names DEF Under, Stage, InProgress, At, UntilStore, FromStore, HasStore,
         NoStore, NoProfile, HasProfile, StoreExists
  <2> QED BY <1>1, <1>5, <2>1, <2>2 DEF Under, At
<1>7. Attempt'
  BY <1>1, <1>5, <1>6 DEF Attempt, Quiet, Busy, InProgress, UndoneIsAsBefore, At, Under
<1> QED BY <1>0, <1>2, <1>3, <1>4, <1>7 DEF ProvisionInv, NamesAreApart, Temps, Things

(* and the directory,                                                      *)
LEMMA TidyDirStep ==
  ASSUME ProvisionInv, At("Tidying"), "manifest" \notin things, things' = things \ {job.dir},
         Emptied(job.dir), Goes("Listing"),
         UNCHANGED <<manifest, store, registered, profile, owed, origin, attempts>>
  PROVE  ProvisionInv'
<1>0. NamesAreApart /\ Typed /\ Fresh /\ Course /\ Attempt /\ job \in Jobs
  BY DEF ProvisionInv, Typed
<1>1. /\ job.at = "Tidying" /\ job'.at = "Listing"
      /\ job'.got = job.got /\ job'.good = job.good /\ job'.dir = job.dir /\ job'.entry = job.entry
         /\ job'.isNew = job.isNew /\ job'.storeNew = job.storeNew
         /\ job'.profileNew = job.profileNew /\ job'.paths = job.paths /\ job'.kept = job.kept
         /\ job'.left = job.left /\ job'.failed = job.failed /\ job'.recovered = job.recovered
      /\ things' = things \ {job.dir} /\ manifest' = manifest
         /\ store' = store /\ registered' = registered /\ profile' = profile /\ owed' = owed
         /\ origin' = origin /\ attempts' = attempts
      /\ "manifest" \notin things
  BY <1>0 DEF At, Jobs, Goes, Trouble, Idle, disk
<1>12. /\ scratch' \in [Scratch -> Dirs]
       /\ \A d \in Scratch : scratch'[d] = scratch[d] \/ (scratch'[d].tree = {} /\ scratch'[d].links = {})
  BY <1>0, EmptiedDirs DEF Typed
<1>10. job' \in Jobs
  BY <1>0, <1>1 DEF At, Jobs, Goes, InProgress, Busy, Quiet
<1>11. job.dir \in Scratch
  BY <1>0, <1>1 DEF Course
<1>2. Typed'
  BY <1>0, <1>1, <1>10, <1>11, <1>12, Names DEF Typed, Profiles, Stored, StoreExists, InStore
<1>3. Fresh'
  BY <1>0, <1>1, Names DEF Typed, Fresh, NamesAreApart
<1>4. Course'
  BY <1>0, <1>1, <1>11, <1>12, Names DEF Course, Linked, InStore, StoreExists, At, Whole, Sealed, None, Typed, Accounted, Vouched
<1>5. PICK o \in origin, u \in owed : Under(o, u)
  BY <1>0, <1>1 DEF Attempt, Busy, InProgress
<1>6. Under(o, u)'
  <2>1. Base(o)' /\ Origin(o)' /\ Owes(o, u)'
    BY <1>0, <1>1, <1>5, <1>11, Names DEF Typed, Under, Base, Origin, Owes, InStore, StoreExists,
         Stage, At, None, Tmp
  <2>2. Stage(o)'
    BY <1>0, <1>1, <1>5, Names DEF Under, Stage, InProgress, At, UntilStore, FromStore, HasStore,
         NoStore, NoProfile, HasProfile, StoreExists
  <2> QED BY <1>1, <1>5, <2>1, <2>2 DEF Under, At
<1>7. Attempt'
  BY <1>1, <1>5, <1>6 DEF Attempt, Quiet, Busy, InProgress, UndoneIsAsBefore, At, Under
<1> QED BY <1>0, <1>2, <1>3, <1>4, <1>7 DEF ProvisionInv, NamesAreApart, Temps, Things

(* or not.                                                                 *)
LEMMA TidyKeptStep ==
  ASSUME ProvisionInv, At("Tidying"), "manifest" \notin things, Goes("Listing"),
         UNCHANGED <<things, scratch, manifest, store, registered, profile, owed, origin, attempts>>
  PROVE  ProvisionInv'
<1>0. NamesAreApart /\ Typed /\ Fresh /\ Course /\ Attempt /\ job \in Jobs
  BY DEF ProvisionInv, Typed
<1>1. /\ job.at = "Tidying" /\ job'.at = "Listing"
      /\ job'.got = job.got /\ job'.good = job.good /\ job'.dir = job.dir /\ job'.entry = job.entry
         /\ job'.isNew = job.isNew /\ job'.storeNew = job.storeNew
         /\ job'.profileNew = job.profileNew /\ job'.paths = job.paths /\ job'.kept = job.kept
         /\ job'.left = job.left /\ job'.failed = job.failed /\ job'.recovered = job.recovered
      /\ things' = things /\ scratch' = scratch /\ manifest' = manifest /\ store' = store
         /\ registered' = registered /\ profile' = profile /\ owed' = owed /\ origin' = origin
         /\ attempts' = attempts
      /\ "manifest" \notin things
  BY <1>0 DEF At, Jobs, Goes, Trouble, Idle, disk
<1>10. job' \in Jobs
  BY <1>0, <1>1 DEF At, Jobs, Goes, InProgress, Busy, Quiet
<1>2. Typed'
  BY <1>0, <1>1, <1>10, Names DEF Typed, Profiles, Stored, StoreExists, InStore
<1>3. Fresh'
  BY <1>0, <1>1, Names DEF Typed, Fresh, NamesAreApart
<1>4. Course'
  BY <1>0, <1>1, Names DEF Course, Linked, InStore, StoreExists, At, Whole, Sealed, None, Typed, Accounted, Vouched
<1>5. PICK o \in origin, u \in owed : Under(o, u)
  BY <1>0, <1>1 DEF Attempt, Busy, InProgress
<1>6. Under(o, u)'
  <2>1. Base(o)' /\ Origin(o)' /\ Owes(o, u)'
    BY <1>0, <1>1, <1>5, Names DEF Typed, Under, Base, Origin, Owes, InStore, StoreExists, Stage,
         At, None, Tmp
  <2>2. Stage(o)'
    BY <1>0, <1>1, <1>5, Names DEF Under, Stage, InProgress, At, UntilStore, FromStore, HasStore,
         NoStore, NoProfile, HasProfile, StoreExists
  <2> QED BY <1>1, <1>5, <2>1, <2>2 DEF Under, At
<1>7. Attempt'
  BY <1>1, <1>5, <1>6 DEF Attempt, Quiet, Busy, InProgress, UndoneIsAsBefore, At, Under
<1> QED BY <1>0, <1>2, <1>3, <1>4, <1>7 DEF ProvisionInv, NamesAreApart, Temps, Things

(* A step fails: which ones went before is known by what is new.           *)
LEMMA FailingStep ==
  ASSUME ProvisionInv, job.at \in InProgress, job' = [job EXCEPT !.at = "Failing", !.failed = TRUE],
         UNCHANGED <<disk, owed, origin, attempts>>
  PROVE  ProvisionInv'
<1>0. NamesAreApart /\ Typed /\ Fresh /\ Course /\ Attempt /\ job \in Jobs
  BY DEF ProvisionInv, Typed
<1>1. /\ job.at \in InProgress /\ job'.at = "Failing"
      /\ job'.got = job.got /\ job'.good = job.good /\ job'.dir = job.dir /\ job'.entry = job.entry
         /\ job'.isNew = job.isNew /\ job'.storeNew = job.storeNew
         /\ job'.profileNew = job.profileNew /\ job'.paths = job.paths /\ job'.kept = job.kept
         /\ job'.left = job.left /\ (job'.failed <=> TRUE) /\ job'.recovered = job.recovered
      /\ things' = things /\ scratch' = scratch /\ manifest' = manifest /\ store' = store
         /\ registered' = registered /\ profile' = profile /\ owed' = owed /\ origin' = origin
         /\ attempts' = attempts
  BY <1>0 DEF At, Jobs, Goes, Trouble, Idle, disk
<1>10. job' \in Jobs
  BY <1>0, <1>1 DEF At, Jobs, Goes, InProgress, Busy, Quiet
<1>2. Typed'
  BY <1>0, <1>1, <1>10, Names DEF Typed, Profiles, Stored, StoreExists, InStore, InProgress
<1>3. Fresh'
  BY <1>0, <1>1, Names DEF Typed, Fresh, NamesAreApart
<1>4. Course'
  BY <1>0, <1>1, Names DEF Course, Linked, InStore, StoreExists, At, Whole, Sealed, None, Typed, Accounted, Vouched
<1>5. PICK o \in origin, u \in owed : Under(o, u)
  BY <1>0, <1>1 DEF Attempt, Busy, InProgress
<1>6. Under(o, u)'
  <2>1. Base(o)' /\ Origin(o)' /\ Owes(o, u)'
    BY <1>0, <1>1, <1>5, Names DEF Typed, Under, Base, Origin, Owes, InStore, StoreExists, Stage,
         At, None, Tmp, InProgress
  <2>2. Stage(o)'
    BY <1>0, <1>1, <1>5, Names DEF Under, Stage, InProgress, At, UntilStore, FromStore, HasStore,
         NoStore, NoProfile, HasProfile, StoreExists
  <2> QED BY <1>1, <1>5, <2>1, <2>2 DEF Under, At
<1>7. Attempt'
  BY <1>1, <1>5, <1>6 DEF Attempt, Quiet, Busy, InProgress, UndoneIsAsBefore, At, Under
<1> QED BY <1>0, <1>2, <1>3, <1>4, <1>7 DEF ProvisionInv, NamesAreApart, Temps, Things

-----------------------------------------------------------------------------
(* 5. Removing.                                                            *)

(* What is to be removed: the profile and the store only if they are new.  *)
LEMMA AllOfIt ==
  ASSUME NamesAreApart, NEW j, j.paths \subseteq Entries, things \subseteq Things
  PROVE  /\ "profile" \in All(j) <=> j.profileNew
         /\ "store" \in All(j) <=> j.storeNew
         /\ All(j) = created(j) \cup added(j.kept, things)
         /\ created(j) \cap Things = {} /\ All(j) \subseteq Removable
<1>1. "profile" \notin Entries /\ "profile" \notin Things /\ "store" \notin Entries
         /\ "store" \notin Things
      /\ Entries \cap Things = {}
  BY Names
<1>2. All(j) = created(j) \cup added(j.kept, things)
  BY DEF All
<1>3. "profile" \in created(j) <=> j.profileNew
  BY <1>1 DEF created
<1>4. "store" \in created(j) <=> j.storeNew
  BY <1>1 DEF created
<1>5. created(j) \subseteq Entries \cup {"profile", "store"}
  BY DEF created
<1>6. added(j.kept, things) \subseteq Things
  BY DEF added
<1> QED BY <1>1, <1>2, <1>3, <1>4, <1>5, <1>6 DEF Removable

(* The undo is written again: it is still enough.                          *)
LEMMA PerformedStep ==
  ASSUME ProvisionInv, Performed
  PROVE  ProvisionInv'
<1>0. NamesAreApart /\ Typed /\ Fresh /\ Course /\ Attempt /\ job \in Jobs
  BY DEF ProvisionInv, Typed
<1>1. /\ job.at = "Listing" /\ job'.at = "Installed"
      /\ job' = [Idle EXCEPT !.at = "Installed", !.recovered = job.recovered] /\ job'.dir = None /\ job'.entry = None
         /\ ~job'.storeNew /\ ~job'.profileNew /\ job'.recovered = job.recovered
      /\ things' = things /\ scratch' = scratch /\ manifest' = manifest /\ store' = store
         /\ registered' = registered /\ profile' = profile /\ origin' = origin
         /\ attempts' = attempts
      /\ owed' = {[kept |-> job.kept, created |-> All(job)]}
  BY <1>0 DEF Performed, At, Jobs, Goes, Trouble, Idle, disk
<1>10. job' \in Jobs
  <2>1. "Installed" \in Busy \cup Quiet /\ job.recovered \in BOOLEAN
    BY <1>0 DEF Busy, Jobs
  <2>2. PICK j : j = [Idle EXCEPT !.at = "Installed"]
    OBVIOUS
  <2>3. j \in Jobs
    BY <2>1, <2>2, IdleJob
  <2>4. job' = [j EXCEPT !.recovered = job.recovered]
    BY <1>1, <2>2
  <2> QED BY <2>1, <2>3, <2>4 DEF Jobs
<1>2. Typed'
  BY <1>0, <1>1, <1>10, Names DEF Typed, Profiles, Stored, StoreExists, InStore
<1>3. Fresh'
  BY <1>0, <1>1, Names DEF Typed, Fresh, NamesAreApart
<1>4. Course'
  BY <1>0, <1>1, Names DEF Course, Linked, InStore, StoreExists, At, Whole, Sealed, None, Typed, Accounted, Vouched
<1>5. PICK o \in origin, u \in owed : Under(o, u)
  BY <1>0, <1>1 DEF Attempt, Busy, InProgress
<1>55. PICK r : r = [kept |-> job.kept, created |-> All(job)]
  OBVIOUS
<1>56. r.kept = o.things /\ r.created = All(job) /\ owed' = {r}
  BY <1>1, <1>5, <1>55 DEF Under, Stage, InProgress
<1>57. Owes(o, r)
  <2>1. (job.storeNew <=> ~o.exists) /\ (job.profileNew <=> o.profile \in Made) /\ job.kept = o.things /\ o.things \subseteq Things
    BY <1>1, <1>5 DEF Under, Stage, HasStore, HasProfile, FromStore, InProgress, Origin
  <2>2. job.paths \subseteq Entries /\ things \subseteq Things
    BY <1>0 DEF Jobs, Typed
  <2>3. r.created \cap o.things = {}
    BY <1>0, <1>56, <2>1, <2>2, AllOfIt DEF added
  <2> QED BY <1>0, <1>56, <2>1, <2>2, <2>3, AllOfIt DEF Owes
<1>6. Under(o, r)'
  <2>1. Base(o)' /\ Origin(o)' /\ Owes(o, r)'
    BY <1>0, <1>1, <1>5, <1>57, Names DEF Typed, Under, Base, Origin, Owes, InStore, StoreExists, Tmp
  <2>2. Stage(o)'
    BY <1>1 DEF Stage, InProgress, At, UntilStore, FromStore
  <2> QED BY <1>1, <1>5, <1>56, <2>1, <2>2 DEF Under, At
<1>7. Attempt'
  BY <1>1, <1>56, <1>6 DEF Attempt, Quiet, Busy, InProgress, UndoneIsAsBefore, At, Under
<1> QED BY <1>0, <1>2, <1>3, <1>4, <1>7 DEF ProvisionInv, NamesAreApart, Temps, Things

(* What a failed provision removes is enough too.                          *)
LEMMA CleanUpStep ==
  ASSUME ProvisionInv, CleanUp
  PROVE  ProvisionInv'
<1>0. NamesAreApart /\ Typed /\ Fresh /\ Course /\ Attempt /\ job \in Jobs
  BY DEF ProvisionInv, Typed
<1>1. /\ job.at = "Failing" /\ job'.at = "Removing"
      /\ job'.got = job.got /\ job'.good = job.good /\ job'.dir = job.dir /\ job'.entry = job.entry
         /\ job'.isNew = job.isNew /\ job'.storeNew = job.storeNew
         /\ job'.profileNew = job.profileNew /\ job'.paths = job.paths /\ job'.kept = job.kept
         /\ job'.left = All(job) /\ job'.failed = job.failed /\ job'.recovered = job.recovered
      /\ things' = things /\ scratch' = scratch /\ manifest' = manifest /\ store' = store
         /\ registered' = registered /\ profile' = profile /\ owed' = owed /\ origin' = origin
         /\ attempts' = attempts
  BY <1>0 DEF CleanUp, At, Jobs, Goes, Trouble, Idle, disk
<1>9. job.paths \subseteq Entries /\ things \subseteq Things /\ All(job) \subseteq Removable
  BY <1>0 DEF Jobs, Typed, All, created, added, Removable
<1>10. job' \in Jobs
  BY <1>0, <1>1, <1>9 DEF CleanUp, At, Jobs, Goes, InProgress, Busy, Quiet
<1>2. Typed'
  BY <1>0, <1>1, <1>10, Names DEF Typed, Profiles, Stored, StoreExists, InStore
<1>3. Fresh'
  BY <1>0, <1>1, Names DEF Typed, Fresh, NamesAreApart
<1>4. Course'
  BY <1>0, <1>1, Names DEF Course, Linked, InStore, StoreExists, At, Whole, Sealed, None, Typed, Accounted, Vouched
<1>5. PICK o \in origin, u \in owed : Under(o, u)
  BY <1>0, <1>1 DEF Attempt, Busy, InProgress
<1>6. Under(o, u)'
  <2>1. Base(o)' /\ Origin(o)' /\ Owes(o, u)'
    BY <1>0, <1>1, <1>5, Names DEF Typed, Under, Base, Origin, Owes, InStore, StoreExists, Stage,
         At, None, Tmp
  <2>2. Stage(o)'
    BY <1>0, <1>1, <1>5, Names DEF Under, Stage, InProgress, At, UntilStore, FromStore, HasStore,
         NoStore, NoProfile, HasProfile, StoreExists
  <2>3. Clearing(o)'
    <3>1. /\ job.kept = o.things /\ o.things \subseteq Things /\ (NoStore(o) \/ HasStore(o)) /\ (NoProfile(o) \/ HasProfile(o))
      BY <1>1, <1>5 DEF Under, Stage, InProgress, Origin, At
    <3>2. things \subseteq o.things \cup All(job) /\ All(job) \cap o.things = {}
      BY <1>0, <1>9, <3>1, AllOfIt DEF added
    <3>3. "profile" \in All(job) <=> job.profileNew
      BY <1>0, <1>9, AllOfIt
    <3>4. "store" \in All(job) <=> job.storeNew
      BY <1>0, <1>9, AllOfIt
    <3>5. /\ "profile" \in All(job) => o.profile \in Made
          /\ o.profile \in Made /\ profile \notin {None, o.profile} => "profile" \in All(job)
      BY <3>1, <3>3 DEF NoProfile, HasProfile
    <3>6. ("store" \in All(job) => ~o.exists) /\ (~o.exists /\ StoreExists => "store" \in All(job))
      BY <3>1, <3>4 DEF NoStore, HasStore
    <3> QED BY <1>1, <3>2, <3>5, <3>6 DEF Clearing, StoreExists
  <2> QED BY <1>1, <1>5, <2>1, <2>2, <2>3 DEF Under, At
<1>7. Attempt'
  BY <1>1, <1>5, <1>6 DEF Attempt, Quiet, Busy, InProgress, UndoneIsAsBefore, At, Under
<1> QED BY <1>0, <1>2, <1>3, <1>4, <1>7 DEF ProvisionInv, NamesAreApart, Temps, Things

(* Nothing is owed any more.                                               *)
LEMMA CommitStep ==
  ASSUME ProvisionInv, Commit
  PROVE  ProvisionInv'
<1>0. NamesAreApart /\ Typed /\ Fresh /\ Course /\ Attempt /\ job \in Jobs
  BY DEF ProvisionInv, Typed
<1>1. /\ job.at = "Installed" /\ job'.at = "Committed"
      /\ job' = [Idle EXCEPT !.at = "Committed"] /\ job'.dir = None /\ job'.entry = None
         /\ ~job'.storeNew /\ ~job'.profileNew
      /\ things' = things /\ scratch' = scratch /\ manifest' = manifest /\ store' = store
         /\ registered' = registered /\ profile' = profile /\ owed' = {} /\ origin' = origin
         /\ attempts' = attempts
  BY <1>0 DEF Commit, At, Jobs, Goes, Trouble, Idle, disk
<1>10. job' \in Jobs
  BY <1>1, IdleJob DEF Quiet, Busy, InProgress
<1>2. Typed'
  BY <1>0, <1>1, <1>10, Names DEF Typed, Profiles, Stored, StoreExists, InStore
<1>3. Fresh'
  BY <1>0, <1>1, Names DEF Typed, Fresh, NamesAreApart
<1>4. Course'
  BY <1>0, <1>1, Names DEF Course, Linked, InStore, StoreExists, At, Whole, Sealed, None, Typed, Accounted, Vouched
<1>7. Attempt'
  BY <1>0, <1>1 DEF Attempt, Quiet, Busy, InProgress, UndoneIsAsBefore, At
<1> QED BY <1>0, <1>2, <1>3, <1>4, <1>7 DEF ProvisionInv, NamesAreApart, Temps, Things

(* Nor here, with something left.                                          *)
LEMMA WarnedStep ==
  ASSUME ProvisionInv, CleanUpFails
  PROVE  ProvisionInv'
<1>0. NamesAreApart /\ Typed /\ Fresh /\ Course /\ Attempt /\ job \in Jobs
  BY DEF ProvisionInv, Typed
<1>1. /\ job.at = "Removing" /\ job'.at = "Warned"
      /\ job' = [Idle EXCEPT !.at = "Warned"] /\ job'.dir = None /\ job'.entry = None
         /\ ~job'.storeNew /\ ~job'.profileNew
      /\ things' = things /\ scratch' = scratch /\ manifest' = manifest /\ store' = store
         /\ registered' = registered /\ profile' = profile /\ owed' = {} /\ origin' = origin
         /\ attempts' = attempts
  BY <1>0 DEF CleanUpFails, At, Jobs, Goes, Trouble, Idle, disk
<1>10. job' \in Jobs
  BY <1>1, IdleJob DEF Quiet, Busy, InProgress
<1>2. Typed'
  BY <1>0, <1>1, <1>10, Names DEF Typed, Profiles, Stored, StoreExists, InStore
<1>3. Fresh'
  BY <1>0, <1>1, Names DEF Typed, Fresh, NamesAreApart
<1>4. Course'
  BY <1>0, <1>1, Names DEF Course, Linked, InStore, StoreExists, At, Whole, Sealed, None, Typed, Accounted, Vouched
<1>7. Attempt'
  BY <1>0, <1>1 DEF Attempt, Quiet, Busy, InProgress, UndoneIsAsBefore, At
<1> QED BY <1>0, <1>2, <1>3, <1>4, <1>7 DEF ProvisionInv, NamesAreApart, Temps, Things

(* mix dies: only what the journal owes is known.                          *)
LEMMA RecoveringStep ==
  ASSUME ProvisionInv, job.at \in Busy, job' = [Idle EXCEPT !.at = "Recovering"],
         UNCHANGED <<disk, owed, origin, attempts>>
  PROVE  ProvisionInv'
<1>0. NamesAreApart /\ Typed /\ Fresh /\ Course /\ Attempt /\ job \in Jobs
  BY DEF ProvisionInv, Typed
<1>1. /\ job.at \in Busy /\ job'.at = "Recovering"
      /\ job' = [Idle EXCEPT !.at = "Recovering"] /\ job'.dir = None /\ job'.entry = None
         /\ ~job'.storeNew /\ ~job'.profileNew
      /\ things' = things /\ scratch' = scratch /\ manifest' = manifest /\ store' = store
         /\ registered' = registered /\ profile' = profile /\ owed' = owed /\ origin' = origin
         /\ attempts' = attempts
  BY <1>0 DEF At, Jobs, Goes, Trouble, Idle, disk
<1>10. job' \in Jobs
  BY <1>1, IdleJob DEF Quiet, Busy, InProgress
<1>2. Typed'
  BY <1>0, <1>1, <1>10, Names DEF Typed, Profiles, Stored, StoreExists, InStore
<1>3. Fresh'
  BY <1>0, <1>1, Names DEF Typed, Fresh, NamesAreApart
<1>4. Course'
  BY <1>0, <1>1, Names DEF Course, Linked, InStore, StoreExists, At, Whole, Sealed, None, Typed, Accounted, Vouched
<1>5. PICK o \in origin, u \in owed : Under(o, u)
  BY <1>0, <1>1 DEF Attempt, Busy, InProgress
<1>6. Under(o, u)'
  <2>1. Base(o)' /\ Origin(o)' /\ Owes(o, u)'
    BY <1>0, <1>1, <1>5, Names DEF Typed, Under, Base, Origin, Owes, InStore, StoreExists, Stage,
         At, None, Tmp
  <2>2. Stage(o)'
    BY <1>0, <1>1, <1>5, Names DEF Under, Stage, InProgress, At, UntilStore, FromStore, HasStore,
         NoStore, NoProfile, HasProfile, StoreExists
  <2> QED BY <1>1, <1>5, <2>1, <2>2 DEF Under, At
<1>7. Attempt'
  BY <1>1, <1>5, <1>6 DEF Attempt, Quiet, Busy, InProgress, UndoneIsAsBefore, At, Under
<1> QED BY <1>0, <1>2, <1>3, <1>4, <1>7 DEF ProvisionInv, NamesAreApart, Temps, Things

(* What is to be removed is what was not there before.                     *)
LEMMA UndoStep ==
  ASSUME ProvisionInv, NEW w \in owed, At("Recovering") \/ At("Installed"),
         job' = [Idle EXCEPT !.at = "Removing", !.left = w.created \cup IF w.kept = {} THEN {} ELSE added(w.kept, things)],
         UNCHANGED <<things, scratch, manifest, store, registered, profile, owed, origin, attempts>>
  PROVE  ProvisionInv'
<1>0. NamesAreApart /\ Typed /\ Fresh /\ Course /\ Attempt /\ job \in Jobs
  BY DEF ProvisionInv, Typed
<1>51. PICK o \in origin, v \in owed : Under(o, v)
  BY <1>0 DEF Attempt, Busy, At
<1>5. Under(o, w) /\ w \in owed
  BY <1>51 DEF Under
<1>55. PICK l : l = w.created \cup added(w.kept, things)
  OBVIOUS
<1>56. job' = [Idle EXCEPT !.at = "Removing", !.left = l] /\ l \in SUBSET Removable
  BY <1>0, <1>5, <1>55 DEF Under, Owes, Origin, Removable, added, Typed
<1>10. job' \in Jobs /\ job'.at = "Removing" /\ job'.left = l /\ job'.dir = None /\ job'.entry = None
  <2>1. "Removing" \in Busy \cup Quiet
    BY DEF Busy
  <2>2. job' = Blank("Removing", l)
    BY <1>56 DEF Idle, Blank
  <2>3. /\ Blank("Removing", l) \in Jobs /\ Blank("Removing", l).at = "Removing" /\ Blank("Removing", l).left = l
        /\ Blank("Removing", l).dir = None /\ Blank("Removing", l).entry = None
    BY <1>56, <2>1, BlankJob, Zenon
  <2> QED BY <2>2, <2>3, Zenon
<1>1. /\ job.at \in {"Recovering", "Installed"} /\ job'.at = "Removing" /\ job'.left = l
      /\ things' = things /\ scratch' = scratch /\ manifest' = manifest /\ store' = store
         /\ registered' = registered
      /\ profile' = profile /\ owed' = owed /\ origin' = origin /\ attempts' = attempts
  BY <1>10 DEF At
<1>2. Typed'
  BY <1>0, <1>1, <1>10, Names DEF Typed, Profiles, Stored, StoreExists, InStore
<1>3. Fresh'
  BY <1>0, <1>1, Names DEF Typed, Fresh, NamesAreApart
<1>4. Course'
  BY <1>0, <1>1, Names DEF Course, Linked, InStore, StoreExists, At, Whole, Sealed, None, Typed, Accounted, Vouched
<1>6. Under(o, w)'
  <2>1. Base(o)' /\ Origin(o)' /\ Owes(o, w)'
    BY <1>0, <1>1, <1>5, Names DEF Typed, Under, Base, Origin, Owes, InStore, StoreExists, Stage,
         At, None, Tmp
  <2>2. Stage(o)'
    BY <1>0, <1>1, <1>5, Names DEF Under, Stage, InProgress, At, UntilStore, FromStore, HasStore,
         NoStore, NoProfile, HasProfile, StoreExists
  <2>3. Clearing(o)'
    <3>1. /\ w.kept = o.things /\ o.things \subseteq Things
          /\ w.created \cap o.things = {} /\ ("profile" \in w.created <=> o.profile \in Made)
             /\ ("store" \in w.created <=> ~o.exists)
      BY <1>5 DEF Under, Origin, Owes
    <3>2. things \subseteq o.things \cup l /\ l \cap o.things = {}
      BY <1>55, <3>1 DEF added
    <3>3. ("profile" \in l <=> "profile" \in w.created) /\ ("store" \in l <=> "store" \in w.created)
      BY <1>0, <1>55, Names DEF added, Typed
    <3> QED BY <1>1, <3>1, <3>2, <3>3 DEF Clearing, StoreExists
  <2> QED BY <1>1, <1>5, <2>1, <2>2, <2>3 DEF Under, At
<1>7. Attempt'
  BY <1>1, <1>5, <1>6 DEF Attempt, Quiet, Busy, InProgress, UndoneIsAsBefore, At, Under
<1> QED BY <1>0, <1>2, <1>3, <1>4, <1>7 DEF ProvisionInv, NamesAreApart, Temps, Things

(* The profile, with its generation: neither was there.                    *)
LEMMA RemoveProfileStep ==
  ASSUME ProvisionInv, At("Removing"), NEW p \in job.left, job' = [job EXCEPT !.left = @ \ {p}],
         p = "profile", profile' = None, things' = things \ {"generation"}, UNCHANGED <<scratch, manifest, store, owed, origin, attempts>>
  PROVE  ProvisionInv'
<1>0. NamesAreApart /\ Typed /\ Fresh /\ Course /\ Attempt /\ job \in Jobs
  BY DEF ProvisionInv, Typed
<1>1. /\ job.at = "Removing" /\ job'.at = "Removing"
      /\ job'.got = job.got /\ job'.good = job.good /\ job'.dir = job.dir /\ job'.entry = job.entry
         /\ job'.isNew = job.isNew /\ job'.storeNew = job.storeNew
         /\ job'.profileNew = job.profileNew /\ job'.paths = job.paths /\ job'.kept = job.kept
         /\ job'.left = job.left \ {p} /\ job'.failed = job.failed /\ job'.recovered = job.recovered
      /\ things' = things \ {"generation"} /\ scratch' = scratch /\ manifest' = manifest
         /\ store' = store /\ profile' = None /\ owed' = owed /\ origin' = origin
         /\ attempts' = attempts
      /\ p = "profile"
      /\ p \in job.left
  BY <1>0 DEF At, Jobs, Goes, Trouble, Idle, disk
<1>9. p \in Removable /\ job.left \subseteq Removable /\ "var" # p
  <2>1. job.left \subseteq Removable
    BY <1>0 DEF Jobs
  <2>2. "var" \notin job.left
    BY <1>0, <1>1 DEF Attempt, Busy, Under, Clearing, Origin, At
  <2> QED BY <1>1, <2>1, <2>2
<1>10. job' \in Jobs
  BY <1>0, <1>9 DEF Jobs
<1>2. Typed'
  BY <1>0, <1>1, <1>10, <1>9, Names DEF Typed, Profiles, Stored, StoreExists, InStore, None
<1>3. Fresh'
  BY <1>0, <1>1, Names DEF Typed, Fresh, NamesAreApart
<1>4. Course'
  BY <1>0, <1>1, Names DEF Course, Linked, InStore, StoreExists, At, Whole, Sealed, None, Typed, Accounted, Vouched
<1>5. PICK o \in origin, u \in owed : Under(o, u)
  BY <1>0, <1>1 DEF Attempt, Busy, InProgress
<1>6. Under(o, u)'
  <2>1. Base(o)' /\ Origin(o)' /\ Owes(o, u)'
    BY <1>0, <1>1, <1>5, <1>9, Names DEF Typed, Under, Base, Origin, Owes, InStore, StoreExists,
         Stage, At, None, Tmp, Clearing, Made
  <2>2. Stage(o)'
    BY <1>0, <1>1, <1>5, Names DEF Under, Stage, InProgress, At, UntilStore, FromStore, HasStore,
         NoStore, NoProfile, HasProfile, StoreExists
  <2>3. Clearing(o)'
    BY <1>0, <1>1, <1>5, <1>9, Names DEF Under, Clearing, Base, Origin, Owes, Stage, Typed,
         StoreExists, InStore, At, Made
  <2> QED BY <1>1, <1>5, <2>1, <2>2, <2>3 DEF Under, At
<1>7. Attempt'
  BY <1>1, <1>5, <1>6 DEF Attempt, Quiet, Busy, InProgress, UndoneIsAsBefore, At, Under
<1> QED BY <1>0, <1>2, <1>3, <1>4, <1>7 DEF ProvisionInv, NamesAreApart, Temps, Things

(* A store that was not there.                                             *)
LEMMA RemoveStoreStep ==
  ASSUME ProvisionInv, At("Removing"), NEW p \in job.left, job' = [job EXCEPT !.left = @ \ {p}],
         p = "store", store' = Absent, UNCHANGED <<things, scratch, manifest, profile, owed, origin, attempts>>
  PROVE  ProvisionInv'
<1>0. NamesAreApart /\ Typed /\ Fresh /\ Course /\ Attempt /\ job \in Jobs
  BY DEF ProvisionInv, Typed
<1>1. /\ job.at = "Removing" /\ job'.at = "Removing"
      /\ job'.got = job.got /\ job'.good = job.good /\ job'.dir = job.dir /\ job'.entry = job.entry
         /\ job'.isNew = job.isNew /\ job'.storeNew = job.storeNew
         /\ job'.profileNew = job.profileNew /\ job'.paths = job.paths /\ job'.kept = job.kept
         /\ job'.left = job.left \ {p} /\ job'.failed = job.failed /\ job'.recovered = job.recovered
      /\ things' = things /\ scratch' = scratch /\ manifest' = manifest /\ store' = Absent
         /\ profile' = profile /\ owed' = owed /\ origin' = origin /\ attempts' = attempts
      /\ p = "store"
      /\ p \in job.left
  BY <1>0 DEF At, Jobs, Goes, Trouble, Idle, disk
<1>9. p \in Removable /\ job.left \subseteq Removable /\ "var" # p
  <2>1. job.left \subseteq Removable
    BY <1>0 DEF Jobs
  <2>2. "var" \notin job.left
    BY <1>0, <1>1 DEF Attempt, Busy, Under, Clearing, Origin, At
  <2> QED BY <1>1, <2>1, <2>2
<1>10. job' \in Jobs
  BY <1>0, <1>1, <1>9 DEF At, Jobs, Goes, InProgress, Busy, Quiet
<1>2. Typed'
  BY <1>0, <1>1, <1>10, <1>9, Names DEF Typed, Profiles, Stored, StoreExists, InStore
<1>3. Fresh'
  BY <1>0, <1>1, Names DEF Typed, Fresh, NamesAreApart
<1>4. Course'
  BY <1>0, <1>1, Names DEF Course, Linked, InStore, StoreExists, At, Whole, Sealed, None, Typed, Accounted, Vouched
<1>5. PICK o \in origin, u \in owed : Under(o, u)
  BY <1>0, <1>1 DEF Attempt, Busy, InProgress
<1>6. Under(o, u)'
  <2>1. Base(o)' /\ Origin(o)' /\ Owes(o, u)'
    BY <1>0, <1>1, <1>5, <1>9, Names DEF Typed, Under, Base, Origin, Owes, InStore, StoreExists,
         Stage, At, None, Tmp, Clearing
  <2>2. Stage(o)'
    BY <1>0, <1>1, <1>5, Names DEF Under, Stage, InProgress, At, UntilStore, FromStore, HasStore,
         NoStore, NoProfile, HasProfile, StoreExists
  <2>3. Clearing(o)'
    BY <1>0, <1>1, <1>5, <1>9, Names DEF Under, Clearing, Base, Origin, Owes, Stage, Typed,
         StoreExists, InStore, At
  <2> QED BY <1>1, <1>5, <2>1, <2>2, <2>3 DEF Under, At
<1>7. Attempt'
  BY <1>1, <1>5, <1>6 DEF Attempt, Quiet, Busy, InProgress, UndoneIsAsBefore, At, Under
<1> QED BY <1>0, <1>2, <1>3, <1>4, <1>7 DEF ProvisionInv, NamesAreApart, Temps, Things

(* A path of the archive.                                                  *)
LEMMA RemoveEntryStep ==
  ASSUME ProvisionInv, At("Removing"), NEW p \in job.left, job' = [job EXCEPT !.left = @ \ {p}],
         p \in Entries, store' = IF StoreExists THEN [q \in DOMAIN store \ {p} |-> store[q]] ELSE store, UNCHANGED <<things, scratch, manifest, profile, owed, origin, attempts>>
  PROVE  ProvisionInv'
<1>0. NamesAreApart /\ Typed /\ Fresh /\ Course /\ Attempt /\ job \in Jobs
  BY DEF ProvisionInv, Typed
<1>1. /\ job.at = "Removing" /\ job'.at = "Removing"
      /\ job'.got = job.got /\ job'.good = job.good /\ job'.dir = job.dir /\ job'.entry = job.entry
         /\ job'.isNew = job.isNew /\ job'.storeNew = job.storeNew
         /\ job'.profileNew = job.profileNew /\ job'.paths = job.paths /\ job'.kept = job.kept
         /\ job'.left = job.left \ {p} /\ job'.failed = job.failed /\ job'.recovered = job.recovered
      /\ things' = things /\ scratch' = scratch /\ manifest' = manifest /\ profile' = profile
         /\ owed' = owed /\ origin' = origin /\ attempts' = attempts
      /\ p \in Entries
      /\ p \in job.left
  BY <1>0 DEF At, Jobs, Goes, Trouble, Idle, disk
<1>9. p \in Removable /\ job.left \subseteq Removable /\ "var" # p
  <2>1. job.left \subseteq Removable
    BY <1>0 DEF Jobs
  <2>2. "var" \notin job.left
    BY <1>0, <1>1 DEF Attempt, Busy, Under, Clearing, Origin, At
  <2> QED BY <1>1, <2>1, <2>2
<1>10. job' \in Jobs
  BY <1>0, <1>1, <1>9 DEF At, Jobs, Goes, InProgress, Busy, Quiet
<1>11. /\ StoreExists' <=> StoreExists
       /\ InStore' = InStore \ {p} /\ \A e \in InStore' : store'[e] = store[e]
       /\ StoreExists => InStore = DOMAIN store /\ InStore' = DOMAIN store' /\ Stored'
  <2>1. CASE ~StoreExists
    <3>1. store' = store
      BY <2>1
    <3> QED BY <2>1, <3>1 DEF StoreExists, InStore
  <2>2. CASE StoreExists
    <3>1. /\ store' = [q \in DOMAIN store \ {p} |-> store[q]] /\ DOMAIN store \subseteq Entries \cup {"user"}
          /\ store \in [DOMAIN store -> {"new", "sealed"}]
      BY <1>0, <2>2 DEF Typed, Stored
    <3>2. DOMAIN store' = DOMAIN store \ {p} /\ (\A e \in DOMAIN store' : store'[e] = store[e])
          /\ store' \in [DOMAIN store' -> {"new", "sealed"}]
      BY <3>1
    <3>3. StoreExists'
      BY <1>0, <3>1, <3>2, NotAbsent DEF StoreExists
    <3> QED BY <2>2, <3>1, <3>2, <3>3 DEF StoreExists, InStore, Stored
  <2> QED BY <2>1, <2>2
<1>2. Typed'
  BY <1>0, <1>1, <1>10, <1>11 DEF Typed, Profiles, Stored
<1>3. Fresh'
  BY <1>0, <1>1, Names DEF Typed, Fresh, NamesAreApart
<1>4. Course'
  BY <1>0, <1>1, <1>11, Names DEF Course, Linked, At, Accounted, Vouched
<1>5. PICK o \in origin, u \in owed : Under(o, u)
  BY <1>0, <1>1 DEF Attempt, Busy, InProgress
<1>6. Under(o, u)'
  <2>1. Base(o)' /\ Origin(o)' /\ Owes(o, u)'
    BY <1>0, <1>1, <1>5, <1>11, Names DEF Typed, Under, Base, Origin, Owes, InStore, StoreExists,
         Stage, At, None, Tmp
  <2>2. Stage(o)'
    BY <1>0, <1>1, <1>5, Names DEF Under, Stage, InProgress, At, UntilStore, FromStore, HasStore,
         NoStore, NoProfile, HasProfile, StoreExists
  <2>3. Clearing(o)'
    BY <1>0, <1>1, <1>5, <1>9, <1>11, Names DEF Under, Clearing, Base, Origin, Owes, Stage, Typed,
         StoreExists, InStore, At
  <2> QED BY <1>1, <1>5, <2>1, <2>2, <2>3 DEF Under, At
<1>7. Attempt'
  BY <1>1, <1>5, <1>6 DEF Attempt, Quiet, Busy, InProgress, UndoneIsAsBefore, At, Under
<1> QED BY <1>0, <1>2, <1>3, <1>4, <1>7 DEF ProvisionInv, NamesAreApart, Temps, Things

(* Anything else that was not there.                                       *)
LEMMA RemoveThingStep ==
  ASSUME ProvisionInv, At("Removing"), NEW p \in job.left, job' = [job EXCEPT !.left = @ \ {p}],
         p \notin Entries \cup {"profile", "store"}, things' = things \ {p},
         profile' = (IF p = "generation" /\ profile = "ours" THEN "gone" ELSE profile),
         manifest' = (IF p = "manifest" THEN None ELSE manifest), Emptied(p),
         UNCHANGED <<store, owed, origin, attempts>>
  PROVE  ProvisionInv'
<1>0. NamesAreApart /\ Typed /\ Fresh /\ Course /\ Attempt /\ job \in Jobs
  BY DEF ProvisionInv, Typed
<1>1. /\ job.at = "Removing" /\ job'.at = "Removing"
      /\ job'.got = job.got /\ job'.good = job.good /\ job'.dir = job.dir /\ job'.entry = job.entry
         /\ job'.isNew = job.isNew /\ job'.storeNew = job.storeNew
         /\ job'.profileNew = job.profileNew /\ job'.paths = job.paths /\ job'.kept = job.kept
         /\ job'.left = job.left \ {p} /\ job'.failed = job.failed /\ job'.recovered = job.recovered
      /\ things' = things \ {p}
         /\ manifest' = (IF p = "manifest" THEN None ELSE manifest) /\ store' = store
         /\ profile' = (IF p = "generation" /\ profile = "ours" THEN "gone" ELSE profile)
         /\ owed' = owed /\ origin' = origin /\ attempts' = attempts
      /\ p \notin Entries \cup {"profile", "store"}
      /\ p \in job.left
  BY <1>0 DEF At, Jobs, Goes, Trouble, Idle, disk
<1>9. p \in Removable /\ job.left \subseteq Removable /\ "var" # p
  <2>1. job.left \subseteq Removable
    BY <1>0 DEF Jobs
  <2>2. "var" \notin job.left
    BY <1>0, <1>1 DEF Attempt, Busy, Under, Clearing, Origin, At
  <2> QED BY <1>1, <2>1, <2>2
<1>12. /\ scratch' \in [Scratch -> Dirs]
       /\ \A d \in Scratch : scratch'[d] = scratch[d] \/ (scratch'[d].tree = {} /\ scratch'[d].links = {})
  BY <1>0, EmptiedDirs DEF Typed
<1>10. job' \in Jobs
  BY <1>0, <1>1, <1>9 DEF At, Jobs, Goes, InProgress, Busy, Quiet
<1>2. Typed'
  BY <1>0, <1>1, <1>10, <1>9, <1>12, Names DEF Typed, Profiles, Stored, StoreExists, InStore
<1>3. Fresh'
  BY <1>0, <1>1, Names DEF Typed, Fresh, NamesAreApart
<1>4. Course'
  BY <1>0, <1>1, <1>12, Names DEF Course, Linked, InStore, StoreExists, At, Whole, Sealed, None, Typed, Accounted, Vouched
<1>5. PICK o \in origin, u \in owed : Under(o, u)
  BY <1>0, <1>1 DEF Attempt, Busy, InProgress
<1>6. Under(o, u)'
  <2>1. Base(o)' /\ Origin(o)' /\ Owes(o, u)'
    BY <1>0, <1>1, <1>5, <1>9, Names DEF Typed, Under, Base, Origin, Owes, InStore, StoreExists,
         Stage, At, None, Tmp, Clearing
  <2>2. Stage(o)'
    BY <1>0, <1>1, <1>5, Names DEF Under, Stage, InProgress, At, UntilStore, FromStore, HasStore,
         NoStore, NoProfile, HasProfile, StoreExists
  <2>3. Clearing(o)'
    <3>1. Clearing(o) /\ Origin(o)
      BY <1>1, <1>5 DEF Under, At
    <3>2. things' \subseteq o.things \cup job'.left /\ job'.left \cap o.things = {}
      BY <1>1, <3>1 DEF Clearing
    <3>3. ("profile" \in job'.left <=> "profile" \in job.left) /\ ("store" \in job'.left <=> "store" \in job.left)
      BY <1>1
    <3>4. o.profile \in Made /\ profile' \notin {None, o.profile} => "profile" \in job.left
      BY <1>1, <3>1 DEF Clearing, Made, None
    <3> QED BY <1>1, <3>1, <3>2, <3>3, <3>4 DEF Clearing, StoreExists
  <2> QED BY <1>1, <1>5, <2>1, <2>2, <2>3 DEF Under, At
<1>7. Attempt'
  BY <1>1, <1>5, <1>6 DEF Attempt, Quiet, Busy, InProgress, UndoneIsAsBefore, At, Under
<1> QED BY <1>0, <1>2, <1>3, <1>4, <1>7 DEF ProvisionInv, NamesAreApart, Temps, Things

(* The directory the manifest names: if it was there, the manifest was.    *)
LEMMA RemoveNamedStep ==
  ASSUME ProvisionInv, At("Removing"), job.left = {}, "manifest" \in things, manifest \in things,
         things' = things \ {manifest},
         Emptied(manifest), UNCHANGED job, UNCHANGED <<manifest, store, registered, profile, owed, origin, attempts>>
  PROVE  ProvisionInv'
<1>0. NamesAreApart /\ Typed /\ Fresh /\ Course /\ Attempt /\ job \in Jobs
  BY DEF ProvisionInv, Typed
<1>1. /\ job.at = "Removing" /\ job'.at = "Removing"
      /\ job'.got = job.got /\ job'.good = job.good /\ job'.dir = job.dir /\ job'.entry = job.entry
         /\ job'.isNew = job.isNew /\ job'.storeNew = job.storeNew
         /\ job'.profileNew = job.profileNew /\ job'.paths = job.paths /\ job'.kept = job.kept
         /\ job'.left = job.left /\ job'.failed = job.failed /\ job'.recovered = job.recovered
      /\ things' = things \ {manifest} /\ manifest' = manifest
         /\ store' = store /\ registered' = registered /\ profile' = profile /\ owed' = owed
         /\ origin' = origin /\ attempts' = attempts
      /\ job.left = {} /\ "manifest" \in things
  BY <1>0 DEF At, Jobs, Goes, Trouble, Idle, disk
<1>9. manifest \in Scratch
  <2>1. None \notin things /\ manifest \in things
    BY <1>0, Names DEF Typed, None
  <2> QED BY <1>0, <2>1 DEF Typed
<1>12. /\ scratch' \in [Scratch -> Dirs]
       /\ \A d \in Scratch : scratch'[d] = scratch[d] \/ (scratch'[d].tree = {} /\ scratch'[d].links = {})
  BY <1>0, EmptiedDirs DEF Typed
<1>10. job' \in Jobs
  BY <1>0, <1>1 DEF At, Jobs, Goes, InProgress, Busy, Quiet
<1>2. Typed'
  BY <1>0, <1>1, <1>10, <1>9, <1>12, Names DEF Typed, Profiles, Stored, StoreExists, InStore
<1>3. Fresh'
  BY <1>0, <1>1, Names DEF Typed, Fresh, NamesAreApart
<1>4. Course'
  BY <1>0, <1>1, <1>12, Names DEF Course, Linked, InStore, StoreExists, At, Whole, Sealed, None, Typed, Accounted, Vouched
<1>5. PICK o \in origin, u \in owed : Under(o, u)
  BY <1>0, <1>1 DEF Attempt, Busy, InProgress
<1>6. Under(o, u)'
  <2>1. Base(o)' /\ Origin(o)' /\ Owes(o, u)'
    BY <1>0, <1>1, <1>5, <1>9, Names DEF Typed, Under, Base, Origin, Owes, InStore, StoreExists,
         Stage, At, None, Tmp, Clearing
  <2>2. Stage(o)'
    BY <1>0, <1>1, <1>5, Names DEF Under, Stage, InProgress, At, UntilStore, FromStore, HasStore,
         NoStore, NoProfile, HasProfile, StoreExists
  <2>3. Clearing(o)'
    BY <1>0, <1>1, <1>5, <1>9, Names DEF Under, Clearing, Base, Origin, Owes, Stage, Typed,
         StoreExists, InStore, At
  <2> QED BY <1>1, <1>5, <2>1, <2>2, <2>3 DEF Under, At
<1>7. Attempt'
  BY <1>1, <1>5, <1>6 DEF Attempt, Quiet, Busy, InProgress, UndoneIsAsBefore, At, Under
<1> QED BY <1>0, <1>2, <1>3, <1>4, <1>7 DEF ProvisionInv, NamesAreApart, Temps, Things

(* Nothing is left to remove: all is as before.                            *)
LEMMA UndoneStep ==
  ASSUME ProvisionInv, At("Removing"), job.left = {}, things' = things \ {"manifest"},
         manifest' = None, owed' = {},
         job' = [Idle EXCEPT !.at = "Undone"],
         UNCHANGED <<scratch, store, registered, profile, origin, attempts>>
  PROVE  ProvisionInv'
<1>0. NamesAreApart /\ Typed /\ Fresh /\ Course /\ Attempt /\ job \in Jobs
  BY DEF ProvisionInv, Typed
<1>1. /\ job.at = "Removing" /\ job'.at = "Undone"
      /\ job' = [Idle EXCEPT !.at = "Undone"] /\ job'.dir = None /\ job'.entry = None
         /\ ~job'.storeNew /\ ~job'.profileNew
      /\ things' = things \ {"manifest"} /\ scratch' = scratch /\ manifest' = None /\ store' = store
         /\ registered' = registered /\ profile' = profile /\ owed' = {} /\ origin' = origin
         /\ attempts' = attempts
  BY <1>0 DEF At, Jobs, Goes, Trouble, Idle, disk
<1>10. job' \in Jobs
  BY <1>1, IdleJob DEF Quiet, Busy, InProgress
<1>2. Typed'
  BY <1>0, <1>1, <1>10, Names DEF Typed, Profiles, Stored, StoreExists, InStore
<1>3. Fresh'
  BY <1>0, <1>1, Names DEF Typed, Fresh, NamesAreApart
<1>4. Course'
  BY <1>0, <1>1, Names DEF Course, Linked, InStore, StoreExists, At, Whole, Sealed, None, Typed, Accounted, Vouched
<1>5. PICK o \in origin, u \in owed : Under(o, u)
  BY <1>0, <1>1 DEF Attempt, Busy, InProgress
<1>6. UndoneIsAsBefore'
  <2>1. Base(o) /\ Clearing(o) /\ Origin(o) /\ job.left = {} /\ origin' = {o}
    BY <1>1, <1>5 DEF Under, At
  <2>2. /\ things' \ {o.manifest} \subseteq o.things \ {"manifest"}
        /\ o.things \ {"manifest", o.manifest, Tmp'} \subseteq things'
    BY <1>1, <2>1 DEF Base, Clearing, Tmp
  <2>3. (StoreExists' <=> o.exists) /\ o.store \ Entries \subseteq InStore'
    BY <1>1, <2>1 DEF Base, Clearing, StoreExists, InStore
  <2>4. o.profile \in {None, "gone"} => profile' \in {None, o.profile}
    BY <1>1, <2>1 DEF Clearing, Made
  <2>5. o.profile = "ours" => profile' = "ours"
    <3>1. "generation" \notin {"manifest", o.manifest, Tmp}
      BY <1>0, <2>1, Names DEF Origin, Origins, Tmp, Typed, NamesAreApart, None
    <3> QED BY <1>0, <1>1, <2>1, <3>1 DEF Origin, Base, Typed
  <2>6. o.profile = "theirs" => profile' = "theirs" \/ (profile' = "gone" /\ o.repointed)
    BY <1>0, <1>1, <2>1 DEF Origin, Clearing, Base, Typed, Profiles
  <2>7. o.profile \in Profiles
    BY <2>1 DEF Origin, Origins
  <2> QED BY <2>1, <2>2, <2>3, <2>4, <2>5, <2>6, <2>7 DEF UndoneIsAsBefore, Profiles
<1>7. Attempt'
  BY <1>1, <1>6 DEF Attempt, Quiet, Busy, InProgress
<1> QED BY <1>0, <1>2, <1>3, <1>4, <1>7 DEF ProvisionInv, NamesAreApart, Temps, Things

-----------------------------------------------------------------------------
(* 6. All together.                                                        *)

(* Every step of the download,                                             *)
LEMMA FetchingKeepsIt ==
  ASSUME ProvisionInv, Fetching
  PROVE  ProvisionInv'
<1>1. CASE Begin
  BY <1>1, BeginStep
<1>2. CASE Chunk
  <2>1. PICK n \in 1 .. Size + 1, good \in BOOLEAN :
          IF job.got + n > Size THEN job' = [Idle EXCEPT !.at = "Refused"]
          ELSE job' = [job EXCEPT !.got = @ + n, !.good = @ /\ good]
    BY <1>2 DEF Chunk
  <2>2. At("Fetching") /\ job.at = "Fetching" /\ UNCHANGED <<disk, owed, origin, attempts>>
    BY <1>2 DEF Chunk, At
  <2>3. CASE job.got + n > Size
    BY <2>1, <2>2, <2>3, RefusedStep
  <2>4. CASE ~(job.got + n > Size)
    BY <2>1, <2>2, <2>4, ChunkStep DEF disk
  <2> QED BY <2>3, <2>4
<1>3. CASE EndOfBody
  <2>1. At("Fetching") /\ job.at = "Fetching" /\ UNCHANGED <<disk, owed, origin, attempts>>
    BY <1>3 DEF EndOfBody, At
  <2>2. CASE Fetched(job.got, job.good)
    BY <1>3, <2>1, <2>2, FetchedStep DEF EndOfBody, Goes
  <2>3. CASE ~Fetched(job.got, job.good)
    BY <1>3, <2>1, <2>3, RefusedStep DEF EndOfBody
  <2> QED BY <2>2, <2>3
<1>4. CASE FetchFails
  BY <1>4, RefusedStep DEF FetchFails, At
<1>5. CASE Refuses
  <2>1. job.at \in Quiet
    BY <1>5 DEF Refuses, At, Quiet
  <2> QED BY <1>5, <2>1, IdleStep DEF Refuses
<1> QED BY <1>1, <1>2, <1>3, <1>4, <1>5 DEF Fetching

(* of provision,                                                           *)
LEMMA PlacingKeepsIt ==
  ASSUME ProvisionInv, Placing
  PROVE  ProvisionInv'
<1>0. Typed /\ Course
  BY DEF ProvisionInv
<1>1. CASE Prepare \/ UnpackFails \/ MakeStore \/ Displace \/ Rename \/ Seal \/ Backlink \/ LoadDb \/ ForgetVanished \/ Activate
  BY <1>1, PrepareStep, UnpackFailsStep, MakeStoreStep, DisplaceStep, RenameStep, SealStep, BacklinkStep,
     LoadDbStep, ForgetStep, ActivateStep
<1>2. CASE RecoverScratch
  <2>1. CASE "manifest" \in things /\ Usable(manifest)
    <3>1. manifest \in things /\ manifest # None
      BY <1>0, <2>1, Names DEF Usable, Typed, ProvisionInv, None
    <3>2. /\ At("Scratch") /\ job' = [job EXCEPT !.at = "Store", !.dir = manifest, !.recovered = TRUE]
          /\ UNCHANGED <<things, scratch, manifest, store, registered, profile, owed, origin, attempts>>
      BY <1>2, <2>1 DEF RecoverScratch
    <3> QED BY <2>1, <3>1, <3>2, ReuseStep
  <2>2. CASE ~("manifest" \in things /\ Usable(manifest))
    <3>1. /\ At("Scratch") /\ things' = things \ {"manifest"} /\ manifest' = None /\ Goes("New scratch")
          /\ UNCHANGED <<scratch, store, registered, profile, owed, origin, attempts>>
      BY <1>2, <2>2 DEF RecoverScratch
    <3> QED BY <3>1, DropStep
  <2> QED BY <2>1, <2>2
<1>3. CASE NewScratch
  <2>1. PICK d \in DOMAIN scratch \ things :
          /\ things' = things \cup {d}
          /\ job' = [job EXCEPT !.at = "Unpacking", !.dir = d]
    BY <1>3 DEF NewScratch
  <2>2. d \in Scratch /\ d \notin things
    BY <1>0, <2>1 DEF Typed
  <2>3. At("New scratch") /\ UNCHANGED <<scratch, manifest, store, registered, profile, owed, origin, attempts>>
    BY <1>3 DEF NewScratch
  <2> QED BY <2>1, <2>2, <2>3, NewScratchStep
<1>4. CASE Unpack
  <2>1. At("Unpacking") /\ UNCHANGED <<things, manifest, store, registered, profile, owed, origin, attempts>>
    BY <1>4 DEF Unpack
  <2>2. CASE scratch' = [scratch EXCEPT ![job.dir].unpacked = "Partly"] /\ UNCHANGED job
    BY <2>1, <2>2, UnpackStep
  <2>3. CASE /\ scratch' = [scratch EXCEPT ![job.dir] = [unpacked |-> "Yes", tree |-> Entries, links |-> {}]]
             /\ Goes("Manifest")
    BY <2>1, <2>3, UnpackedStep
  <2> QED BY <1>4, <2>2, <2>3 DEF Unpack
<1>5. CASE WriteManifest
  <2>1. At("Manifest") /\ UNCHANGED <<scratch, store, registered, profile, owed, origin, attempts>>
    BY <1>5 DEF WriteManifest
  <2>2. CASE Tmp \notin things
    BY <1>5, <2>1, <2>2, TemporaryStep DEF WriteManifest
  <2>3. CASE Tmp \in things
    BY <1>5, <2>1, <2>3, ManifestStep DEF WriteManifest
  <2> QED BY <2>2, <2>3
<1>6. CASE Resolve
  <2>1. At("Moving") /\ job.entry = None /\ scratch[job.dir].tree = {} /\ UNCHANGED <<disk, owed, origin, attempts>>
    BY <1>6 DEF Resolve
  <2>2. CASE Looked(scratch[job.dir].links)
    BY <1>6, <2>1, <2>2, ResolvedStep DEF Resolve, disk
  <2>3. CASE ~Looked(scratch[job.dir].links)
    <3>1. job.at \in InProgress
      BY <2>1 DEF At, InProgress
    <3> QED BY <1>6, <2>1, <2>3, <3>1, FailingStep DEF Resolve
  <2> QED BY <2>2, <2>3
<1>7. CASE Tidy
  <2>1. At("Tidying") /\ UNCHANGED <<store, registered, profile, owed, origin, attempts>>
    BY <1>7 DEF Tidy
  <2>2. CASE "manifest" \in things
    BY <1>7, <2>1, <2>2, TidyManifestStep DEF Tidy
  <2>3. CASE "manifest" \notin things
    <3>1. /\ Goes("Listing") /\ UNCHANGED manifest
          /\ (things' = things \ {job.dir} /\ Emptied(job.dir)) \/ UNCHANGED <<things, scratch>>
      BY <1>7, <2>3 DEF Tidy, Trouble
    <3> QED BY <2>1, <2>3, <3>1, TidyDirStep, TidyKeptStep
  <2> QED BY <2>2, <2>3
<1>8. CASE Fails \/ NixFails
  <2>1. job.at \in InProgress /\ job' = [job EXCEPT !.at = "Failing", !.failed = TRUE] /\ UNCHANGED <<disk, owed, origin, attempts>>
    BY <1>8 DEF Fails, NixFails, InProgress, At
  <2> QED BY <2>1, FailingStep
<1> QED BY <1>1, <1>2, <1>3, <1>4, <1>5, <1>6, <1>7, <1>8 DEF Placing

(* and of what comes after it is one of those.                             *)
LEMMA RemovingKeepsIt ==
  ASSUME ProvisionInv, Removing
  PROVE  ProvisionInv'
<1>0. Attempt /\ job.at \in Busy \cup Quiet
  BY DEF ProvisionInv, Typed, Jobs
<1>1. CASE Performed \/ CleanUp \/ Commit \/ CleanUpFails
  BY <1>1, PerformedStep, CleanUpStep, CommitStep, WarnedStep
<1>2. CASE Dies
  <2>1. UNCHANGED <<disk, owed, origin, attempts>> /\ job' = IF owed = {} THEN Idle ELSE [Idle EXCEPT !.at = "Recovering"]
    BY <1>2 DEF Dies
  <2>2. CASE owed = {}
    <3>1. job.at \in Quiet
      BY <1>0, <2>2 DEF Attempt
    <3> QED BY <2>1, <2>2, <3>1, IdleStep
  <2>3. CASE owed # {}
    <3>1. job.at \in Busy
      BY <1>0, <2>3 DEF Attempt
    <3> QED BY <2>1, <2>3, <3>1, RecoveringStep
  <2> QED BY <2>2, <2>3
<1>3. CASE Undo
  <2>1. PICK w \in owed :
          job' = [Idle EXCEPT !.at = "Removing",
                              !.left = w.created \cup IF w.kept = {} THEN {} ELSE added(w.kept, things)]
    BY <1>3 DEF Undo
  <2>2. (At("Recovering") \/ At("Installed"))
        /\ UNCHANGED <<things, scratch, manifest, store, registered, profile, owed, origin, attempts>>
    BY <1>3 DEF Undo, disk
  <2> QED BY <2>1, <2>2, UndoStep
<1>4. CASE RemovePath
  <2>1. PICK p \in job.left :
          /\ job' = [job EXCEPT !.left = @ \ {p}]
          /\ CASE p = "profile" -> profile' = None /\ things' = things \ {"generation"}
             /\ UNCHANGED store
               [] p = "store" -> store' = Absent /\ UNCHANGED <<things, profile>>
               [] p \in Entries -> /\ store' = IF StoreExists THEN [q \in DOMAIN store \ {p} |-> store[q]] ELSE store
                                   /\ UNCHANGED <<things, profile>>
               [] OTHER -> /\ things' = things \ {p}
                           /\ profile' = IF p = "generation" /\ profile = "ours" THEN "gone" ELSE profile
                           /\ UNCHANGED store
          /\ manifest' = IF p = "manifest" THEN None ELSE manifest
          /\ Emptied(p)
    BY <1>4 DEF RemovePath
  <2>2. At("Removing") /\ UNCHANGED <<owed, origin, attempts>>
    BY <1>4 DEF RemovePath
  <2>3. "profile" \notin Entries /\ "store" \notin Entries /\ "manifest" \notin Entries
    BY Names DEF ProvisionInv
  <2>35. p \in Entries \cup {"profile", "store"} => scratch' = scratch
    BY <2>1, Names DEF Emptied, ProvisionInv
  <2>4. CASE p = "profile"
    <3>1. profile' = None /\ things' = things \ {"generation"} /\ store' = store /\ manifest' = manifest
      BY <2>1, <2>3, <2>4
    <3> QED BY <2>1, <2>2, <2>35, <2>4, <3>1, RemoveProfileStep
  <2>5. CASE p = "store"
    <3>1. store' = Absent /\ things' = things /\ profile' = profile /\ manifest' = manifest
      BY <2>1, <2>3, <2>5
    <3> QED BY <2>1, <2>2, <2>35, <2>5, <3>1, RemoveStoreStep
  <2>6. CASE p \in Entries
    <3>1. /\ store' = IF StoreExists THEN [q \in DOMAIN store \ {p} |-> store[q]] ELSE store
          /\ things' = things /\ profile' = profile /\ manifest' = manifest
      BY <2>1, <2>3, <2>6
    <3> QED BY <2>1, <2>2, <2>35, <2>6, <3>1, RemoveEntryStep
  <2>7. CASE p \notin Entries \cup {"profile", "store"}
    <3>1. /\ things' = things \ {p} /\ store' = store
          /\ profile' = IF p = "generation" /\ profile = "ours" THEN "gone" ELSE profile
          /\ manifest' = IF p = "manifest" THEN None ELSE manifest
      BY <2>1, <2>7
    <3> QED BY <2>1, <2>2, <2>7, <3>1, RemoveThingStep
  <2> QED BY <2>4, <2>5, <2>6, <2>7
<1>5. CASE RemoveManifest
  <2>1. /\ At("Removing") /\ job.left = {}
        /\ UNCHANGED <<store, registered, profile, origin, attempts>>
    BY <1>5 DEF RemoveManifest
  <2>2. CASE "manifest" \in things /\ manifest \in things
    <3>1. things' = things \ {manifest} /\ Emptied(manifest) /\ UNCHANGED <<manifest, job, owed>>
      BY <1>5, <2>2 DEF RemoveManifest
    <3> QED BY <2>1, <2>2, <3>1, RemoveNamedStep
  <2>3. CASE ~("manifest" \in things /\ manifest \in things)
    <3>1. things' = things \ {"manifest"} /\ manifest' = None /\ owed' = {} /\ job' = [Idle EXCEPT !.at = "Undone"]
          /\ UNCHANGED scratch
      BY <1>5, <2>3 DEF RemoveManifest
    <3> QED BY <2>1, <3>1, UndoneStep
  <2> QED BY <2>2, <2>3
<1>6. CASE Again
  <2>1. job.at \in Quiet /\ job' = Idle /\ UNCHANGED <<disk, owed, origin, attempts>>
    BY <1>6 DEF Again, At, Quiet
  <2> QED BY <2>1, IdleStep
<1> QED BY <1>1, <1>2, <1>3, <1>4, <1>5, <1>6 DEF Removing

(* The machine before the first attempt.                                   *)
LEMMA ItHoldsAtFirst ==
  ASSUME NamesAreApart, Init
  PROVE  ProvisionInv
<1>1. job \in Jobs /\ job.at = "Idle" /\ job.dir = None /\ job.entry = None
  <2>1. job = Blank("Idle", {})
    BY DEF Init, Idle, Blank
  <2>2. /\ Blank("Idle", {}) \in Jobs /\ Blank("Idle", {}).at = "Idle" /\ Blank("Idle", {}).dir = None
        /\ Blank("Idle", {}).entry = None
    <3>1. "Idle" \in Busy \cup Quiet /\ {} \in SUBSET Removable
      BY DEF Quiet
    <3> QED BY <3>1, BlankJob, Zenon
  <2> QED BY <2>1, <2>2, Zenon
<1>2. /\ manifest = None /\ owed = {} /\ origin = {} /\ attempts = 0
      /\ scratch = [d \in Scratch |-> Empty]
  BY DEF Init
<1>3. scratch \in [Scratch -> Dirs]
  <2>1. Empty \in Dirs
    BY DEF Empty, Dirs
  <2> QED BY <1>2, <2>1
<1>4. things \subseteq {"var", "db"} /\ "var" \in things /\ profile \in {None, "theirs"} /\ Stored
  <2>1. CASE store = Absent /\ things = {"var"} /\ profile = None
    BY <2>1 DEF Stored, StoreExists
  <2>2. CASE \E has \in SUBSET (Entries \cup {"user"}), link \in {None, "theirs"} :
               store = [p \in has |-> "sealed"] /\ things = {"var", "db"} /\ profile = link
    BY <2>2 DEF Stored
  <2> QED BY <2>1, <2>2 DEF Init
<1>5. Typed
  <2>1. attempts \in 0..MaxAttempts
    BY <1>2 DEF NamesAreApart
  <2>2. things \subseteq Things /\ "manifest" \notin things /\ "generation" \notin things
    BY <1>4, Names
  <2> QED BY <1>1, <1>2, <1>3, <1>4, <2>1, <2>2 DEF Typed, Profiles, None
<1>6. Fresh /\ Course /\ Attempt
  BY <1>1, <1>2 DEF Fresh, Course, Attempt, Quiet, Busy, InProgress, UndoneIsAsBefore, At
<1> QED BY <1>5, <1>6 DEF ProvisionInv

(* A step that is not of the installation.                                 *)
LEMMA NothingChanges ==
  ASSUME ProvisionInv, UNCHANGED vars
  PROVE  ProvisionInv'
<1>1. Typed' /\ Fresh' /\ Course'
  BY DEF ProvisionInv, vars, Typed, Stored, StoreExists, Fresh, Course, Linked, InStore, Sealed,
       Whole, At, Accounted, Vouched
<1>2. UndoneIsAsBefore'
  BY DEF ProvisionInv, Attempt, vars, UndoneIsAsBefore, StoreExists, InStore, At, Tmp
<1>3. job' = job /\ owed' = owed /\ origin' = origin
  BY DEF vars
<1>4. ASSUME job.at \in Busy
      PROVE  \E o \in origin, u \in owed : Under(o, u)'
  <2>1. PICK o \in origin, u \in owed : Under(o, u)
    BY <1>4 DEF ProvisionInv, Attempt
  <2>2. (Origin(o) /\ Owes(o, u) /\ Base(o))'
    BY <2>1 DEF vars, Under, Origin, Owes, Base, InStore, StoreExists, Tmp
  <2>3. /\ things' = things /\ manifest' = manifest /\ profile' = profile
        /\ (StoreExists' <=> StoreExists)
    BY DEF vars, StoreExists
  <2>4. /\ (NoStore(o)' <=> NoStore(o)) /\ (HasStore(o)' <=> HasStore(o))
        /\ (NoProfile(o)' <=> NoProfile(o)) /\ (HasProfile(o)' <=> HasProfile(o))
    BY <1>3, <2>3 DEF NoStore, HasStore, NoProfile, HasProfile
  <2>5. Stage(o)'
    BY <1>3, <2>1, <2>3, <2>4 DEF Under, Stage, At
  <2>6. (At("Removing") => Clearing(o))'
    BY <1>3, <2>1, <2>3 DEF Under, Clearing, At
  <2> QED BY <1>3, <2>1, <2>2, <2>5, <2>6 DEF Under
<1>5. Attempt'
  BY <1>2, <1>3, <1>4 DEF ProvisionInv, Attempt
<1> QED BY <1>1, <1>5 DEF ProvisionInv, NamesAreApart, Temps, Things

(* Every attempt keeps its course: what the machine was like before it is  *)
(* known, what the journal owes is enough to go back there, and nothing of *)
(* what was there is touched on the way.                                   *)
THEOREM RuntimesAreInOrder == NamesAreApart /\ Spec => []ProvisionInv
<1>1. NamesAreApart /\ Init => ProvisionInv
  BY ItHoldsAtFirst
<1>2. ProvisionInv /\ [Next]_vars => ProvisionInv'
  BY FetchingKeepsIt, PlacingKeepsIt, RemovingKeepsIt, NothingChanges DEF Next
<1> QED BY <1>1, <1>2, PTL DEF Spec

(* A runtime that counts as installed is whole: see InstalledIsWhole.      *)
THEOREM InstallsAreWhole == NamesAreApart /\ Spec => []InstalledIsWhole
<1>1. ProvisionInv => InstalledIsWhole
  BY DEF ProvisionInv, NamesAreApart, Fresh, Course, Whole, Sealed, Vouched, InstalledIsWhole, At
<1> QED BY <1>1, RuntimesAreInOrder, PTL

(* An attempt that was undone leaves nothing: see UndoneIsAsBefore.        *)
THEOREM UndoingLeavesNothing == NamesAreApart /\ Spec => []UndoneIsAsBefore
<1>1. ProvisionInv => UndoneIsAsBefore
  BY DEF ProvisionInv, Attempt
<1> QED BY <1>1, RuntimesAreInOrder, PTL

(* Both: what MCOutside checks of its instance of Provision.               *)
THEOREM RuntimesAreWholeOrGone == NamesAreApart /\ Spec => []RuntimeIsWholeOrGone
<1> QED BY InstallsAreWhole, UndoingLeavesNothing, PTL DEF RuntimeIsWholeOrGone
=============================================================================
