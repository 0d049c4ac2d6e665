------------------------------ MODULE Machine ------------------------------
(***************************************************************************)
(* The machine a request changes: its files, accounts, units, profiles and *)
(* the user's repository, and what every action of mix does to it.  An     *)
(* action is applied by Apply, which answers whether the action was done,  *)
(* the machine after it, and the actions that undo it.                     *)
(*                                                                         *)
(* Source: crates/core/src/model, crates/core/src/effect.  The conformance *)
(* suite of the repository holds the real performer to this model.         *)
(*                                                                         *)
(* A path is the sequence of its components; a component is <<name>>, or   *)
(* <<name, purpose, request, number>> for the sibling a write leaves.      *)
(* Contents are tagged tuples.  Permission bits are a set: "r" the owner   *)
(* may read and enter, "w" the owner may write, "a" everybody may read,    *)
(* "f" others may write, "s" set-id.                                       *)
(***************************************************************************)
EXTENDS Integers, Sequences, SequencesExt, FiniteSets, FiniteSetsExt, Functions, TLC

\* The members of a set in some order.
Listed(set) == FoldSet(LAMBDA member, seq : <<member>> \o seq, <<>>, set)

P(names) == [i \in DOMAIN names |-> <<names[i]>>]
ROOT == <<0, 0>>
None == <<>>
Directory == <<"Directory">>
Absent == 0                            \* Expect::Absent; a present file is expected by its id

Open == {"r", "w", "a"}                \* 0o755, 0o644
Private == {"r", "w"}                  \* 0o700, 0o600
ReadOnly == {"r", "a"}                 \* 0o444, 0o555

SYSTEMD == P(<<"etc", "systemd", "system">>)
UnitPath(unit) == SYSTEMD \o P(<<unit>>)
NIX_STORE == P(<<"nix", "store">>)
DEFAULT_PROFILE == P(<<"nix", "var", "default">>)
NIX_ENV == DEFAULT_PROFILE \o P(<<"nix-env">>)
UnitSource(unit) == DEFAULT_PROFILE \o P(<<unit>>)

STATE_DIR(home) == home \o P(<<"state", "mix">>)
PROFILES_DIR(home) == home \o P(<<"state", "nix", "profiles">>)
REPOSITORY(home) == STATE_DIR(home) \o P(<<".git">>)
GENERATION_INPUTS == <<"state", "flake.nix", "flake.lock", "home.nix">>
MANAGED_FILES == {".gitignore", "state", "flake.nix", "flake.lock", "home.nix"}

(***************************************************************************)
(* Files.                                                                  *)
(***************************************************************************)
Entry(w, content, mode, owner) ==
    [content |-> content, mode |-> mode, owner |-> owner, id |-> w.next, changed |-> w.next]

Insert(w, path, content, mode, owner) ==
    [w EXCEPT !.files = (path :> Entry(w, content, mode, owner)) @@ @, !.next = @ + 1]

Has(w, path) == path \in DOMAIN w.files
IsDir(w, path) == Has(w, path) /\ w.files[path].content = Directory
IsFile(w, path) == Has(w, path) /\ w.files[path].content # Directory

\* What a file holds; a link is read through, and holds nothing here.
Contents(w, path) ==
    IF Has(w, path) /\ w.files[path].content[1] \notin {"Directory", "Link"}
    THEN w.files[path].content ELSE None

Stamp(w, path) == IF Has(w, path) THEN w.files[path].changed ELSE 0

Subtree(w, path) == {p \in DOMAIN w.files : IsPrefix(path, p)}
Without(w, paths) == [w EXCEPT !.files = Restrict(@, DOMAIN @ \ paths)]
RemoveTree(w, path) == Without(w, Subtree(w, path))
RemoveTrees(w, paths) == Without(w, UNION {Subtree(w, p) : p \in paths})

MoveTree(w, from, to) ==
    LET moved == Subtree(w, from)
        At(p) == to \o SubSeq(p, Len(from) + 1, Len(p))
        old(q) == from \o SubSeq(q, Len(to) + 1, Len(q))
        targets == {At(p) : p \in moved}
    IN  [w EXCEPT !.files = [q \in targets |-> w.files[old(q)]]
                              @@ Restrict(@, DOMAIN @ \ moved)]

Above(path) == {SubSeq(path, 1, n) : n \in 1..(Len(path) - 1)}

\* What a look at a path meets: a file in the way above it, a directory
\* missing above it, nothing, or an entry.
Spot(w, path) ==
    IF \E dir \in Above(path) : IsFile(w, dir) THEN "NotADirectory"
    ELSE IF \E dir \in Above(path) : ~Has(w, dir) THEN "NotFound"
    ELSE IF Has(w, path) THEN "Present" ELSE "Missing"

Unreached(w, path) == Spot(w, path) \in {"NotFound", "Missing"}
Holding(w, path, id) == Spot(w, path) = "Present" /\ w.files[path].id = id
Meets(w, path, expect) ==
    IF expect = Absent THEN Spot(w, path) = "Missing" ELSE Holding(w, path, expect)
NodeAt(w, path) == Spot(w, path) = "Present" /\ w.files[path].content[1] # "Link"

\* The owner a process working at a path drops to: that of the topmost
\* directory above it that is not root's.
TreeOwner(w, path) ==
    LET owned == {n \in 1..(Len(path) - 1) :
                     Has(w, SubSeq(path, 1, n)) /\ w.files[SubSeq(path, 1, n)].owner[1] # 0}
    IN  IF owned = {} THEN ROOT ELSE w.files[SubSeq(path, 1, Min(owned))].owner

Sibling(w, path, purpose) ==
    Front(path) \o <<<<Last(path)[1], purpose, w.acting, w.next>>>>
IsLeftover(component) == Len(component) > 1
Pend(w, path) == [w EXCEPT !.pending = Append(@, path)]
Unpend(w, path) == [w EXCEPT !.pending = SelectSeq(@, LAMBDA p : p # path)]

\* Moves what is at a path to a fresh sibling, which the commit deletes.
Aside(w, path, purpose) ==
    LET to == Sibling(w, path, purpose)
    IN  [w |-> Pend(MoveTree([w EXCEPT !.next = @ + 1], path, to), to), to |-> to]

(***************************************************************************)
(* The outcome of an action.                                               *)
(***************************************************************************)
Done(w, undo) == [ok |-> TRUE, w |-> w, undo |-> undo]
Refused(w) == [ok |-> FALSE, w |-> w, undo |-> <<>>]

Removal(path, id) == [do |-> "RemoveCreated", path |-> path, expect |-> id]
TreeRemoval(path, id) == [do |-> "RemoveCreatedTree", path |-> path, expect |-> id]
Restoring(path, from, expect) ==
    [do |-> "Restore", path |-> path, from |-> from, expect |-> expect]
OnUnit(do, unit) == [do |-> do, unit |-> unit]
DaemonReload == [do |-> "DaemonReload"]

\* The top of the directories CreateDirs has to make.
Top(w, path) ==
    LET missing == {n \in 1..Len(path) : Unreached(w, SubSeq(path, 1, n))}
    IN  SubSeq(path, 1, Min(missing))

\* Whether the machine is as the action expects it: "go", "done" when there
\* is nothing left to do, "no" for a conflict or an error.
Precondition(w, a) ==
    LET Only(holds) == IF holds THEN "go" ELSE "no"
    IN  CASE a.do = "CreateDirs" ->
               IF IsDir(w, a.path) THEN "done"
               ELSE Only(Unreached(w, a.path) /\ Spot(w, Top(w, a.path)) = "Missing")
          [] a.do = "PutFile" -> Only(Meets(w, a.path, a.expect))
          [] a.do = "SetMode" -> Only(NodeAt(w, a.path) /\ w.files[a.path].mode = a.expect)
          [] a.do = "SetOwner" -> Only(NodeAt(w, a.path) /\ w.files[a.path].owner = a.expect)
          [] a.do \in {"SetAside", "Discard"} -> Only(Holding(w, a.path, a.expect))
          [] a.do \in {"RemoveCreated", "RemoveCreatedTree"} ->
               IF Unreached(w, a.path) THEN "done" ELSE Only(Holding(w, a.path, a.expect))
          [] a.do = "Restore" ->
               Only(/\ Front(a.from) = Front(a.path)
                    /\ Spot(w, a.from) = "Present"
                    /\ Meets(w, a.path, a.expect))
          [] a.do = "ReclaimTree" ->
               Only(TreeOwner(w, a.path) = a.owner /\ Holding(w, a.path, a.expect))
          [] OTHER -> "go"

CreateDirs(w, a) ==
    LET top == Top(w, a.path)
        missing == {SubSeq(a.path, 1, n) : n \in Len(top)..Len(a.path)}
        made == [p \in missing |->
                   [content |-> Directory,
                    mode |-> IF p = a.path THEN a.mode ELSE Open,
                    owner |-> a.owner,
                    id |-> w.next + Len(p) - Len(top),
                    changed |-> w.next + Len(p) - Len(top)]]
    IN  Done([w EXCEPT !.files = made @@ @, !.next = @ + Cardinality(missing)],
             <<TreeRemoval(top, w.next)>>)

\* Mutant of PutFile: the undo forgets what the new file replaced.
PutFileForgets(w, a) ==
    LET kept == IF a.expect = Absent THEN w ELSE Aside(w, a.path, "backup").w
    IN  Done(Insert(kept, a.path, a.contents, a.mode, a.owner), <<Removal(a.path, kept.next)>>)

\* The new file takes the name; what it replaces waits beside it for the
\* commit, or for the undo to bring it back.
PutFile(w, a) ==
    IF ~Meets(w, a.path, a.expect) THEN Refused(w)
    ELSE IF a.expect = Absent
    THEN Done(Insert(w, a.path, a.contents, a.mode, a.owner), <<Removal(a.path, w.next)>>)
    ELSE LET kept == Aside([w EXCEPT !.next = @ + 1], a.path, "backup")
             entry == Entry(w, a.contents, a.mode, a.owner)
         IN  Done([kept.w EXCEPT !.files = (a.path :> entry) @@ @],
                  <<Restoring(a.path, kept.to, w.next)>>)

SetMode(w, a) ==
    Done([w EXCEPT !.files[a.path].mode = a.mode],
         <<[a EXCEPT !.mode = a.expect, !.expect = a.mode]>>)

SetOwner(w, a) ==
    Done([w EXCEPT !.files[a.path].owner = a.owner],
         <<[a EXCEPT !.owner = a.expect, !.expect = a.owner]>>)

\* A profile goes where the directory it is in goes.
SetAside(w, a) ==
    LET kept == Aside(w, a.path, "aside")
        uids == {w.files[p].owner[1] : p \in {q \in Subtree(w, a.path) : Last(q) = <<"profiles">>}}
        carried == [uid \in uids \cap DOMAIN w.profiles |-> w.profiles[uid]]
    IN  Done([kept.w EXCEPT !.profiles = Restrict(@, DOMAIN @ \ uids),
                            !.aside = IF DOMAIN carried = {} THEN @ ELSE (kept.to :> carried) @@ @],
             <<Restoring(a.path, kept.to, Absent)>>)

Discard(w, a) == Done(Pend(w, a.path), <<[do |-> "Keep", path |-> a.path]>>)
Keep(w, a) == Done(Unpend(w, a.path), <<>>)

\* A copy of the tree under its owner takes the place of the tree.
ReclaimTree(w, a) ==
    LET tree == Listed(Subtree(w, a.path))
        kept == Aside(w, a.path, "aside")
        copy == [i \in DOMAIN tree |->
                   [w.files[tree[i]] EXCEPT !.owner = a.owner,
                        !.mode = IF tree[i] = a.path THEN a.mode ELSE @ \ {"s"},
                        !.id = kept.w.next + i - 1, !.changed = kept.w.next + i - 1]]
        at == [p \in Range(tree) |-> copy[CHOOSE i \in DOMAIN tree : tree[i] = p]]
    IN  Done([kept.w EXCEPT !.files = at @@ @, !.next = @ + Len(tree)],
             <<TreeRemoval(a.path, at[a.path].id), Restoring(a.path, kept.to, Absent)>>)

RemoveCreated(w, a) ==
    IF Subtree(w, a.path) # {a.path} THEN Refused(w) ELSE Done(Without(w, {a.path}), <<>>)

Restore(w, a) ==
    LET back == Unpend(MoveTree(RemoveTree(w, a.path), a.from, a.path), a.from)
    IN  Done(IF a.from \notin DOMAIN w.aside THEN back
             ELSE [back EXCEPT !.profiles = w.aside[a.from] @@ @,
                               !.aside = Restrict(@, DOMAIN @ \ {a.from})], <<>>)

(***************************************************************************)
(* Accounts.                                                               *)
(***************************************************************************)
GroupIs(w, name, gid) == name \in DOMAIN w.groups /\ w.groups[name].gid = gid
UserIs(w, name, ids) == name \in DOMAIN w.users /\ w.users[name].ids = ids
GidFree(w, name, gid) == \A g \in DOMAIN w.groups : w.groups[g].gid = gid => g = name
UidFree(w, name, uid) == \A u \in DOMAIN w.users : w.users[u].ids[1] = uid => u = name
HasGid(w, gid) == \E g \in DOMAIN w.groups : w.groups[g].gid = gid
Members(w, group) == IF group \in DOMAIN w.groups THEN w.groups[group].members ELSE {}
GroupsOf(w, user) == {g \in DOMAIN w.groups : user \in w.groups[g].members}
InEvery(groups, w, change(_)) ==
    [w EXCEPT !.groups = [g \in DOMAIN @ |->
        IF g \in groups THEN [@[g] EXCEPT !.members = change(@)] ELSE @[g]]]

Membership(do, group, user) == [do |-> do, group |-> group, user |-> user]

DoneAlready(w, a) ==
    CASE a.do \in {"AddGroup", "SetGroupGid"} -> GroupIs(w, a.name, a.gid)
      [] a.do = "DeleteGroup" -> a.name \notin DOMAIN w.groups
      [] a.do \in {"AddUser", "SetUserIds"} -> UserIs(w, a.name, a.ids)
      [] a.do = "DeleteUser" -> a.name \notin DOMAIN w.users
      [] a.do = "AddMember" -> a.user \in Members(w, a.group)
      [] a.do = "RemoveMember" -> a.user \notin Members(w, a.group)
      [] OTHER -> FALSE

AccountPrecondition(w, a) ==
    CASE a.do = "AddGroup" -> a.name \notin DOMAIN w.groups /\ GidFree(w, a.name, a.gid)
      [] a.do = "SetGroupGid" -> GroupIs(w, a.name, a.expect) /\ GidFree(w, a.name, a.gid)
      [] a.do = "DeleteGroup" ->
           /\ GroupIs(w, a.name, a.expect)
           /\ \A u \in DOMAIN w.users : w.users[u].ids[2] # a.expect
      [] a.do = "AddUser" ->
           /\ a.name \notin DOMAIN w.users
           /\ UidFree(w, a.name, a.ids[1])
           /\ HasGid(w, a.ids[2])
           /\ a.groups \subseteq DOMAIN w.groups
      [] a.do = "SetUserIds" ->
           UserIs(w, a.name, a.expect) /\ UidFree(w, a.name, a.ids[1]) /\ HasGid(w, a.ids[2])
      [] a.do = "DeleteUser" ->
           UserIs(w, a.name, a.expect) /\ w.users[a.name].comment = a.comment
      [] a.do = "AddMember" -> a.group \in DOMAIN w.groups /\ a.user \in DOMAIN w.users
      [] a.do = "RemoveMember" -> a.group \in DOMAIN w.groups
      [] OTHER -> TRUE

AddGroup(w, a) ==
    Done([w EXCEPT !.groups = (a.name :> [gid |-> a.gid, members |-> {}]) @@ @],
         <<[do |-> "DeleteGroup", name |-> a.name, expect |-> a.gid]>>)

SetGroupGid(w, a) ==
    Done([w EXCEPT !.groups[a.name].gid = a.gid,
                   !.users = [u \in DOMAIN @ |->
                       IF @[u].ids[2] = a.expect THEN [@[u] EXCEPT !.ids[2] = a.gid] ELSE @[u]]],
         <<[a EXCEPT !.gid = a.expect, !.expect = a.gid]>>)

DeleteGroup(w, a) ==
    Done([w EXCEPT !.groups = Restrict(@, DOMAIN @ \ {a.name})],
         <<[do |-> "AddGroup", name |-> a.name, gid |-> a.expect]>>
           \o Listed({Membership("AddMember", a.name, u) : u \in w.groups[a.name].members}))

AddUser(w, a) ==
    LET added == [w EXCEPT !.users = (a.name :> [ids |-> a.ids, comment |-> a.comment]) @@ @]
    IN  Done(InEvery(a.groups, added, LAMBDA members : members \cup {a.name}),
             <<[do |-> "DeleteUser", name |-> a.name, expect |-> a.ids, comment |-> a.comment]>>)

SetUserIds(w, a) ==
    Done([w EXCEPT !.users[a.name].ids = a.ids],
         <<[a EXCEPT !.ids = a.expect, !.expect = a.ids]>>)

DeleteUser(w, a) ==
    LET gone == [w EXCEPT !.users = Restrict(@, DOMAIN @ \ {a.name})]
    IN  Done(InEvery(DOMAIN w.groups, gone, LAMBDA members : members \ {a.name}),
             <<[do |-> "AddUser", name |-> a.name, ids |-> a.expect, comment |-> a.comment,
                groups |-> GroupsOf(w, a.name)]>>)

AddMember(w, a) ==
    Done(InEvery({a.group}, w, LAMBDA members : members \cup {a.user}),
         <<Membership("RemoveMember", a.group, a.user)>>)

\* Mutant of RemoveMember: everybody leaves the group.
RemoveMembers(w, a) ==
    Done(InEvery({a.group}, w, LAMBDA members : {}), <<Membership("AddMember", a.group, a.user)>>)

RemoveMember(w, a) ==
    Done(InEvery({a.group}, w, LAMBDA members : members \ {a.user}),
         <<Membership("AddMember", a.group, a.user)>>)

(***************************************************************************)
(* Units.  A unit systemd holds, one that runs or is enabled, keeps the    *)
(* file it was loaded with until a reload.                                 *)
(***************************************************************************)
NoUnit == [loaded |-> None, running |-> None, since |-> 0, stamp |-> 0]
UnitOf(w, unit) == IF unit \in DOMAIN w.units THEN w.units[unit] ELSE NoUnit
WantsDir(unit) ==
    SYSTEMD \o P(<<IF unit \in {"nix.service", "mix.service"} THEN "multi-user.target.wants"
                   ELSE "sockets.target.wants">>)
IsWants(path) ==
    /\ Len(path) = Len(SYSTEMD) + 1
    /\ path[Len(path)] \in {<<"multi-user.target.wants">>, <<"sockets.target.wants">>}
SystemdOwned(path) == path # <<>> /\ (IsWants(path) \/ IsWants(Front(path)))

UnitLinks(w, unit) ==
    {p \in DOMAIN w.files : p # <<>> /\ Last(p) = <<unit>> /\ IsWants(Front(p))}
Enabled(w, unit) == UnitLinks(w, unit) # {}
Held(w, unit) == UnitOf(w, unit).running # None \/ Enabled(w, unit)
Running(w, unit) == UnitOf(w, unit).running # None
SetUnit(w, unit, facts) == [w EXCEPT !.units = (unit :> facts) @@ @]

\* Only a unit file with an [Install] section can be linked.
InstallLinks(unit, file) == IF file[1] = "Unit" THEN {WantsDir(unit) \o P(<<unit>>)} ELSE {}

FromDisk(w, unit) ==
    [UnitOf(w, unit) EXCEPT !.loaded = Contents(w, UnitPath(unit)),
                            !.stamp = Stamp(w, UnitPath(unit))]

\* A reload brings every unit systemd holds up to its file.
ReloadUnits(w) ==
    LET files == {p[Len(p)][1] : p \in {q \in DOMAIN w.files :
                     Len(q) = Len(SYSTEMD) + 1 /\ IsPrefix(SYSTEMD, q)
                       /\ ~IsWants(q) /\ ~IsLeftover(Last(q))}}
    IN  [w EXCEPT !.units = [u \in DOMAIN @ \cup files |->
                               IF Held(w, u) THEN FromDisk(w, u) ELSE UnitOf(w, u)]]

\* systemd loads a unit it does not hold when the unit is used.
LoadedUnit(w, unit) == IF Held(w, unit) THEN UnitOf(w, unit) ELSE FromDisk(w, unit)

InstallUnit(w, a) ==
    LET put == PutFile(w, [do |-> "PutFile", path |-> UnitPath(a.unit), contents |-> a.contents,
                           mode |-> Open, owner |-> ROOT, expect |-> a.expect])
    IN  IF put.ok THEN Done(put.w, Append(put.undo, DaemonReload)) ELSE put

EnableUnit(w, a) ==
    LET unit == LoadedUnit(w, a.unit)
        links == InstallLinks(a.unit, unit.loaded)
        known == SetUnit(w, a.unit, unit)
        linked == FoldSet(LAMBDA link, v :
                            Insert(IF Has(v, Front(link)) THEN v
                                   ELSE Insert(v, Front(link), Directory, Open, ROOT),
                                   link, <<"File", a.unit>>, Open \cup {"f"}, ROOT),
                          known, links)
    IN  IF unit.loaded = None THEN Refused(w)
        ELSE Done(ReloadUnits(linked), <<OnUnit("DisableUnit", a.unit)>>)

Forget(w, unit) ==
    IF Held(w, unit) THEN w ELSE SetUnit(w, unit, [UnitOf(w, unit) EXCEPT !.loaded = None])

DisableUnit(w, a) ==
    LET unlinked == Without(w, UnitLinks(w, a.unit))
        empty == {dir \in {Front(link) : link \in UnitLinks(w, a.unit)} :
                     Subtree(unlinked, dir) = {dir}}
    IN  Done(ReloadUnits(Forget(Without(unlinked, empty), a.unit)), <<OnUnit("EnableUnit", a.unit)>>)

StartUnit(w, a) ==
    LET unit == LoadedUnit(w, a.unit)
    IN  IF unit.loaded = None THEN Refused(w)
        ELSE Done([SetUnit(w, a.unit, [unit EXCEPT !.running = unit.loaded, !.since = w.next])
                      EXCEPT !.next = @ + 1], <<OnUnit("StopUnit", a.unit)>>)

StopUnit(w, a) ==
    LET stopped == [UnitOf(w, a.unit) EXCEPT !.running = None, !.since = 0]
    IN  Done(Forget(SetUnit(w, a.unit, stopped), a.unit), <<OnUnit("StartUnit", a.unit)>>)

Restarted(w, unit) ==
    IF ~Running(w, unit) THEN [w EXCEPT !.next = @ + 1]
    ELSE [SetUnit(w, unit, [UnitOf(w, unit) EXCEPT !.running = UnitOf(w, unit).loaded,
                                                   !.since = w.next]) EXCEPT !.next = @ + 1]

RestartUnit(w, a) ==
    Done(Restarted(w, a.unit), IF Running(w, a.unit) THEN <<a>> ELSE <<>>)

DrainService(w, a) == Done(Restarted(w, a.unit), <<>>)

\* systemctl succeeds at once where the unit is already so.
Already(w, a) ==
    CASE a.do = "EnableUnit" -> Enabled(w, a.unit)
      [] a.do = "DisableUnit" -> ~Enabled(w, a.unit)
      [] a.do = "StartUnit" -> Running(w, a.unit)
      [] a.do = "StopUnit" -> ~Running(w, a.unit)
      [] OTHER -> FALSE

(***************************************************************************)
(* The Nix runtime: the store and the default profile.                     *)
(***************************************************************************)
RuntimeFiles ==
    (NIX_ENV :> <<"File", "nix-env">>)
      @@ [p \in {UnitSource(u) : u \in {"nix.service", "nix.socket"}} |-> <<"Unit", p[Len(p)][1], 1>>]

\* Provisioning adds the files of the runtime, none of which may be there, and
\* the directories that are missing.  The undo removes the topmost of the paths
\* it added; a provisioning that fails removes them itself.
InstallRuntime(w, a) ==
    LET files == DOMAIN RuntimeFiles
        dirs == {NIX_STORE} \cup UNION {Above(p) : p \in files}
        new == files \cup (dirs \ DOMAIN w.files)
        order == Listed(new)
        At(p) == w.next + (CHOOSE i \in DOMAIN order : order[i] = p) - 1
        made == [p \in new |->
                   [content |-> IF p \in files THEN RuntimeFiles[p] ELSE Directory,
                    mode |-> IF p \in files THEN ReadOnly
                             ELSE IF p = NIX_STORE THEN Open \cup {"f"} ELSE Open,
                    owner |-> ROOT, id |-> At(p), changed |-> At(p)]]
        tops == {p \in new : Front(p) \notin new}
    IN  IF ~Has(w, P(<<"nix">>)) \/ (\E p \in dirs : IsFile(w, p)) \/ (\E p \in files : Has(w, p))
        THEN Refused(w)
        ELSE Done([w EXCEPT !.files = made @@ @, !.next = @ + Cardinality(new)],
                  <<[do |-> "RemoveRuntime", created |-> tops]>>)

RemoveRuntime(w, a) == Done(RemoveTrees(w, a.created), <<>>)

(***************************************************************************)
(* A user's profile: generations, the active one, and the configuration    *)
(* each was built from.                                                    *)
(***************************************************************************)
NoProfile == [generations |-> {}, active |-> 0, built |-> <<>>, dangling |-> {}]
ProfileOf(w, user) == IF user.ids[1] \in DOMAIN w.profiles THEN w.profiles[user.ids[1]] ELSE NoProfile
SetProfile(w, user, profile) == [w EXCEPT !.profiles = (user.ids[1] :> profile) @@ @]
Configuration(w, user) ==
    [i \in DOMAIN GENERATION_INPUTS |->
        Contents(w, STATE_DIR(user.home) \o P(<<GENERATION_INPUTS[i]>>))]
ActiveInput(w, user, i) ==
    LET profile == ProfileOf(w, user)
    IN  IF profile.active \in DOMAIN profile.built THEN profile.built[profile.active][i] ELSE None

OnProfile(do, user, generation, expect) ==
    [do |-> do, user |-> user, generation |-> generation, expect |-> expect]
ApplyingGeneration(user) == [do |-> "ApplyGeneration", user |-> user]

\* A generation built from the same configuration is switched to; otherwise
\* one is built and numbered after the last.
ActivateProfile(w, a) ==
    LET profile == ProfileOf(w, a.user)
        config == Configuration(w, a.user)
        same == {g \in profile.generations \ profile.dangling :
                    g \in DOMAIN profile.built /\ profile.built[g] = config}
        reused == Max(same)
        next == IF profile.generations = {} THEN 1 ELSE Max(profile.generations) + 1
        Switch(to) == OnProfile("SwitchGeneration", a.user, profile.active, to)
    IN  IF Contents(w, NIX_ENV) = None THEN Refused(w)
        ELSE IF same # {}
        THEN Done(SetProfile(w, a.user, [profile EXCEPT !.active = reused]),
                  IF profile.active = reused THEN <<>>
                  ELSE <<Switch(reused), ApplyingGeneration(a.user)>>)
        ELSE Done(SetProfile(w, a.user, [profile EXCEPT !.generations = @ \cup {next},
                                 !.built = (next :> config) @@ @, !.active = next]),
                  <<Switch(next), OnProfile("DeleteGeneration", a.user, next, 0),
                    ApplyingGeneration(a.user)>>)

DeleteGeneration(w, a) ==
    LET profile == ProfileOf(w, a.user)
        kept == [profile EXCEPT !.generations = @ \ {a.generation},
                                !.dangling = @ \ {a.generation},
                                !.built = Restrict(@, DOMAIN @ \ {a.generation})]
    IN  IF profile.active = a.generation \/ a.generation \notin profile.generations THEN Refused(w)
        ELSE IF kept.generations = {} /\ kept.active = 0
        THEN Done([w EXCEPT !.profiles = Restrict(@, DOMAIN @ \ {a.user.ids[1]})], <<>>)
        ELSE Done(SetProfile(w, a.user, kept), <<>>)

SwitchGeneration(w, a) ==
    LET profile == ProfileOf(w, a.user)
    IN  IF profile.active # a.expect THEN Refused(w)
        ELSE Done(SetProfile(w, a.user, [profile EXCEPT !.active = a.generation]),
                  <<[a EXCEPT !.generation = a.expect, !.expect = a.generation]>>)

(***************************************************************************)
(* The user's repository.  Its objects are folded into the branch that     *)
(* names them: <<"Commit", time, snapshot>>.                               *)
(***************************************************************************)
HEAD == <<"File", "ref: refs/heads/main">>
CONFIG == <<"File", "repository config">>
InGit(user, names) == REPOSITORY(user.home) \o P(names)
BRANCH(user) == InGit(user, <<"refs", "main">>)

Allowed(entry, uid) == uid = 0 \/ (IF entry.owner[1] = uid THEN "r" ELSE "a") \in entry.mode
Readable(w, path, uid) ==
    IF /\ Contents(w, path) # None
       /\ Allowed(w.files[path], uid)
       /\ \A dir \in Above(path) : Has(w, dir) => Allowed(w.files[dir], uid)
    THEN Contents(w, path) ELSE None

Staged(w, user) ==
    LET At(name) == Readable(w, STATE_DIR(user.home) \o P(<<name>>), user.ids[1])
    IN  [name \in {n \in MANAGED_FILES : At(n) # None} |-> At(name)]

\* The snapshot HEAD names, the empty one of a branch not born yet, or none:
\* <<snapshot>> or <<>>.
Committed(w, user) ==
    LET branch == Readable(w, BRANCH(user), user.ids[1])
        sound == /\ Readable(w, InGit(user, <<"HEAD">>), user.ids[1]) = HEAD
                 /\ IsDir(w, InGit(user, <<"objects">>))
                 /\ IsDir(w, InGit(user, <<"refs">>))
    IN  IF ~sound THEN None
        ELSE IF ~Has(w, BRANCH(user)) THEN <<<<>>>>
        ELSE IF branch # None /\ branch[1] = "Commit" THEN <<branch[3]>> ELSE None

Usable(w, user) ==
    /\ Readable(w, InGit(user, <<"config">>), user.ids[1]) = CONFIG
    /\ ~IsDir(w, InGit(user, <<"index">>))
Intact(w, user) == Usable(w, user) /\ Committed(w, user) # None
Recorded(w, user) ==
    /\ Intact(w, user)
    /\ Committed(w, user) = <<Staged(w, user)>>
    /\ Readable(w, InGit(user, <<"index">>), user.ids[1]) = <<"Index", Staged(w, user)>>

InitRepository(w, user) ==
    LET parts == <<<<<<>>, Directory>>, <<<<"HEAD">>, HEAD>>, <<<<"config">>, CONFIG>>,
                   <<<<"objects">>, Directory>>, <<<<"refs">>, Directory>>>>
    IN  FoldLeft(LAMBDA v, part : Insert(v, InGit(user, part[1]), part[2], Open, user.ids),
                 w, parts)

\* A record is a commit of the managed files where the branch does not hold
\* them already; a lock another git left, or a broken HEAD, stops it.
SyncRepository(w, user) ==
    LET staged == Staged(w, user)
        head == Readable(w, InGit(user, <<"HEAD">>), user.ids[1])
        indexed == Insert(w, InGit(user, <<"index">>), <<"Index", staged>>, Open, user.ids)
        refused == \/ ~IsDir(w, REPOSITORY(user.home)) \/ head # HEAD
                   \/ IsDir(w, InGit(user, <<"index">>))
                   \/ Has(w, InGit(user, <<"index.lock">>))
                   \/ ~IsDir(w, InGit(user, <<"objects">>)) /\ DOMAIN staged # {}
    IN  IF refused THEN w
        ELSE IF Committed(w, user) = <<staged>> \/ ~IsDir(w, InGit(user, <<"refs">>)) THEN indexed
        ELSE Insert(indexed, BRANCH(user), <<"Commit", indexed.next, staged>>, Open, user.ids)

\* mix's own config is put back before anything is recorded under it.
OwnConfig(w, user) ==
    LET config == InGit(user, <<"config">>)
    IN  IF ~IsDir(w, REPOSITORY(user.home)) \/ Contents(w, config) = CONFIG THEN Done(w, <<>>)
        ELSE PutFile(w, [do |-> "PutFile", path |-> config, contents |-> CONFIG, mode |-> Open,
                         owner |-> user.ids,
                         expect |-> IF Has(w, config) THEN w.files[config].id ELSE Absent])

\* Recording is best effort: what cannot be recorded fails no request.
RecordState(w, a) ==
    LET repository == REPOSITORY(a.user.home)
        owned == OwnConfig(w, a.user)
        made == SyncRepository(InitRepository(w, a.user), a.user)
    IN  IF Has(w, repository)
        THEN Done(IF owned.ok THEN SyncRepository(owned.w, a.user) ELSE w, owned.undo)
        ELSE IF Spot(w, repository) # "Missing" THEN Done(w, <<>>)
        ELSE Done(made, <<TreeRemoval(repository, w.next)>>)

CreateRepository(w, a) ==
    IF Spot(w, REPOSITORY(a.user.home)) # "Missing" THEN Refused(w)
    ELSE Done(InitRepository(w, a.user), <<TreeRemoval(REPOSITORY(a.user.home), w.next)>>)

(***************************************************************************)
(* Applying an action, and what makes two machines the same.               *)
(***************************************************************************)
Commit(w) ==
    [RemoveTrees(w, Range(w.pending)) EXCEPT
        !.pending = <<>>, !.aside = Restrict(@, DOMAIN @ \ Range(w.pending))]

Effect(w, a) ==
    CASE a.do = "CreateDirs" -> CreateDirs(w, a)
      [] a.do = "PutFile" -> PutFile(w, a)
      [] a.do = "SetMode" -> SetMode(w, a)
      [] a.do = "SetOwner" -> SetOwner(w, a)
      [] a.do = "SetAside" -> SetAside(w, a)
      [] a.do = "Discard" -> Discard(w, a)
      [] a.do = "Keep" -> Keep(w, a)
      [] a.do = "ReclaimTree" -> ReclaimTree(w, a)
      [] a.do = "RemoveCreated" -> RemoveCreated(w, a)
      [] a.do = "RemoveCreatedTree" -> Done(RemoveTree(w, a.path), <<>>)
      [] a.do = "Restore" -> Restore(w, a)
      [] a.do = "AddGroup" -> AddGroup(w, a)
      [] a.do = "SetGroupGid" -> SetGroupGid(w, a)
      [] a.do = "DeleteGroup" -> DeleteGroup(w, a)
      [] a.do = "AddUser" -> AddUser(w, a)
      [] a.do = "SetUserIds" -> SetUserIds(w, a)
      [] a.do = "DeleteUser" -> DeleteUser(w, a)
      [] a.do = "AddMember" -> AddMember(w, a)
      [] a.do = "RemoveMember" -> RemoveMember(w, a)
      [] a.do = "InstallUnit" -> InstallUnit(w, a)
      [] a.do = "DaemonReload" -> Done(ReloadUnits(w), <<DaemonReload>>)
      [] a.do = "EnableUnit" -> EnableUnit(w, a)
      [] a.do = "DisableUnit" -> DisableUnit(w, a)
      [] a.do = "StartUnit" -> StartUnit(w, a)
      [] a.do = "StopUnit" -> StopUnit(w, a)
      [] a.do = "RestartUnit" -> RestartUnit(w, a)
      [] a.do = "DrainService" -> DrainService(w, a)
      [] a.do = "InstallRuntime" -> InstallRuntime(w, a)
      [] a.do = "RemoveRuntime" -> RemoveRuntime(w, a)
      [] a.do = "ActivateProfile" -> ActivateProfile(w, a)
      [] a.do = "DeleteGeneration" -> DeleteGeneration(w, a)
      [] a.do = "SwitchGeneration" -> SwitchGeneration(w, a)
      [] a.do = "ApplyGeneration" -> Done(w, <<a>>)
      [] a.do = "CollectGarbage" -> Done(w, <<>>)
      [] a.do = "RecordState" -> RecordState(w, a)
      [] a.do = "CreateRepository" -> CreateRepository(w, a)

Apply(w, a) ==
    IF Already(w, a) THEN Done(w, <<>>)
    ELSE IF Precondition(w, a) = "no" THEN Refused(w)
    ELSE IF Precondition(w, a) = "done" \/ DoneAlready(w, a) THEN Done(w, <<>>)
    ELSE IF ~AccountPrecondition(w, a) THEN Refused(w)
    ELSE Effect(w, a)

\* What two machines are compared by: systemd's own links by what they are,
\* the units systemd holds by what they were loaded with and run, and the
\* numbers handed out not at all.
Comparable(w) ==
    [files |-> [p \in DOMAIN w.files |->
                  IF SystemdOwned(p) THEN [w.files[p] EXCEPT !.id = 0, !.changed = 0]
                  ELSE w.files[p]],
     groups |-> w.groups, users |-> w.users, profiles |-> w.profiles, aside |-> w.aside,
     units |-> [u \in {v \in DOMAIN w.units : Held(w, v)} |-> <<w.units[u].loaded, w.units[u].running>>],
     pending |-> w.pending]
=============================================================================
