------------------------------- MODULE Health -------------------------------
(***************************************************************************)
(* What a look at a target finds, the actions that put it right, the audit *)
(* of a whole machine, and the steps that reconcile a machine with what is *)
(* declared of it.                                                         *)
(*                                                                         *)
(* Source: crates/core/src/ops/health/mod.rs.  A finding is its name; what *)
(* it measured is read from the machine again where a fix needs it.        *)
(***************************************************************************)
EXTENDS Declared

Healthy == "healthy"

Unfixable ==
    {"NotADirectory", "NoSuchUser", "RuntimeMissing", "InTheWay", "NotALink", "NewerState",
     "Outside", "Interrupted"}

Mode(w, path) == w.files[path].mode
Owner(w, path) == w.files[path].owner
Id(w, path) == IF Has(w, path) THEN w.files[path].id ELSE Absent
KindOf(w, path) == IF Has(w, path) THEN w.files[path].content[1] ELSE "Missing"

Shape(w, path, mode, owner) ==
    IF Owner(w, path) # owner THEN "Owner"
    ELSE IF Mode(w, path) # Settled(mode, Mode(w, path), owner) THEN "Mode" ELSE Healthy

UnitSourceOf(w, unit) == IF ShippedByMix(unit) THEN UnitText(unit) ELSE Contents(w, UnitSource(unit))

\* A list mix can read: its format, and that it names what mix needs.
Newer(list) == list # None /\ list[1] = "List" /\ list[2] > 1
Valid(list) == list # None /\ list[1] = "List" /\ list[2] = 1 /\ SeedPackages \subseteq list[3]
ValidOrNone(list) == IF Valid(list) THEN list ELSE None

Dangling(w, user) == ProfileOf(w, user).dangling
OldGenerations(w, user) == ProfileOf(w, user).generations \ {ProfileOf(w, user).active}

\* Siblings of interrupted writes, but not those of a request whose journal is
\* still there, nor of the request that asks.
LeftoverPaths(w, dir, running) ==
    {p \in DOMAIN w.files :
        /\ p # <<>> /\ Front(p) = dir /\ IsLeftover(Last(p))
        /\ p \notin Range(w.pending)
        /\ Last(p)[3] \notin DOMAIN w.journals \cup running}

(***************************************************************************)
(* What a look at a target finds.                                          *)
(***************************************************************************)
ClassifyFile(w, t) ==
    IF ~Has(w, t.path) THEN "Missing"
    ELSE IF KindOf(w, t.path) = "Directory" THEN "Unreadable"
    ELSE IF Contents(w, t.path) # t.contents THEN "ContentDrift"
    ELSE Shape(w, t.path, t.mode, t.owner)

ClassifyUnit(w, t) ==
    LET source == UnitSourceOf(w, t.unit)
        installed == Contents(w, t.path)
    IN  IF installed = None
        THEN IF source = None THEN "RuntimeMissing"
             ELSE IF Has(w, t.path) THEN "UnitDrift" ELSE "UnitMissing"
        ELSE IF source # None /\ source # installed THEN "UnitDrift"
        ELSE Shape(w, t.path, SYSTEM_FILE, ROOT)

ClassifyAccount(w, t) ==
    CASE t.t = "Group" ->
           IF t.name \notin DOMAIN w.groups THEN "GroupMissing"
           ELSE IF w.groups[t.name].gid # t.gid THEN "GroupGid" ELSE Healthy
      [] t.t = "GroupMember" ->
           IF t.user \in Members(w, t.group) THEN Healthy
           ELSE IF t.user \in DOMAIN w.users THEN "NotAMember" ELSE "NoSuchUser"
      [] t.t = "User" ->
           IF t.name \notin DOMAIN w.users THEN "UserMissing"
           ELSE IF w.users[t.name].ids # t.ids THEN "UserIds" ELSE Healthy

ClassifyRepository(w, t) ==
    IF t.t = "Repository"
    THEN IF ~Has(w, t.path) THEN "Missing"
         ELSE IF ~IsDir(w, t.path) THEN "RepositoryBroken"
         ELSE IF \E p \in Subtree(w, t.path) : Owner(w, p) # t.user.ids THEN "Owner"
         ELSE Healthy
    ELSE IF ~Intact(w, t.user) THEN "RepositoryBroken"
         ELSE IF Has(w, InGit(t.user, <<"index.lock">>)) THEN "RepositoryLocked" ELSE Healthy

\* The active generation was built from the list, with the pins, that are due.
ClassifyActivation(w, t) ==
    LET listed == Contents(w, STATE_DIR(t.user.home) \o P(<<"state">>))
        active == ValidOrNone(ActiveInput(w, t.user, 1))
        otherPins == active # None /\ ActiveInput(w, t.user, 3) # <<"Lock", t.pins>>
    IN  IF listed = None THEN Healthy
        ELSE IF Newer(listed) THEN "NewerState"
        ELSE IF active # ValidOrNone(listed) \/ otherPins THEN "ProfileStale" ELSE Healthy

Classify(w, t) ==
    CASE t.t = "Link" ->
           IF KindOf(w, t.path) \in {"Missing", "Link"} THEN Healthy ELSE "NotALink"
      [] t.t = "Precondition" ->
           IF IsDir(w, t.path) THEN Healthy
           ELSE IF Has(w, t.path) THEN "NotADirectory" ELSE "Missing"
      [] t.t \in {"Parent", "Directory"} ->
           IF ~Has(w, t.path) THEN "Missing"
           ELSE IF ~IsDir(w, t.path) THEN "NotADirectory"
           ELSE Shape(w, t.path, t.mode, t.owner)
      [] t.t = "File" -> ClassifyFile(w, t)
      [] t.t = "SeededFile" ->
           IF ~Has(w, t.path) THEN "Missing" ELSE Shape(w, t.path, t.mode, t.owner)
      [] t.t \in {"Group", "GroupMember", "User"} -> ClassifyAccount(w, t)
      [] t.t = "SystemdUnit" -> ClassifyUnit(w, t)
      [] t.t = "UnitActive" -> IF Running(w, t.unit) THEN Healthy ELSE "UnitInactive"
      [] t.t = "PathExists" -> IF Has(w, t.path) THEN Healthy ELSE "RuntimeMissing"
      [] t.t \in {"Repository", "History"} -> ClassifyRepository(w, t)
      [] t.t = "Program" ->
           IF ~Has(w, t.path) THEN "Missing"
           ELSE IF Contents(w, t.path) # Program THEN "ContentDrift"
           ELSE Shape(w, t.path, t.mode, ROOT)
      [] t.t = "Journals" -> IF DOMAIN w.journals # {} THEN "Interrupted" ELSE Healthy
      [] t.t = "Leftovers" ->
           IF LeftoverPaths(w, t.path, {}) # {} THEN "Leftovers" ELSE Healthy
      [] t.t = "Generations" ->
           IF Dangling(w, t.user) # {} THEN "GenerationDangling" ELSE Healthy
      [] t.t = "HomeFiles" ->
           IF t.user.ids[1] \in w.clobbered THEN "InTheWay" ELSE Healthy
      [] t.t = "Activation" -> ClassifyActivation(w, t)
      [] t.t = "Retention" ->
           IF OldGenerations(w, t.user) # {} \/ t.collect THEN "OldGenerations" ELSE Healthy

(***************************************************************************)
(* What puts it right.                                                     *)
(***************************************************************************)
Putting(w, path, contents, mode, owner) ==
    [do |-> "PutFile", path |-> path, contents |-> contents, mode |-> mode, owner |-> owner,
     expect |-> Id(w, path)]
SettingAside(w, path) ==
    IF Has(w, path) THEN <<[do |-> "SetAside", path |-> path, expect |-> Id(w, path)]>> ELSE <<>>
Creating(t) == <<[do |-> "CreateDirs", path |-> t.path, mode |-> t.mode[2], owner |-> t.owner]>>
Reclaiming(w, path, owner, mode) ==
    [do |-> "ReclaimTree", path |-> path, expect |-> Id(w, path), owner |-> owner, mode |-> mode]

Remode(w, path, mode, owner) ==
    LET settled == Settled(mode, Mode(w, path), owner)
    IN  IF Mode(w, path) = settled THEN <<>>
        ELSE <<[do |-> "SetMode", path |-> path, mode |-> settled, expect |-> Mode(w, path)]>>
Reowning(w, path, owner) ==
    IF Owner(w, path) = owner THEN <<>>
    ELSE <<[do |-> "SetOwner", path |-> path, owner |-> owner, expect |-> Owner(w, path)]>>
Reshape(w, path, mode, owner) == Reowning(w, path, owner) \o Remode(w, path, mode, owner)

\* Inside a user's own tree root does not change an owner in place: a copy of
\* what is there takes its place.
ReclaimedBy(w, path, owner) ==
    owner[1] # 0 /\ Owner(w, path) # owner /\ TreeOwner(w, path)[1] = owner[1]
OwnAgain(w, path, owner) ==
    IF ReclaimedBy(w, path, owner) THEN <<Reclaiming(w, path, owner, Mode(w, path))>>
    ELSE Reowning(w, path, owner)

\* Mutant of FixDirectory: a directory keeps whatever owner it has.
FixDirectoryMode(w, t) ==
    IF ~Has(w, t.path) THEN Creating(t) ELSE Remode(w, t.path, t.mode, t.owner)

FixDirectory(w, t) ==
    IF ~Has(w, t.path) THEN Creating(t)
    ELSE IF ReclaimedBy(w, t.path, t.owner)
    THEN <<Reclaiming(w, t.path, t.owner, Settled(t.mode, Mode(w, t.path), t.owner))>>
    ELSE Remode(w, t.path, t.mode, t.owner) \o Reowning(w, t.path, t.owner)

FixFile(w, t) ==
    LET found == IF IsFile(w, t.path) /\ KindOf(w, t.path) # "Link" THEN Mode(w, t.path) ELSE Open
    IN  IF Contents(w, t.path) # t.contents
        THEN <<Putting(w, t.path, t.contents, Settled(t.mode, found, t.owner), t.owner)>>
        ELSE OwnAgain(w, t.path, t.owner) \o Remode(w, t.path, t.mode, t.owner)

FixAccount(w, t, finding, request) ==
    CASE finding = "GroupGid" ->
           <<[do |-> "SetGroupGid", name |-> t.name, gid |-> t.gid, expect |-> w.groups[t.name].gid]>>
      [] finding = "GroupMissing" -> <<[do |-> "AddGroup", name |-> t.name, gid |-> t.gid]>>
      [] finding = "NotAMember" -> <<Membership("AddMember", t.group, t.user)>>
      [] finding = "UserIds" ->
           <<[do |-> "SetUserIds", name |-> t.name, ids |-> t.ids, expect |-> w.users[t.name].ids]>>
      [] finding = "UserMissing" ->
           <<[do |-> "AddUser", name |-> t.name, ids |-> t.ids, comment |-> request,
              groups |-> {"nixbld"}]>>

FixUnit(w, t, finding) ==
    IF finding \in {"Owner", "Mode"} THEN Reshape(w, t.path, SYSTEM_FILE, ROOT)
    ELSE <<[do |-> "InstallUnit", unit |-> t.unit, contents |-> UnitSourceOf(w, t.unit),
            expect |-> Id(w, t.path)], DaemonReload>>

Replaced(w, user) ==
    Append(SettingAside(w, REPOSITORY(user.home)), [do |-> "CreateRepository", user |-> user])

FixRepository(w, t, finding) ==
    CASE finding = "Owner" -> <<Reclaiming(w, t.path, t.user.ids, Mode(w, t.path))>>
      [] finding = "RepositoryLocked" -> SettingAside(w, InGit(t.user, <<"index.lock">>))
      [] OTHER -> Replaced(w, t.user)

Deleting(user, generations) ==
    LET order == SetToSortSeq(generations, LAMBDA a, b : a < b)
    IN  [i \in DOMAIN order |-> OnProfile("DeleteGeneration", user, order[i], 0)]
Activating(user) == <<[do |-> "ActivateProfile", user |-> user]>>

FixProfile(w, t) ==
    CASE t.t = "Activation" -> Activating(t.user)
      [] t.t = "Retention" ->
           Deleting(t.user, OldGenerations(w, t.user))
             \o (IF t.collect THEN <<[do |-> "CollectGarbage", user |-> t.user]>> ELSE <<>>)
      [] t.t = "Generations" ->
           (IF ProfileOf(w, t.user).active \in Dangling(w, t.user) THEN Activating(t.user) ELSE <<>>)
             \o Deleting(t.user, Dangling(w, t.user))

CannotFix(t, finding) ==
    \/ finding \in Unfixable /\ ~(t.t = "PathExists" /\ t.install)
    \/ t.t \in {"Precondition", "Link", "HomeFiles"}

Fix(w, t, finding, request) ==
    CASE t.t = "PathExists" -> <<[do |-> "InstallRuntime"]>>
      [] t.t = "Parent" ->
           IF finding \in {"Owner", "Mode"} THEN Reshape(w, t.path, t.mode, t.owner) ELSE Creating(t)
      [] t.t = "Directory" -> FixDirectory(w, t)
      [] t.t = "File" -> FixFile(w, t)
      [] t.t = "SeededFile" ->
           IF ~Has(w, t.path)
           THEN <<Putting(w, t.path, t.contents, Settled(t.mode, Open, t.owner), t.owner)>>
           ELSE OwnAgain(w, t.path, t.owner) \o Remode(w, t.path, t.mode, t.owner)
      [] t.t \in {"Group", "GroupMember", "User"} -> FixAccount(w, t, finding, request)
      [] t.t = "SystemdUnit" -> FixUnit(w, t, finding)
      [] t.t = "UnitActive" -> <<OnUnit("EnableUnit", t.unit), OnUnit("StartUnit", t.unit)>>
      [] t.t \in {"Repository", "History"} -> FixRepository(w, t, finding)
      [] t.t = "Program" ->
           IF finding \in {"Owner", "Mode"} THEN Reshape(w, t.path, t.mode, ROOT)
           ELSE <<Putting(w, t.path, Program, t.mode[2], ROOT)>>
      [] t.t = "Leftovers" ->
           LET paths == Listed(LeftoverPaths(w, t.path, {request}))
           IN  [i \in DOMAIN paths |-> TreeRemoval(paths[i], Id(w, paths[i]))]
      [] t.t \in {"Activation", "Retention", "Generations"} -> FixProfile(w, t)

(***************************************************************************)
(* The audit: every check in order.  A check that waits on an unhealthy    *)
(* one, or on a path an interrupted request still has to settle, is        *)
(* reported as blocked by it and not looked at.                            *)
(***************************************************************************)
Subject(a) ==
    IF "path" \in DOMAIN a THEN a.path
    ELSE IF "name" \in DOMAIN a THEN <<a.name>>
    ELSE IF "group" \in DOMAIN a THEN <<a.user>>
    ELSE IF "unit" \in DOMAIN a THEN <<a.unit>> ELSE <<>>
Unsettled(w) ==
    {Subject(a) : a \in UNION {Range(FlattenSeq(w.journals[r])) : r \in DOMAIN w.journals}}

Audit(w, checks) ==
    LET Settling(reports, target) ==
          {i \in DOMAIN reports : reports[i].finding = "Interrupted"
                                    /\ Label(target) \in Unsettled(w)}
        Causes(reports, check) ==
          {reports[i].cause : i \in WaitsOn(check)} \ {0}
        Look(reports, check) ==
          LET blocking == Causes(reports, check) \cup Settling(reports, check.target)
              finding == Classify(w, check.target)
          IN  IF blocking # {} THEN [finding |-> "blocked", cause |-> Min(blocking)]
              ELSE [finding |-> finding,
                    cause |-> IF finding = Healthy THEN 0 ELSE Len(reports) + 1]
    IN  FoldLeft(LAMBDA reports, check : Append(reports, Look(reports, check)), <<>>, checks)

(***************************************************************************)
(* The steps of a reconciliation.  A step is its kind, what it is about    *)
(* and what it waits on.                                                   *)
(***************************************************************************)
Step(kind, about, waits) == [kind |-> kind, about |-> about, waits |-> waits]

ReconcileSteps(before, checks) ==
    LET offset == Len(before)
        Where(Wanted(_)) == {i + offset : i \in {j \in DOMAIN checks : Wanted(checks[j].target)}}
        Unit(unit) == Where(LAMBDA t : t.t = "SystemdUnit" /\ t.unit = unit)
        nixConf == Where(LAMBDA t : t.t = "File" /\ t.path = NIX_CONF_DEST)
        program == Where(LAMBDA t : t.t = "Program")
        activation == Where(LAMBDA t : t.t = "Activation")
        history == Where(LAMBDA t : t.t = "History")
        targets == [i \in DOMAIN checks |->
                      Step("target", checks[i].target, {j + offset : j \in WaitsOn(checks[i])})]
        If(found, steps) == IF found = {} THEN <<>> ELSE steps
    IN  before \o targets
          \o If(Unit("nix.service"),
                <<Step("restart", "nix.service", nixConf \cup Unit("nix.service"))>>)
          \o If(Unit("mix.service"),
                <<Step("drain", "mix.service", program \cup Unit("mix.service"))>>)
          \o If(history, <<Step("record", targets[Min(history) - offset].about.user,
                                history \cup activation)>>)

\* A service that runs since before its files changed.
StaleSince(w, unit, paths) ==
    Running(w, unit) /\ \E p \in paths : Stamp(w, p) > UnitOf(w, unit).since

\* What a reconciling step does where it looks: a plan of actions, or a
\* failure where what it found is not mix's to repair.
Planned(actions) == [ok |-> TRUE, actions |-> actions]
Unrepairable == [ok |-> FALSE, actions |-> <<>>]
ReconcileActions(w, step, request) ==
    LET finding == Classify(w, step.about)
    IN  CASE step.kind = "target" ->
               IF finding = Healthy THEN Planned(<<>>)
               ELSE IF CannotFix(step.about, finding) THEN Unrepairable
               ELSE Planned(Fix(w, step.about, finding, request))
          [] step.kind = "restart" ->
               Planned(IF StaleSince(w, "nix.service", {NIX_CONF_DEST})
                       THEN <<OnUnit("RestartUnit", "nix.service")>> ELSE <<>>)
          [] step.kind = "drain" ->
               Planned(IF StaleSince(w, "mix.service", {MIX_DAEMON_BIN, UnitPath("mix.service"),
                                                        UnitPath("mix.socket")})
                       THEN <<OnUnit("DrainService", "mix.service")>> ELSE <<>>)
          [] step.kind = "record" ->
               Planned(IF Intact(w, step.about) /\ ~Recorded(w, step.about)
                       THEN <<[do |-> "RecordState", user |-> step.about]>> ELSE <<>>)
=============================================================================
