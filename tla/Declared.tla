------------------------------ MODULE Declared ------------------------------
(***************************************************************************)
(* What mix declares of a machine: every account, directory, file and unit *)
(* it is responsible for, as targets in a tree.                            *)
(*                                                                         *)
(* Source: crates/core/src/declared/targets.rs, paths.rs, identity.rs.  Of *)
(* the paths of one kind (the directories under /nix/var, the build users) *)
(* one stands for all.                                                     *)
(***************************************************************************)
EXTENDS Machine, Tree

Exact(bits) == <<"Exact", bits>>
AtLeast(bits) == <<"AtLeast", bits>>

\* The permission bits a path is to have: what it has already and the ones it
\* must have, without the ones that let others write what root owns.
Settled(mode, found, owner) ==
    IF mode[1] = "Exact" THEN mode[2]
    ELSE (found \cup mode[2]) \ (IF owner[1] = 0 THEN {"f"} \ mode[2] ELSE {})

SYSTEM_FILE == AtLeast(Open)
USER_FILE == AtLeast(Private)

NIXBLD_GID == 30
MIX_USERS_GID == 31
Builder == "nixbld1"
BUILDER_IDS == <<31, NIXBLD_GID>>

NIX == P(<<"nix">>)
MARKER == P(<<"nix", ".mix">>)
NIX_VAR == P(<<"nix", "var">>)
NIXBLD_HOME == P(<<"var", "empty">>)
MIX_VAR_DIR == P(<<"var", "mix">>)
MIX_BIN_DIR == P(<<"var", "mix", "bin">>)
MIX_DAEMON_BIN == P(<<"var", "mix", "bin", "mix-daemon">>)
JOURNAL_DIR == P(<<"var", "mix", "journal">>)
POLICY_DIR == P(<<"etc", "mix">>)
POLICY_FILE == P(<<"etc", "mix", "policy">>)
NIX_CONF_DEST == P(<<"etc", "nix", "nix.conf">>)
PROFILE_SNIPPET_DEST == P(<<"etc", "profile.d", "mix-nix.sh">>)
NIX_PROFILE_LINK(home) == home \o P(<<".nix-profile">>)
GENERATIONS(home) == PROFILES_DIR(home) \o P(<<"home-manager">>)
UNIT_NAMES == <<"mix.service", "mix.socket", "nix.service", "nix.socket">>

Policy == <<"File", "policy">>
NixConf == <<"File", "nix.conf">>
Snippet == <<"File", "snippet">>
Program == <<"File", "mix-daemon">>
GitIgnore == <<"File", "gitignore">>
SeedPackages == {"git"}
Seed == <<"List", 1, SeedPackages>>

(***************************************************************************)
(* Targets.                                                                *)
(***************************************************************************)
PathTarget(t, path) == [t |-> t, path |-> path]
Shaped(t, path, mode, owner) == [t |-> t, path |-> path, mode |-> mode, owner |-> owner]
FileTarget(path, contents, mode, owner) ==
    [t |-> "File", path |-> path, contents |-> contents, mode |-> mode, owner |-> owner]
UserTarget(t, path, user) == [t |-> t, path |-> path, user |-> user]
UnitTarget(unit) == [t |-> "SystemdUnit", unit |-> unit, path |-> UnitPath(unit)]

\* What names a target in a report, and in the journal of a request that was
\* interrupted at it.
Label(target) ==
    CASE target.t \in {"History", "HomeFiles", "Leftovers", "Activation", "Retention"} ->
           <<target.path, target.t>>
      [] target.t \in {"Group", "User"} -> <<target.name>>
      [] target.t = "GroupMember" -> <<target.user>>
      [] target.t \in {"SystemdUnit", "UnitActive"} -> <<target.unit, target.t>>
      [] OTHER -> target.path

Writes(target) ==
    target.t \in {"Parent", "Directory", "File", "SeededFile", "SystemdUnit", "Program",
                  "Repository"}
LeftoversIn(dir) == PathTarget("Leftovers", dir)

\* The text mix ships for its own units; the Nix units come from the runtime.
UnitText(unit) == <<"Unit", unit, 1>>
ShippedByMix(unit) == unit \in {"mix.service", "mix.socket"}

(***************************************************************************)
(* The tree of one user, and of the machine.                               *)
(***************************************************************************)
\* No two targets of one declaration have the same path.
DeclarePaths(drafts, targets) ==
    drafts \o [i \in DOMAIN targets |-> Draft(targets[i].path, 0, <<targets[i]>>)]
Deferred(drafts, at, targets) == [drafts EXCEPT ![at].up = @ \o targets]

\* The checks made on the way up: activation and the repository come after
\* everything below the state directory, and after the link a profile is
\* reached by.
DeferredTo(intent, home, user, deferred, placed) ==
    LET generations == AtPath(placed, GENERATIONS(home))
        retention == [t |-> "Retention", path |-> GENERATIONS(home), user |-> user,
                      collect |-> intent.retention = "all"]
        above == AtPath(placed, home \o P(<<"state">>))
        retained == Deferred(placed, generations,
                             IF intent.retention = "none" THEN <<>> ELSE <<retention>>)
        homed == AddUp(retained, AtPath(placed, home), UserTarget("HomeFiles", home, user))
    IN  Deferred(AddUpRefers(homed, above, AtPath(placed, NIX_PROFILE_LINK(home))),
                 above, deferred)

UserTree(drafts, intent, members) ==
    LET cfg == intent.cfg[1]
        user == cfg.user
        home == user.home
        states == home \o P(<<"state">>)
        InState(name) == STATE_DIR(home) \o P(<<name>>)
        ParentOf(path) == Shaped("Parent", path, AtLeast(Private), user.ids)
        OwnFile(name, contents) == FileTarget(InState(name), contents, USER_FILE, user.ids)
        state == IF cfg.restored # None THEN OwnFile("state", cfg.restored)
                 ELSE [t |-> "SeededFile", path |-> InState("state"), contents |-> Seed,
                       mode |-> USER_FILE, owner |-> user.ids]
        paths == <<PathTarget("Precondition", home), PathTarget("Link", NIX_PROFILE_LINK(home)),
                   ParentOf(states), ParentOf(home \o P(<<"state", "nix">>)),
                   Shaped("Directory", STATE_DIR(home), Exact(Private), user.ids),
                   OwnFile("home.nix", cfg.home), OwnFile("flake.nix", cfg.flake),
                   OwnFile("flake.lock", cfg.lock), OwnFile(".gitignore", GitIgnore), state,
                   Shaped("Directory", PROFILES_DIR(home), Exact(Open), user.ids)>>
        repository == REPOSITORY(home)
        deferred == <<[t |-> "Activation", path |-> home, user |-> user, pins |-> cfg.pins],
                      UserTarget("Repository", repository, user),
                      FileTarget(InGit(user, <<"config">>), CONFIG, USER_FILE, user.ids),
                      ParentOf(InGit(user, <<"objects">>)), ParentOf(InGit(user, <<"refs">>))>>
                    \o (IF intent.tidy THEN <<LeftoversIn(repository)>> ELSE <<>>)
                    \o <<UserTarget("History", repository, user)>>
        generations == IF intent.tidy THEN <<UserTarget("Generations", GENERATIONS(home), user)>>
                       ELSE <<>>
        member == [t |-> "GroupMember", group |-> "mix-users", user |-> user.name]
    IN  DeferredTo(intent, home, user, deferred,
                   AddPath(DeclarePaths(AddAccount(drafts, members, <<member>>), paths),
                           GENERATIONS(home), generations))

Group(name, gid) == <<[t |-> "Group", name |-> name, gid |-> gid]>>

\* Units wait for what they run, and are started once all are installed.
Referring(placed) ==
    LET Unit(unit) == AtPath(placed, UnitPath(unit))
        active == [i \in 1..3 |-> [t |-> "UnitActive", path |-> SYSTEMD,
                      unit |-> <<"nix.socket", "mix.socket", "mix.service">>[i]]]
        nix == AddRefers(AddRefers(placed, Unit("nix.service"), AtPath(placed, NIX_ENV)),
                         Unit("nix.socket"), AtPath(placed, NIX_ENV))
    IN  Deferred(AddRefers(nix, Unit("mix.service"), AtPath(placed, MIX_DAEMON_BIN)),
                 AtPath(placed, SYSTEMD), active)

MachineTree(intent) ==
    LET accounts ==
          AddAccount(AddAccount(AddAccount(NewBuilder, ACCOUNTS, Group("nixbld", NIXBLD_GID)),
                                Len(NewBuilder) + 1,
                                <<[t |-> "User", name |-> Builder, ids |-> BUILDER_IDS]>>),
                     ACCOUNTS, Group("mix-users", MIX_USERS_GID))
        Dir(path, bits, owner) == Shaped("Directory", path, Exact(bits), owner)
        SystemParent(path) == Shaped("Parent", path, AtLeast(Open), ROOT)
        SystemFile(path, contents) == FileTarget(path, contents, SYSTEM_FILE, ROOT)
        Outside(names) == PathTarget("Precondition", P(names))
        paths == <<Dir(NIX, Open, ROOT), Dir(NIX_STORE, Open \cup {"f"}, <<0, NIXBLD_GID>>),
                   Dir(NIX_VAR, Open, ROOT), SystemFile(MARKER, <<"File", "">>),
                   [t |-> "PathExists", path |-> NIX_ENV, install |-> intent.runtime],
                   Outside(<<"var">>), Dir(NIXBLD_HOME, ReadOnly, ROOT),
                   SystemParent(MIX_VAR_DIR), SystemParent(MIX_BIN_DIR),
                   Shaped("Program", MIX_DAEMON_BIN, Exact(Open), ROOT),
                   PathTarget("Journals", JOURNAL_DIR), Outside(<<"etc">>),
                   SystemParent(POLICY_DIR), SystemParent(P(<<"etc", "nix">>)),
                   SystemParent(P(<<"etc", "profile.d">>)),
                   SystemFile(POLICY_FILE, Policy), SystemFile(NIX_CONF_DEST, NixConf),
                   SystemFile(PROFILE_SNIPPET_DEST, Snippet),
                   Outside(<<"etc", "systemd">>), Outside(<<"etc", "systemd", "system">>),
                   UnitTarget("nix.service"), UnitTarget("nix.socket"),
                   UnitTarget("mix.service"), UnitTarget("mix.socket")>>
        referred == Referring(DeclarePaths(accounts, paths))
    IN  IF intent.cfg = <<>> THEN referred ELSE UserTree(referred, intent, Len(NewBuilder) + 3)

\* The checks an intent stands for, in the order they are made.
TreeFor(intent) ==
    Finish(IF intent.reach = "Machine" THEN MachineTree(intent)
           ELSE UserTree(AddAccount(NewBuilder, ACCOUNTS, Group("mix-users", MIX_USERS_GID)),
                         intent, Len(NewBuilder) + 1),
           intent.tidy, Writes, LeftoversIn)

\* cfg is <<a user's configuration>>, or <<>> on a machine without one.
MachineIntent(cfg) ==
    [cfg |-> cfg, reach |-> "Machine", runtime |-> FALSE, retention |-> "none", tidy |-> TRUE]
UserIntent(cfg) == [MachineIntent(cfg) EXCEPT !.reach = "User", !.tidy = FALSE]
=============================================================================
