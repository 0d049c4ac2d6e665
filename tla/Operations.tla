----------------------------- MODULE Operations -----------------------------
(***************************************************************************)
(* What every command of mix plans: the configuration it settles on, the   *)
(* steps it runs, and the actions each step takes where it looks.          *)
(*                                                                         *)
(* Source: crates/core/src/ops (bootstrap, change, update, purge,          *)
(* user_remove, removal), crates/core/src/declared/{state,pins}.rs,        *)
(* crates/shell/src/profile, crates/shell/src/ops.                         *)
(*                                                                         *)
(* A pin is <<revision, time>>, and the pins of a configuration are those  *)
(* of home-manager and of nixpkgs.                                         *)
(***************************************************************************)
EXTENDS Health

CONSTANTS EMBEDDED,                    \* the pins this mix was built with
          NEWEST                       \* the pins upstream has now

(***************************************************************************)
(* The package list and the pins a command starts from.                    *)
(***************************************************************************)
\* What the file and the active generation say, settled: a list by a newer
\* mix stops the command; where both are valid the generation wins.
Settle(file, generation) ==
    LET built == ValidOrNone(generation)
        From(list, source) == [newer |-> FALSE, packages |-> list[3], source |-> source]
    IN  IF Newer(file) THEN [newer |-> TRUE, packages |-> {}, source |-> "File"]
        ELSE IF Valid(file) /\ (built = None \/ built = file) THEN From(file, "File")
        ELSE IF built # None THEN From(built, "Generation")
        ELSE From(Seed, "Fresh")

ReadPins(lock) == IF lock # None /\ lock[1] = "Lock" THEN lock[2] ELSE None

Forward(pins, to) == [i \in DOMAIN pins |-> IF to[i][2] > pins[i][2] THEN to[i] ELSE pins[i]]

SettlePins(file, generation) ==
    LET found == IF ReadPins(generation) # None THEN ReadPins(generation) ELSE ReadPins(file)
    IN  IF found = None THEN EMBEDDED ELSE Forward(found, EMBEDDED)

StateFile(w, user, name) == Contents(w, STATE_DIR(user.home) \o P(<<name>>))

RenderHome(packages) == <<"Home", packages>>
RenderFlake(pins) == <<"Flake", <<pins[1][1], pins[2][1]>>>>
RenderLock(pins) == <<"Lock", pins>>
RenderList(packages) == <<"List", 1, packages>>

SettledList(w, user) == Settle(StateFile(w, user, "state"), ActiveInput(w, user, 1))

\* The configuration a command observes once it holds its locks.
Configured(w, user) ==
    LET settled == SettledList(w, user)
        homeNix == StateFile(w, user, "home.nix")
        pins == SettlePins(StateFile(w, user, "flake.lock"), ActiveInput(w, user, 3))
    IN  [user |-> user, pins |-> pins, flake |-> RenderFlake(pins), lock |-> RenderLock(pins),
         home |-> IF ~settled.newer THEN RenderHome(settled.packages)
                  ELSE IF homeNix # None THEN homeNix ELSE RenderHome(SeedPackages),
         restored |-> IF settled.newer \/ settled.source = "File" THEN None
                      ELSE RenderList(settled.packages)]

Repinned(cfg, pins) ==
    [cfg EXCEPT !.pins = pins, !.flake = RenderFlake(pins), !.lock = RenderLock(pins)]

\* Only a revision that is newer moves a pin.
Decide(have, newest) ==
    [i \in DOMAIN have |->
        IF newest[i][1] # have[i][1] /\ newest[i][2] > have[i][2] THEN newest[i] ELSE have[i]]

(***************************************************************************)
(* The steps of each command.                                              *)
(***************************************************************************)
Alone(kind, about) == Step(kind, about, {})

BootstrapSteps(cfg, force) ==
    ReconcileSteps(IF force THEN <<Alone("removeExisting", cfg.user)>> ELSE <<>>,
                   TreeFor([MachineIntent(<<cfg>>) EXCEPT !.runtime = TRUE, !.tidy = FALSE]))

\* cfg is <<>> where the caller is nobody mix knows.
RepairSteps(cfg) == ReconcileSteps(<<>>, TreeFor(MachineIntent(cfg)))

\* A change of the list; nothing to do where the list stays as the file has it.
ChangeSteps(w, cfg, changed, packages) ==
    IF changed = {} /\ SettledList(w, cfg.user).source = "File" THEN <<>>
    ELSE ReconcileSteps(<<>>, TreeFor(UserIntent(<<[cfg EXCEPT
            !.home = RenderHome(packages), !.restored = RenderList(packages)]>>)))

InstallSteps(w, cfg, wanted) ==
    LET listed == SettledList(w, cfg.user).packages
    IN  ChangeSteps(w, cfg, wanted \ listed, listed \cup wanted)
RemoveSteps(w, cfg, unwanted) ==
    LET listed == SettledList(w, cfg.user).packages
    IN  ChangeSteps(w, cfg, unwanted \cap listed, listed \ unwanted)
UpdateSteps(cfg) ==
    ReconcileSteps(<<>>, TreeFor(UserIntent(<<Repinned(cfg, Decide(cfg.pins, NEWEST))>>)))
CleanSteps(cfg, all) ==
    ReconcileSteps(<<>>, TreeFor([UserIntent(<<cfg>>) EXCEPT
                                     !.retention = IF all THEN "all" ELSE "old"]))

\* Whose homes a purge clears: the members of mix-users, and the regular
\* users whose home holds a state directory.
Holders(w, users) ==
    {u \in users :
        /\ u.name \in DOMAIN w.users
        /\ \/ u.name \in Members(w, "mix-users")
           \/ /\ ~GroupIs(w, "nixbld", w.users[u.name].ids[2])
              /\ Has(w, STATE_DIR(u.home))}
PurgeSteps(w, users) ==
    LET holders == Listed(Holders(w, users))
    IN  <<Alone("stop", UNIT_NAMES)>>
          \o [i \in DOMAIN holders |-> Alone("home", holders[i])]
          \o <<Alone("units", UNIT_NAMES), Alone("machine", NIX), Alone("accounts", Builder)>>
UserRemoveSteps(user) == <<Alone("home", user), Alone("membership", user)>>

(***************************************************************************)
(* What the steps that remove do.                                          *)
(***************************************************************************)
Stopping(w, units) ==
    LET running == SelectSeq(units, LAMBDA u : Running(w, u))
    IN  [i \in DOMAIN running |-> OnUnit("StopUnit", running[i])]

AsideEach(w, paths) == FlattenSeq([i \in DOMAIN paths |-> SettingAside(w, paths[i])])

SetAsideUnits(w, units) ==
    LET links == Listed(UNION {UnitLinks(w, u) : u \in Range(units)})
        moves == AsideEach(w, links \o [i \in DOMAIN units |-> UnitPath(units[i])])
    IN  IF moves = <<>> THEN <<>> ELSE Append(moves, DaemonReload)

DeletingAccounts(w) ==
    (IF Builder \in DOMAIN w.users
     THEN <<[do |-> "DeleteUser", name |-> Builder, expect |-> w.users[Builder].ids,
             comment |-> w.users[Builder].comment]>> ELSE <<>>)
      \o FlattenSeq([i \in 1..2 |->
            LET group == <<"nixbld", "mix-users">>[i]
            IN  IF group \in DOMAIN w.groups
                THEN <<[do |-> "DeleteGroup", name |-> group, expect |-> w.groups[group].gid]>>
                ELSE <<>>])

NIX_UNITS == <<"nix.socket", "nix.service">>
NIX_ENTRIES == <<NIX_STORE, NIX_VAR, MARKER>>
HOME_TRACES(home) ==
    <<STATE_DIR(home), home \o P(<<"state", "nix">>), NIX_PROFILE_LINK(home)>>

\* Bootstrap with force starts from a machine without an installation.
RemoveExisting(w, user) ==
    Stopping(w, NIX_UNITS) \o SetAsideUnits(w, NIX_UNITS) \o DeletingAccounts(w)
      \o AsideEach(w, <<NIX_CONF_DEST, PROFILE_SNIPPET_DEST, POLICY_FILE, NIX,
                        PROFILES_DIR(user.home)>>)

RemoveHome(w, user) ==
    LET linked == IF user.ids[1] \in DOMAIN w.linked THEN w.linked[user.ids[1]] ELSE {}
        traces == HOME_TRACES(user.home)
        outside == {p \in linked : Has(w, p) /\ ~\E t \in Range(traces) : IsPrefix(t, p)}
    IN  AsideEach(w, Listed(outside) \o traces)

\* The store is too large to move: it stays where it is until the commit.
RemoveMachine(w) ==
    LET found == SelectSeq(NIX_ENTRIES, LAMBDA p : Has(w, p))
    IN  [i \in DOMAIN found |-> [do |-> "Discard", path |-> found[i], expect |-> Id(w, found[i])]]
          \o AsideEach(w, <<NIX_CONF_DEST, PROFILE_SNIPPET_DEST, POLICY_DIR, MIX_BIN_DIR>>)

\* Mutant of FinishRemoval: the directories mix made are left.
FinishNothing(w) == w

\* What is left of the machine after a purge has committed.
FinishRemoval(w) ==
    LET var == IF Subtree(w, MIX_VAR_DIR) = {MIX_VAR_DIR} THEN {MIX_VAR_DIR} ELSE {}
        empty == {dir \in {NIX, P(<<"etc", "nix">>)} : Subtree(w, dir) = {dir}}
    IN  Without(w, var \cup empty)

StepActions(w, step, request) ==
    CASE step.kind = "removeExisting" -> Planned(RemoveExisting(w, step.about))
      [] step.kind = "stop" -> Planned(Stopping(w, step.about))
      [] step.kind = "units" -> Planned(Stopping(w, step.about) \o SetAsideUnits(w, step.about))
      [] step.kind = "home" -> Planned(RemoveHome(w, step.about))
      [] step.kind = "machine" -> Planned(RemoveMachine(w))
      [] step.kind = "accounts" -> Planned(DeletingAccounts(w))
      [] step.kind = "membership" ->
           Planned(IF step.about.name \in Members(w, "mix-users")
                   THEN <<Membership("RemoveMember", "mix-users", step.about.name)>> ELSE <<>>)
      [] OTHER -> ReconcileActions(w, step, request)
=============================================================================
