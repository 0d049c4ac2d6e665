------------------------------- MODULE DryRun -------------------------------
(***************************************************************************)
(* A dry run: the steps of a command are taken on a prediction of the      *)
(* machine instead of the machine.  The prediction holds what its actions  *)
(* are about, copied from the machine before the first of them, and        *)
(* answers a question when one of its actions touched what it is about;    *)
(* the machine answers all others.                                         *)
(*                                                                         *)
(* Source: crates/shell/src/drive.rs (Prediction, Performer::predict),     *)
(* crates/core/src/model/mod.rs (seed_path and its siblings),              *)
(* crates/core/src/effect/action.rs (subjects).                            *)
(*                                                                         *)
(* A prediction hands out numbers of its own, as inodes and as times, that *)
(* are below every one of the machine.                                     *)
(***************************************************************************)
EXTENDS Operations

(***************************************************************************)
(* What an action is about.                                                *)
(***************************************************************************)
OfPath(path) == <<"Path", path>>
OfGroup(name) == <<"Group", name>>
OfUser(name) == <<"User", name>>
OfUnit(unit) == <<"Unit", unit>>
OfProfile(user) == <<"Profile", user>>

SubjectsOf(a) ==
    CASE a.do \in {"CreateDirs", "PutFile", "SetMode", "SetOwner", "SetAside", "Discard", "Keep",
                   "RemoveCreated", "RemoveCreatedTree", "ReclaimTree"} -> <<OfPath(a.path)>>
      [] a.do = "Restore" -> <<OfPath(a.path), OfPath(a.from)>>
      [] a.do \in {"AddGroup", "SetGroupGid", "DeleteGroup"} -> <<OfGroup(a.name)>>
      [] a.do = "AddUser" -> <<OfUser(a.name)>> \o [i \in 1..Cardinality(a.groups) |->
                                                      OfGroup(Listed(a.groups)[i])]
      [] a.do \in {"SetUserIds", "DeleteUser"} -> <<OfUser(a.name)>>
      [] a.do \in {"AddMember", "RemoveMember"} -> <<OfGroup(a.group), OfUser(a.user)>>
      [] a.do \in {"InstallUnit", "EnableUnit", "DisableUnit", "StartUnit", "StopUnit",
                   "RestartUnit", "DrainService"} -> <<OfUnit(a.unit), OfPath(UnitPath(a.unit))>>
      [] a.do = "InstallRuntime" ->
           <<OfPath(NIX_STORE), OfPath(NIX_ENV), OfPath(UnitSource("nix.service")),
             OfPath(UnitSource("nix.socket"))>>
      [] a.do = "RemoveRuntime" ->
           [i \in 1..Cardinality(a.created) |-> OfPath(Listed(a.created)[i])]
      [] a.do = "ActivateProfile" ->
           <<OfProfile(a.user), OfPath(NIX_ENV)>>
             \o [i \in DOMAIN GENERATION_INPUTS |->
                   OfPath(STATE_DIR(a.user.home) \o P(<<GENERATION_INPUTS[i]>>))]
      [] a.do \in {"SwitchGeneration", "DeleteGeneration", "ApplyGeneration", "CollectGarbage"} ->
           <<OfProfile(a.user)>>
      [] a.do \in {"RecordState", "CreateRepository"} ->
           <<OfPath(InGit(a.user, <<"HEAD">>)), OfPath(REPOSITORY(a.user.home))>>
      [] a.do \in {"DaemonReload", "Commit"} -> <<>>

(***************************************************************************)
(* The prediction before anything is predicted.                            *)
(***************************************************************************)
Bare(w) ==
    LET dirs == <<P(<<"etc">>), P(<<"etc", "systemd">>), SYSTEMD, P(<<"home">>), P(<<"var">>)>>
        none == [w EXCEPT !.files = <<>>, !.groups = <<>>, !.users = <<>>, !.units = <<>>,
                          !.profiles = <<>>, !.linked = <<>>, !.clobbered = {}, !.next = 1]
    IN  FoldLeft(LAMBDA v, dir : Insert(v, dir, Directory, Open, ROOT), none, dirs)

Nothing(w) == [world |-> Bare(w), seeded |-> {}, touched |-> {}]

(***************************************************************************)
(* Which questions the prediction answers.                                 *)
(***************************************************************************)
Upwards(path) == {SubSeq(path, 1, n) : n \in 0..Len(path)}
Reach(p) ==
    LET paths == {s[2] : s \in {t \in p.touched : t[1] = "Path"}}
    IN  [at |-> paths, above |-> UNION {Upwards(path) : path \in paths}]

\* A path at, above or below one that was touched.
Near(reach, path) == path \in reach.above \/ Upwards(path) \cap reach.at # {}

\* The path of the question that shows a file: the repository for what is in
\* it, the directory for a leftover and for the links of systemd, or itself.
AskedBy(path) ==
    LET git == {n \in DOMAIN path : path[n] = <<".git">>}
    IN  IF git # {} THEN SubSeq(path, 1, Min(git))
        ELSE IF SystemdOwned(path) THEN SYSTEMD
        ELSE IF path # <<>> /\ IsLeftover(Last(path)) THEN Front(path) ELSE path

\* The entries of two maps, the prediction's where it answers for them.
Answered(predicted, found, Ours(_)) ==
    Restrict(predicted, {k \in DOMAIN predicted : Ours(k)})
      @@ Restrict(found, {k \in DOMAIN found : ~Ours(k)})

\* The machine as a step of the dry run sees it.
Seen(p, w) ==
    LET v == p.world
        reach == Reach(p)
        OurFile(path) == Near(reach, AskedBy(path))
        OurProfile(uid) == \E s \in p.touched : s[1] = "Profile" /\ s[2].ids[1] = uid
    IN  [w EXCEPT
            !.files = Answered(v.files, @, OurFile),
            !.groups = Answered(v.groups, @, LAMBDA g : OfGroup(g) \in p.touched),
            !.users = Answered(v.users, @, LAMBDA u : OfUser(u) \in p.touched),
            !.units = Answered(v.units, @, LAMBDA u : OfUnit(u) \in p.touched),
            !.profiles = Answered(v.profiles, @, OurProfile),
            !.clobbered = {uid \in @ : ~OurProfile(uid)},
            !.pending = v.pending]

\* Mutant: the repository itself was changed, not what it records.
ChangesInside(p, user) ==
    \E s \in p.touched : s[1] = "Path" /\ IsPrefix(REPOSITORY(user.home), s[2])

\* The files the repository records were changed, and the repository was not.
ChangesWorktree(p, user) ==
    \E s \in p.touched :
        /\ s[1] = "Path"
        /\ IsPrefix(STATE_DIR(user.home), s[2]) /\ ~IsPrefix(REPOSITORY(user.home), s[2])

\* A question about the repository is answered as a whole, worktree included.
SeenRepository(p, w, user) == IF Near(Reach(p), REPOSITORY(user.home)) THEN p.world ELSE w

\* What a step would do: recording, too, is foreseen where the files were changed.
Foreseen(p, w, step, request) ==
    LET recorded == CASE step.kind = "record" -> <<step.about>>
                      [] step.kind = "target" /\ step.about.t = "History" -> <<step.about.user>>
                      [] OTHER -> <<>>
        found == IF recorded = <<>> THEN Seen(p, w) ELSE SeenRepository(p, w, recorded[1])
    IN  IF step.kind = "record" /\ found = w /\ ChangesWorktree(p, step.about) /\ Intact(w, step.about)
        THEN Planned(<<[do |-> "RecordState", user |-> step.about]>>)
        ELSE StepActions(found, step, request)

(***************************************************************************)
(* Copying what an action is about from the machine.                       *)
(***************************************************************************)
\* A link is copied as a file that holds nothing.
SeedPath(v, w, path) ==
    IF ~Has(w, path) THEN Without(v, {path})
    ELSE [v EXCEPT !.files = (path :> [w.files[path] EXCEPT
            !.content = IF @ = Directory \/ @[1] # "Link" THEN @ ELSE <<"File", "">>]) @@ @]

SeedPaths(p, w, path) ==
    LET chain == SelectSeq([n \in DOMAIN path |-> SubSeq(path, 1, n)],
                           LAMBDA at : OfPath(at) \notin p.seeded)
    IN  [p EXCEPT !.world = FoldLeft(LAMBDA v, at : SeedPath(v, w, at), @, chain),
                  !.seeded = @ \cup {OfPath(chain[i]) : i \in DOMAIN chain}]

\* What systemd says of a unit, the file as it is on the disk, and the links.
Stale(w, unit) == Held(w, unit) /\ Stamp(w, UnitPath(unit)) > UnitOf(w, unit).stamp
SeedUnit(v, w, unit) ==
    LET links == UnitLinks(w, unit)
        linked == [v EXCEPT !.files =
                     [l \in links |-> w.files[l]] @@ @
                       @@ [d \in {Front(l) : l \in links} |-> w.files[d]]]
        loaded == IF LoadedUnit(w, unit).loaded = None THEN None ELSE Contents(w, UnitPath(unit))
        running == IF Running(w, unit) THEN loaded ELSE None
    IN  SetUnit([linked EXCEPT !.next = @ + 1], unit,
                [loaded |-> loaded, running |-> running,
                 since |-> IF running = None THEN 0 ELSE linked.next,
                 stamp |-> IF Stale(w, unit) THEN 0 ELSE Stamp(v, UnitPath(unit))])

SeedEntry(map, found, key) ==
    IF key \in DOMAIN found THEN (key :> found[key]) @@ map
    ELSE Restrict(map, DOMAIN map \ {key})

Seed1(p, w, s) ==
    LET marked == [p EXCEPT !.seeded = @ \cup {s}]
        WithUnit(q) == [q EXCEPT !.world = SeedUnit(@, w, s[2]), !.seeded = @ \cup {s}]
    IN  IF s \in p.seeded THEN p
        ELSE CASE s[1] = "Path" -> SeedPaths(p, w, s[2])
               [] s[1] = "Group" -> [marked EXCEPT !.world.groups = SeedEntry(@, w.groups, s[2])]
               [] s[1] = "User" -> [marked EXCEPT !.world.users = SeedEntry(@, w.users, s[2])]
               [] s[1] = "Unit" -> WithUnit(SeedPaths(p, w, UnitPath(s[2])))
               [] s[1] = "Profile" ->
                    [marked EXCEPT !.world = SetProfile(@, s[2],
                        [ProfileOf(w, s[2]) EXCEPT !.built = <<>>])]

(***************************************************************************)
(* An action is predicted.                                                 *)
(***************************************************************************)
Predicted(p, a, done) ==
    [ok |-> done.ok,
     w |-> IF ~done.ok THEN p
           ELSE [p EXCEPT !.world = done.w, !.touched = @ \cup Range(SubjectsOf(a))]]
Predict(p, w, a) ==
    LET ready == FoldLeft(LAMBDA q, s : Seed1(q, w, s), p, SubjectsOf(a))
    IN  Predicted(ready, a, Apply(ready.world, a))

(***************************************************************************)
(* The steps of a command taken one after the other, on the machine or on  *)
(* a prediction, up to the first action that is refused: what is told of   *)
(* every action.                                                           *)
(***************************************************************************)
Told(i, a) == <<i, a.do, Subject(a)>>

Taken(run, i, plan, Do(_, _)) ==
    LET Act(r, a, done) ==
          [r EXCEPT !.w = done.w, !.over = ~done.ok, !.told = Append(@, Told(i, a))]
    IN  FoldLeft(LAMBDA r, a : IF r.over THEN r ELSE Act(r, a, Do(r.w, a)), run, plan.actions)

TakeSteps(steps, whole, start, Plan(_, _), Do(_, _)) ==
    LET Failed(r, i, plan) ==
          IF plan.ok THEN Taken(r, i, plan, Do)
          ELSE [r EXCEPT !.over = whole, !.causes = @ \cup {i}]
        Take(r, i) ==
          IF r.over THEN r
          ELSE IF steps[i].waits \cap r.causes # {} THEN [r EXCEPT !.causes = @ \cup {i}]
          ELSE Failed(r, i, Plan(r.w, steps[i]))
    IN  FoldLeft(Take, [w |-> start, told |-> <<>>, causes |-> {}, over |-> FALSE],
                 [i \in DOMAIN steps |-> i]).told

Rehearsed(w, steps, whole) ==
    TakeSteps(steps, whole, Nothing(w), LAMBDA p, step : Foreseen(p, w, step, w.acting),
         LAMBDA p, a : Predict(p, w, a))

Carried(w, steps, whole) ==
    TakeSteps(steps, whole, w, LAMBDA v, step : StepActions(v, step, v.acting), Apply)
=============================================================================
