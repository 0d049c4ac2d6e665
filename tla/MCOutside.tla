----------------------------- MODULE MCOutside -----------------------------
(* What mix makes of what comes from outside: the log of a running nix, of *)
(* thirteen records and some plain lines; the answers of two caches about  *)
(* a package with two outputs, one that is unfree and one that does not    *)
(* exist, and those of the branches of the two inputs; and the archive of  *)
(* the runtime, of three store paths; and a socket with its service.       *)
(* A behaviour is about one of these subjects, or one of those of MCLaws.  *)
EXTENDS MCLaws

CONSTANTS
    RecordOf, PlanOf, Writes, Cap, MaxWrites,
    Wanted, CheckOf, Closure, Sizes, Substituters, Holdings, CommitsOf, VersionsOf, MaxTroubles, MaxChanges,
    Entries, Resolved, Size, Scratch, Temporary, MaxAttempts, MaxFailures,
    MaxMeddling

VARIABLES
    subject,
    sent, wire, drain, phase, writes,
    valid, caches, heads, installed, pins, ask, heard, budget,
    things, scratch, manifest, store, registered, profile, job, owed, origin, troubles, attempts,
    active, enabled, unitJob, ended, stream, own, ending, bound, mix, before, meddled

L == INSTANCE Nixlog
V == INSTANCE Preview
P == INSTANCE Provision WITH MaxTroubles <- MaxFailures
U == INSTANCE Units WITH job <- unitJob, troubles <- meddled, MaxTroubles <- MaxMeddling

logState == <<sent, wire, drain, phase, writes>>
previewState == <<valid, caches, heads, installed, pins, ask, heard, budget>>
provisionState == <<things, scratch, manifest, store, registered, profile, job, owed, origin, troubles, attempts>>
unitState == <<active, enabled, unitJob, ended, stream, own, ending, bound, mix, before, meddled>>

Rec(action, id, type, level, msg, fields) ==
    [action |-> action, id |-> id, type |-> type, level |-> level, text |-> <<>>, msg |-> msg, fields |-> fields]
N(n) == <<"Int", n>>
Msg(level, msg) == Rec("msg", 0, 0, level, msg, <<>>)
MCRecordOf ==
    [s1 |-> Rec("start", 1, 104, 0, <<>>, <<>>),
     s2 |-> Rec("start", 2, 104, 0, <<>>, <<>>),
     s3 |-> Rec("start", 2, 103, 0, <<>>, <<>>),
     p1 |-> Rec("result", 1, 105, 0, <<>>, <<N(1), N(9), N(2)>>),
     q1 |-> Rec("result", 1, 105, 0, <<>>, <<N(2), <<"Other">>, N(-1), N(0), N(9)>>),
     p2 |-> Rec("result", 2, 105, 0, <<>>, <<N(3), N(9), N(1)>>),
     e1 |-> Rec("stop", 1, 0, 0, <<>>, <<>>),
     e2 |-> Rec("stop", 2, 0, 0, <<>>, <<>>),
     b |-> Rec("start", 3, 105, 0, <<>>, <<<<"Text", "drv">>>>),
     m |-> Msg(0, <<"escape", "error:", "cannot build">>),
     n |-> Msg(0, <<"error:", "disk full">>),
     o |-> Msg(3, <<"two derivations">>),
     v |-> Msg(5, <<"error:", "collision">>)]
MCPlanOf == ("two derivations" :> [what |-> "builds", count |-> 2, size |-> <<>>])
            @@ ("fetch" :> [what |-> "fetches", count |-> -1, size |-> <<15, "KiB">>])
R(r) == <<"@nix", r, "nl">>
MCWrites == {R("s1") \o R("p1"), R("s2") \o R("p2"), R("s3") \o R("p2")}
            \cup {R(r) : r \in {"q1", "e1", "e2", "b", "m", "n", "o", "v"}}
            \cup {<<" ", "x", "error:", "nl">>, <<"error:", "attribute missing", "cr">>,
                  <<"long", "long", "long", "long", "nl">>, <<"cr", "@nix", "p1">>, <<"@nix", "nl">>}

Check(known, evaluates, outputs) ==
    [known |-> known, evaluates |-> evaluates, unfree |-> TRUE, broken |-> TRUE, insecure |-> FALSE,
     outputs |-> outputs]
MCWanted == <<"hello", "steam", "nope">>
MCCheckOf == ("hello" :> Check(TRUE, TRUE, <<"hello", "doc">>)) @@ ("steam" :> Check(TRUE, FALSE, <<"steam">>))
             @@ ("nope" :> Check(FALSE, FALSE, <<>>))
MCClosure == [hello |-> {"hello", "libc"}, doc |-> {"doc"}, steam |-> {"steam", "libc"}, libc |-> {"libc"}]
MCSizes == [hello |-> [nar |-> 4, download |-> 1], doc |-> [nar |-> 5, download |-> 0],
            steam |-> [nar |-> 7, download |-> 6], libc |-> [nar |-> 20, download |-> 10]]
MCSubstituters == <<"near", "far">>
MCHoldings == {{}, {"hello", "libc", "doc"}, {"steam", "libc"}}
C(r, m) == [rev |-> r, modified |-> m]
MCCommitsOf == ("nixpkgs" :> {C("n1", 1), C("n2", 2), C("m2", 2)}) @@ ("home-manager" :> {C("h1", 1), C("h2", 3)})
Versions(a, b) == ("hello" :> a) @@ ("steam" :> b)
MCVersionsOf == ("n1" :> Versions("1", "1")) @@ ("n2" :> Versions("2", "1")) @@ ("m2" :> Versions("1", "none"))

(* The attempts are of one process: the later finds the name in use.       *)
MCTemporary == <<"tmp", "tmp">>
ASSUME RuntimeNames == P!NamesAreApart
ScratchNames == Permutations(Scratch)

(* The subjects a behaviour is not about.                                  *)
off == "off"
NoLog == sent = off /\ wire = off /\ drain = off /\ phase = off /\ writes = off
NoPreview == /\ valid = off /\ caches = off /\ heads = off /\ installed = off /\ pins = off
             /\ ask = off /\ heard = off /\ budget = off
NoProvision == /\ things = off /\ scratch = off /\ manifest = off /\ store = off /\ registered = off
               /\ profile = off /\ job = off /\ owed = off /\ origin = off /\ troubles = off /\ attempts = off
NoUnits == /\ active = off /\ enabled = off /\ unitJob = off /\ ended = off /\ stream = off /\ own = off
           /\ ending = off /\ bound = off /\ mix = off /\ before = off /\ meddled = off

MCInit ==
    \/ subject = "log" /\ L!LogInit /\ NoLaws /\ NoPreview /\ NoProvision /\ NoUnits
    \/ subject = "preview" /\ V!PreviewInit /\ NoLaws /\ NoLog /\ NoProvision /\ NoUnits
    \/ subject = "provision" /\ P!Init /\ NoLaws /\ NoLog /\ NoPreview /\ NoUnits
    \/ subject = "laws" /\ LawsInit /\ NoLog /\ NoPreview /\ NoProvision /\ NoUnits
    \/ subject = "units" /\ U!UnitsInit /\ NoLaws /\ NoLog /\ NoPreview /\ NoProvision

lawsState == <<vars, nixVars>>
Logs == subject = "log" /\ L!LogNext /\ UNCHANGED <<lawsState, previewState, provisionState, unitState>>
Previews == subject = "preview" /\ V!PreviewNext /\ UNCHANGED <<lawsState, logState, provisionState, unitState>>
Provisions == subject = "provision" /\ P!Next /\ UNCHANGED <<lawsState, logState, previewState, unitState>>
Laws == subject = "laws" /\ (GrowsJournal \/ GrowsText)
        /\ UNCHANGED <<logState, previewState, provisionState, unitState>>
Jobs == subject = "units" /\ U!UnitsNext /\ UNCHANGED <<lawsState, logState, previewState, provisionState>>

MCNext == (Logs \/ Previews \/ Provisions \/ Laws \/ Jobs) /\ UNCHANGED subject
MCSpec == MCInit /\ [][MCNext]_<<subject, lawsState, logState, previewState, provisionState, unitState>>

-----------------------------------------------------------------------------
(* What mix makes of the log of nix: wherever the chunks read from the     *)
(* pipe are cut, every line is handed over whole, once and in order        *)
(* (StreamDrain); the counters are what nix said last of each activity,    *)
(* whatever late reports and numbers used again come in between (NixLog);  *)
(* and a failure is explained by the end of what nix said, the last error  *)
(* being the one that is named (TailBuffer, nix_error).                    *)
LogIsUnderstood ==
    subject = "log" => L!LinesComeWhole /\ L!CountersAreExact /\ L!FailureIsExplained

(* What mix says before it acts: a plan of downloads that calls itself     *)
(* complete accounts for every output, and builds only what every cache    *)
(* said it does not have (plan); an update takes no input back in time and *)
(* lists the packages that change (decide, package_changes).               *)
PreviewIsTrue == subject = "preview" => V!PlanIsHonest /\ V!UpdateIsTrue

(* A runtime that counts as installed is verified, whole, registered and   *)
(* read-only, but for a path a dead attempt moved and left unsealed        *)
(* (provision); one that is taken away again leaves what was there before  *)
(* it, wherever mix failed or died, but for a default profile that it      *)
(* pointed to its own generation, which is left dangling (remove).         *)
RuntimeIsWholeOrGone == subject = "provision" => P!RuntimeIsWholeOrGone

(* Jobs of systemd: mix waits for its own job and for none in vain, a      *)
(* socket that was stopped takes what it triggers with it, and what is     *)
(* undone runs as it did (job, ends_with, stop, start).                    *)
UnitsSettle ==
    subject = "units" => U!NeverWaitsInVain /\ U!StopIsComplete /\ U!UndoneIsBack
=============================================================================
