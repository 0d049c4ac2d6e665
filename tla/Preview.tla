------------------------------ MODULE Preview ------------------------------
(***************************************************************************)
(* What mix says of an installation before it is made, and of an update:   *)
(* assess and its plan of downloads (crates/shell/src/effect/              *)
(* installed.rs), the newest pins of upstream (request/upstream.rs), what  *)
(* is decided and told of them (crates/core/src/ops/update.rs,             *)
(* ops/update/mod.rs).  Every answer is that of a process which ran for a  *)
(* while: the store, the caches, the branches and the active generation    *)
(* change between two of them.  The request holds its user's lock.         *)
(***************************************************************************)
EXTENDS Integers, Sequences, FiniteSets, TLC

CONSTANTS
    Wanted,         \* the packages a dry run would install, in order
    CheckOf,        \* package -> [known, evaluates, unfree, broken, insecure, outputs]
    Closure,        \* store path -> the paths it needs, itself among them
    Sizes,          \* store path -> [nar, download]
    Substituters,   \* in the order nix is configured with
    Holdings,       \* the contents a cache may have
    CommitsOf,      \* input -> its commits, [rev, modified]
    VersionsOf,     \* rev of nixpkgs -> package -> version, or None
    MaxTroubles,    \* bound: answers that fail
    MaxChanges      \* bound: changes others make

VARIABLES
    valid,          \* the valid paths of the store
    caches,         \* substituter -> the paths it holds
    heads,          \* input -> the head of its branch
    installed,      \* the pins of the active generation
    pins,           \* the pins of the user's files
    ask,            \* the request
    heard,          \* the answers it got: <<substituter, path, what it said>>
    budget          \* what is left of the bounds

previewVars == <<valid, caches, heads, installed, pins, ask, heard, budget>>

None == "none"
NoCommit == [rev |-> None, modified |-> 0]
Inputs == DOMAIN CommitsOf
Path == DOMAIN Closure
Range(f) == {f[i] : i \in DOMAIN f}

Fails == budget.troubles > 0 /\ budget' = [budget EXCEPT !.troubles = @ - 1]

At(where) == ask.at = where
Goes(where) == ask' = [ask EXCEPT !.at = where]
others == <<valid, caches, heads, installed>>

Refused(why) ==
    /\ ask' = [ask EXCEPT !.at = "Over", !.told = why]
    /\ UNCHANGED <<others, pins, heard>>

-----------------------------------------------------------------------------
(* assess                                                                  *)

verdict(check) ==
    CASE ~check.known -> "Unknown"
      [] check.known /\ check.evaluates -> "Available"
      [] check.known /\ ~check.evaluates /\ check.unfree -> "Unfree"
      [] check.known /\ ~check.evaluates /\ ~check.unfree /\ check.broken -> "Broken"
      [] check.known /\ ~(check.evaluates \/ check.unfree \/ check.broken) /\ check.insecure -> "Insecure"
      [] OTHER -> "Refused"

(* Every output of the packages, in order.                                 *)
all_outputs(names) ==
    LET upTo[n \in 0 .. Len(names)] == IF n = 0 THEN <<>> ELSE upTo[n - 1] \o CheckOf[names[n]].outputs
    IN upTo[Len(names)]

Planned == [present |-> FALSE, substituter |-> None, sizes |-> <<>>]
NoPlan == [complete |-> TRUE, built |-> {}, paths |-> 0, unpacked |-> 0, download |-> 0]

NewAsk(what) ==
    [what |-> what, at |-> "Begun", told |-> None, checked |-> <<>>, plan |-> NoPlan, refusal |-> FALSE,
     outputs |-> [p \in {} |-> Planned], left |-> <<>>, trying |-> 1, unknown |-> FALSE, closure |-> {}, needed |-> {},
     newest |-> [i \in Inputs |-> NoCommit], listed |-> [i \in Inputs |-> None],
     before |-> None, decision |-> None, changes |-> {}]

(* nix eval tells what it makes of each package, and parse_assessment      *)
(* turns that into verdicts and outputs.                                   *)
Assess ==
    /\ ask.what = "install" /\ At("Begun")
    /\ LET checked == [n \in DOMAIN Wanted |-> <<Wanted[n], verdict(CheckOf[Wanted[n]])>>]
           outputs == all_outputs(Wanted)
       IN ask' = [ask EXCEPT !.at = IF \A n \in DOMAIN checked : checked[n][2] = "Available"
                                    THEN "Planning" ELSE "Evaluating",
                             !.checked = checked,
                             !.outputs = [p \in Range(outputs) |-> Planned],
                             !.left = outputs]
    /\ UNCHANGED <<others, pins, heard, budget>>

AssessFails ==
    /\ ask.what = "install" /\ At("Begun")
    /\ Fails /\ Refused("error")

(* What is not available is evaluated once more, for nix's own words; that *)
(* it evaluates now only says that what stood in its way is gone.          *)
Evaluate ==
    /\ At("Evaluating")
    /\ \E refusal \in BOOLEAN :
         ask' = [ask EXCEPT !.at = "Planning", !.refusal = refusal]
    /\ UNCHANGED <<others, pins, heard, budget>>

invalid(paths) == paths \ valid

(* Both questions are asked before a failure of either counts.             *)
Look ==
    /\ At("Planning")
    /\ LET missing == invalid(DOMAIN ask.outputs)
       IN ask' = [ask EXCEPT !.at = "Fetching",
                             !.outputs = [p \in DOMAIN @ |-> [@[p] EXCEPT !.present = p \notin missing]]]
    /\ UNCHANGED <<others, pins, heard, budget>>

(* A failure here, or of the last look, leaves the plan incomplete.        *)
GivesUp ==
    /\ At("Planning") \/ At("Needed")
    /\ Fails
    /\ ask' = [ask EXCEPT !.at = "Planned", !.plan.complete = FALSE]
    /\ UNCHANGED <<others, pins, heard>>

Output == Head(ask.left)
Substituter == Substituters[ask.trying]

NextOutput(a) == [a EXCEPT !.left = Tail(@), !.trying = 1, !.unknown = FALSE]

SkipPresent ==
    /\ At("Fetching") /\ ask.left # <<>> /\ ask.outputs[Output].present
    /\ ask' = NextOutput(ask)
    /\ UNCHANGED <<others, pins, heard, budget>>

Asking == At("Fetching") /\ ask.left # <<>> /\ ~ask.outputs[Output].present
Answers(what) == heard' = heard \cup {<<Substituter, Output, what>>}

(* fetched_from: the next substituter is asked for the whole closure.      *)
Found ==
    /\ Asking /\ ask.trying <= Len(Substituters)
    /\ Closure[Output] \subseteq caches[Substituter]
    /\ Answers("found")
    /\ ask' = NextOutput([ask EXCEPT !.outputs[Output].substituter = Substituter,
                                     !.outputs[Output].sizes = <<Sizes[Output].nar, Sizes[Output].download>>,
                                     !.closure = @ \cup Closure[Output]])
    /\ UNCHANGED <<others, pins, budget>>

NotValid ==
    /\ Asking /\ ask.trying <= Len(Substituters)
    /\ ~(Closure[Output] \subseteq caches[Substituter])
    /\ Answers("not valid")
    /\ ask' = [ask EXCEPT !.trying = @ + 1]
    /\ UNCHANGED <<others, pins, budget>>

NoAnswer ==
    /\ Asking /\ ask.trying <= Len(Substituters)
    /\ Fails
    /\ Answers("nothing")
    /\ ask' = [ask EXCEPT !.trying = @ + 1, !.unknown = TRUE]
    /\ UNCHANGED <<others, pins>>

(* Mutant: what no substituter is known to have is built.                  *)
AskedAllBuilds ==
    /\ Asking /\ ask.trying > Len(Substituters)
    /\ ask' = NextOutput([ask EXCEPT !.plan.built = @ \cup {Output}])
    /\ UNCHANGED <<others, pins, heard, budget>>

AskedAll ==
    /\ Asking /\ ask.trying > Len(Substituters)
    /\ ask' = NextOutput([ask EXCEPT !.plan.complete = @ /\ ~ask.unknown,
                                     !.plan.built = IF ask.unknown THEN @ ELSE @ \cup {Output}])
    /\ UNCHANGED <<others, pins, heard, budget>>

LooksAgain ==
    /\ At("Fetching") /\ ask.left = <<>>
    /\ Goes("Needed")
    /\ UNCHANGED <<others, pins, heard, budget>>

Sum(paths, field) ==
    LET total[s \in SUBSET paths] ==
            IF s = {} THEN 0
            ELSE LET p == CHOOSE q \in s : TRUE IN Sizes[p][field] + total[s \ {p}]
    IN total[paths]

Count ==
    /\ At("Needed")
    /\ LET needed == invalid(ask.closure)
       IN ask' = [ask EXCEPT !.at = "Planned", !.needed = needed,
                             !.plan.paths = Cardinality(needed),
                             !.plan.unpacked = Sum(needed, "nar"),
                             !.plan.download = Sum(needed, "download")]
    /\ UNCHANGED <<others, pins, heard, budget>>

Tells ==
    /\ At("Planned")
    /\ Refused(IF ask.refusal THEN "refused" ELSE "previewed")
    /\ UNCHANGED budget

-----------------------------------------------------------------------------
(* update                                                                  *)

Updating == ask.what = "update"

(* newest_rev and prefetch of one input; the two inputs are fetched at the *)
(* same time, and a failure of either refuses once both are through.       *)
Lists(i) ==
    /\ Updating /\ At("Begun") /\ ask.listed[i] = None
    /\ ask' = [ask EXCEPT !.listed[i] = heads[i]]
    /\ UNCHANGED <<others, pins, heard, budget>>

Prefetches(i) ==
    /\ Updating /\ At("Begun") /\ ask.listed[i] # None /\ ask.newest[i] = NoCommit
    /\ ask' = [ask EXCEPT !.newest[i] = CHOOSE c \in CommitsOf[i] : c.rev = ask.listed[i]]
    /\ UNCHANGED <<others, pins, heard, budget>>

NoNewest ==
    /\ Updating /\ At("Begun")
    /\ \E i \in Inputs : ask.newest[i] = NoCommit
    /\ Fails /\ Refused("error")

step(from, newest) ==
    CASE newest.rev = from.rev -> <<"Current", from, from>>
      [] newest.rev # from.rev /\ newest.modified > from.modified -> <<"Updated", from, newest>>
      [] OTHER -> <<"Kept", from, from>>

decide(have, newest) == [i \in Inputs |-> step(have[i], newest[i])]
is_current(decision) == \A i \in Inputs : decision[i][1] # "Updated"
decided(decision) == [i \in Inputs |-> decision[i][3]]

Decides ==
    /\ Updating /\ At("Begun") /\ \A i \in Inputs : ask.newest[i] # NoCommit
    /\ LET decision == decide(pins, ask.newest)
       IN ask' = [ask EXCEPT !.decision = decision,
                             !.at = IF is_current(decision) THEN "Running" ELSE "Comparing"]
    /\ UNCHANGED <<others, pins, heard, budget>>

(* The pins of the generation that is active now are those before.         *)
Compares ==
    /\ At("Comparing")
    /\ ask' = [ask EXCEPT !.at = "Evaluating versions", !.before = installed]
    /\ UNCHANGED <<others, pins, heard, budget>>

package_changes(before, after) ==
    {<<name, before[name], after[name]>> : name \in {n \in DOMAIN before : before[n] # after[n]}}

Evaluates ==
    /\ At("Evaluating versions")
    /\ ask' = [ask EXCEPT !.at = "Running",
                          !.changes = package_changes(VersionsOf[ask.before["nixpkgs"].rev],
                                                      VersionsOf[ask.decision["nixpkgs"][3].rev])]
    /\ UNCHANGED <<others, pins, heard, budget>>

EvaluationFails ==
    /\ At("Comparing") \/ At("Evaluating versions")
    /\ Fails /\ Refused("error")

(* pin_steps, all of them or none: Profile has them one by one.            *)
Runs ==
    /\ At("Running")
    /\ pins' = decided(ask.decision)
    /\ installed' = decided(ask.decision)
    /\ Goes("Ran")
    /\ UNCHANGED <<valid, caches, heads, heard, budget>>

RunFails ==
    /\ At("Running")
    /\ Fails /\ Refused("failed")

(* The generation it made is looked up to be told of.                      *)
NothingToTell ==
    /\ At("Ran") /\ ~is_current(ask.decision)
    /\ Fails /\ Refused("error")

Concludes ==
    /\ At("Ran")
    /\ Refused("updated")
    /\ UNCHANGED budget

-----------------------------------------------------------------------------
(* Others.                                                                 *)
Change == ~At("Over") /\ budget.changes > 0 /\ budget' = [budget EXCEPT !.changes = @ - 1]

StoreChanges ==
    /\ Change /\ ask.what = "install"
    /\ \/ \E p \in Path \ valid : valid' = valid \cup Closure[p]
       \/ \E p \in valid : valid' = {q \in valid : p \notin Closure[q]}
    /\ UNCHANGED <<caches, heads, installed, pins, ask, heard>>

CacheChanges ==
    /\ Change /\ ask.what = "install"
    /\ \E s \in DOMAIN caches, h \in Holdings : caches' = [caches EXCEPT ![s] = h]
    /\ UNCHANGED <<valid, heads, installed, pins, ask, heard>>

(* A branch may be set back.                                               *)
BranchMoves ==
    /\ Change /\ Updating
    /\ \E i \in Inputs : \E c \in CommitsOf[i] : heads' = [heads EXCEPT ![i] = c.rev]
    /\ UNCHANGED <<valid, caches, installed, pins, ask, heard>>

(* The user switches generations by hand.                                  *)
UserSwitches ==
    /\ Change /\ Updating
    /\ installed' \in [Inputs -> UNION {CommitsOf[i] : i \in Inputs}]
    /\ \A i \in Inputs : installed'[i] \in CommitsOf[i]
    /\ UNCHANGED <<valid, caches, heads, pins, ask, heard>>

PreviewInit ==
    /\ ask \in {NewAsk("install"), NewAsk("update")}
    /\ valid \in {{p \in Path : Closure[p] \subseteq s} : s \in SUBSET Path}
    /\ caches \in [Range(Substituters) -> Holdings]
    /\ heads \in [Inputs -> {c.rev : c \in UNION {CommitsOf[i] : i \in Inputs}}]
    /\ \A i \in Inputs : \E c \in CommitsOf[i] : c.rev = heads[i]
    /\ \E have \in [Inputs -> UNION {CommitsOf[i] : i \in Inputs}] :
         /\ \A i \in Inputs : have[i] \in CommitsOf[i]
         /\ pins = have /\ installed = have
    /\ heard = {} /\ budget = [troubles |-> MaxTroubles, changes |-> MaxChanges]
    /\ ask.what = "update" => valid = {} /\ \A s \in DOMAIN caches : caches[s] = {}
    /\ ask.what = "install" => \A i \in Inputs : pins[i] = (CHOOSE c \in CommitsOf[i] : TRUE) /\ heads[i] = pins[i].rev

Installing ==
    \/ Assess \/ AssessFails \/ Evaluate \/ Look \/ GivesUp \/ SkipPresent \/ Found \/ NotValid \/ NoAnswer
    \/ AskedAll \/ LooksAgain \/ Count \/ Tells
UpdateSteps ==
    \/ \E i \in Inputs : Lists(i) \/ Prefetches(i)
    \/ NoNewest \/ Decides \/ Compares \/ Evaluates \/ EvaluationFails \/ Runs \/ RunFails \/ NothingToTell
    \/ Concludes
Around == StoreChanges \/ CacheChanges \/ BranchMoves \/ UserSwitches

PreviewNext == Installing \/ UpdateSteps \/ Around
PreviewSpec == PreviewInit /\ [][PreviewNext]_previewVars

-----------------------------------------------------------------------------
(* A plan that calls itself complete accounts for every output: it is      *)
(* there, a substituter said it has it, or it will be built, and that only *)
(* when every substituter was asked and said no.  What is counted is what  *)
(* the store lacked of the closures to be fetched, each path once; and a   *)
(* plan is incomplete only because a question went unanswered.             *)
PlanIsHonest ==
    ask.what = "install" /\ ask.told \in {"previewed", "refused"} =>
        LET out == ask.outputs
            plan == ask.plan
            Ways(p) == {w \in {"present", "fetched", "built"} :
                          \/ w = "present" /\ out[p].present
                          \/ w = "fetched" /\ \E s \in Range(Substituters) :
                                out[p].substituter = s /\ <<s, p, "found">> \in heard
                          \/ w = "built" /\ p \in plan.built}
            Fetched == {p \in DOMAIN out : out[p].substituter # None}
        IN /\ \A p \in plan.built : \A s \in Range(Substituters) : <<s, p, "not valid">> \in heard
           /\ plan.complete =>
                /\ \A p \in DOMAIN out : Cardinality(Ways(p)) = 1
                /\ plan.paths = Cardinality(ask.needed)
                /\ ask.needed \subseteq UNION {Closure[p] : p \in Fetched}
                /\ plan.download = Sum(ask.needed, "download") /\ plan.unpacked = Sum(ask.needed, "nar")
           /\ ~plan.complete => budget.troubles < MaxTroubles
           /\ budget.changes = MaxChanges /\ plan.complete
                => ask.needed = UNION {Closure[p] : p \in Fetched} \ valid

(* An update never takes an input back in time, whatever its branch does   *)
(* meanwhile; what it moved is what it tells of, to a commit the branch    *)
(* pointed at; and the packages it lists are those whose version is not    *)
(* the one of the generation it compared with.                             *)
UpdateIsTrue ==
    ask.told = "updated" =>
        LET moved == {i \in Inputs : ask.decision[i][1] = "Updated"}
        IN /\ \A i \in moved : pins[i].rev = ask.listed[i] /\ pins[i].modified > ask.decision[i][2].modified
           /\ \A i \in Inputs \ moved : pins[i] = ask.decision[i][2]
           /\ moved # {} => \A name \in DOMAIN VersionsOf[pins["nixpkgs"].rev] :
                LET was == VersionsOf[ask.before["nixpkgs"].rev][name]
                    is == VersionsOf[pins["nixpkgs"].rev][name]
                IN IF was = is THEN ~ \E c \in ask.changes : c[1] = name
                   ELSE <<name, was, is>> \in ask.changes
           /\ moved = {} => ask.changes = {}
=============================================================================
