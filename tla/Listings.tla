------------------------------ MODULE Listings ------------------------------
(***************************************************************************)
(* `mix list` and the cache behind it: Installed keeps, per user, what the *)
(* last listing found, filled by whoever asks first and warmed by tasks of *)
(* the daemon (crates/shell/src/request/installed.rs); a listing gathers   *)
(* from nix what the active generation holds                               *)
(* (crates/shell/src/effect/installed.rs), and a removal waits until no    *)
(* listing runs (crates/shell/src/ops/removal.rs).                         *)
(*                                                                         *)
(* Meanwhile the user switches generations, collects garbage and commits   *)
(* to the repository; nix may fail and requests may be stopped.            *)
(*                                                                         *)
(* A generation is its number, its package list, the pins it was built     *)
(* from and whether the lock it holds can be read; its store path is made  *)
(* from the last three.  A package's version is what the pins it is        *)
(* evaluated at say, and it has one output.                                *)
(***************************************************************************)
EXTENDS Integers, Sequences, FiniteSets

CONSTANTS
    User,
    Lister,         \* list requests and warming tasks
    Warming,        \* those of them that are tasks: nobody stops them
    user,           \* whom each lists
    Remover,        \* requests that remove a user or everything
    Package,
    Pins,           \* what the inputs may be pinned at
    Built,          \* what generations are made from: [list, pins, readable]
    Unmoved,        \* packages that are the same at all pins
    Mirrored,       \* the machine fetches from a mirror
    MaxSwitches,    \* bound: generations made, collected, commits
    MaxAsks,        \* bound: listings asked for
    None

ASSUME ListingsAssumption ==
    /\ Warming \subseteq Lister
    /\ user \in [Lister -> User]
    /\ Lister \cap Remover = {}
    /\ Built \subseteq [list : SUBSET Package, pins : Pins, readable : BOOLEAN]
    /\ MaxSwitches \in Nat /\ MaxAsks \in Nat

(* None is what the others are not, the entries of a listing included.     *)
ASSUME NoneAssumption ==
    /\ None \notin Remover /\ None \notin Pins
    /\ \A v \in Pins : \A p \in Package : \A path \in {<<p>>, <<p, v>>} :
         None # [version |-> v, path |-> path]

VARIABLES
    profile,    \* the active generation of each user
    collected,  \* store paths of generations that are gone
    commits,    \* the pins of each commit of a user's branch, oldest first
    switches,   \* how much the user did
    asked,      \* how many listings were asked for
    running,    \* the lock all listings share and a removal takes alone
    turn,       \* per user, who holds its slot and who waits for it
    slot,       \* per user, what was listed last
    listing,    \* what each lister is doing
    removal,    \* what each remover is doing
    since,      \* history: the generations active since a lister asked
    torn        \* history, per user: store paths collected between the two
                \* questions a listing asks the store about them

vars == <<profile, collected, commits, switches, asked, running, turn, slot, listing, removal, since, torn>>

generation(n, b) == [number |-> n, list |-> b.list, pins |-> b.pins, readable |-> b.readable]
Path(g) == <<g.list, g.pins, g.readable>>
store_name(p, pins) == IF p \in Unmoved THEN <<p>> ELSE <<p, pins>>
branch(u) == commits[u][Len(commits[u])]

Idle == [at |-> "Idle", generation |-> None, evaluation |-> None, described |-> None,
         references |-> None, stored |-> None, answer |-> None]

Init ==
    /\ \E b \in Built :
         /\ profile = [u \in User |-> generation(1, b)]
         /\ commits = [u \in User |-> <<b.pins>>]
    /\ collected = [u \in User |-> {}]
    /\ switches = 0 /\ asked = 0
    /\ running = [readers |-> {}, writer |-> None, queue |-> <<>>]
    /\ turn = [u \in User |-> <<>>]
    /\ slot = [u \in User |-> None]
    /\ listing = [l \in Lister |-> Idle]
    /\ removal = [r \in Remover |-> "Idle"]
    /\ since = [l \in Lister |-> {}]
    /\ torn = [u \in User |-> {}]

-----------------------------------------------------------------------------
(* The locks of tokio, which serve in the order they were asked: running   *)
(* is a read-write lock, a slot a mutex whose holder heads its queue.      *)

Without(queue, w) == SelectSeq(queue, LAMBDA v : v # w)
Queued(w) == running' = [running EXCEPT !.queue = Append(@, w)]
FirstInLine(w) == running.queue # <<>> /\ Head(running.queue) = w

(* Mutant: the guard is dropped at once.                                   *)
Shares_dropped(l) ==
    /\ FirstInLine(l) /\ running.writer = None
    /\ running' = [running EXCEPT !.queue = Tail(@)]

Shares(l) ==
    /\ FirstInLine(l) /\ running.writer = None
    /\ running' = [running EXCEPT !.queue = Tail(@), !.readers = @ \cup {l}]

TakesAlone(r) ==
    /\ FirstInLine(r) /\ running.writer = None /\ running.readers = {}
    /\ running' = [running EXCEPT !.queue = Tail(@), !.writer = r]

(* Mutant: the slot stays locked.                                          *)
LetsGo_kept(l) ==
    /\ running' = [running EXCEPT !.readers = @ \ {l}, !.queue = Without(@, l)]
    /\ UNCHANGED turn

(* Dropping the guards, or the future that still waits for one.            *)
LetsGo(l) ==
    /\ running' = [running EXCEPT !.readers = @ \ {l}, !.queue = Without(@, l)]
    /\ turn' = [turn EXCEPT ![user[l]] = Without(@, l)]

-----------------------------------------------------------------------------
(* A listing.                                                              *)

At(l, where) == listing[l].at = where
To(l, where) == listing' = [listing EXCEPT ![l].at = where]
machine == <<profile, collected, commits, switches, torn>>
Working(l) == listing[l].at \notin {"Idle", "Told"}

Asked(l) ==
    /\ At(l, "Idle") /\ asked < MaxAsks
    /\ asked' = asked + 1
    /\ Queued(l)
    /\ To(l, "Queued")
    /\ since' = [since EXCEPT ![l] = {profile[user[l]]}]
    /\ UNCHANGED <<machine, turn, slot, removal>>

Asks(l) == l \notin Warming /\ Asked(l)
Warms(l) == l \in Warming /\ Asked(l)     \* after a change, and when the daemon starts

Enters(l) ==
    /\ At(l, "Queued")
    /\ Shares(l)
    /\ turn' = [turn EXCEPT ![user[l]] = Append(@, l)]
    /\ To(l, "Waiting")
    /\ UNCHANGED <<machine, asked, slot, removal, since>>

HoldsSlot(l) == turn[user[l]] # <<>> /\ Head(turn[user[l]]) = l

Ends(l, answer) ==
    /\ listing' = [listing EXCEPT ![l] = [Idle EXCEPT !.at = "Told", !.answer = answer]]
    /\ LetsGo(l)

cached(l, g) == slot[user[l]] # None /\ Path(slot[user[l]].generation) = Path(g)

(* The pins of the generation, which its packages are evaluated at; with a *)
(* mirror, or if its lock cannot be read, the repository is taken as it    *)
(* stands.                                                                 *)
evaluated_at(g) == IF Mirrored \/ ~g.readable THEN None ELSE g.pins

(* active_generation, what the slot holds, and requested.                  *)
Reads(l) ==
    /\ At(l, "Waiting") /\ HoldsSlot(l)
    /\ LET g == profile[user[l]]
       IN \/ /\ g = None
             /\ Ends(l, [packages |-> None, generation |-> None])
             /\ UNCHANGED slot
          \/ /\ g # None /\ cached(l, g)
             /\ slot' = [slot EXCEPT ![user[l]].generation = g]
             /\ Ends(l, [packages |-> slot[user[l]].packages, generation |-> g])
          \/ /\ g # None /\ ~cached(l, g)
             /\ IF g.list = {}
                THEN /\ slot' = [slot EXCEPT ![user[l]] = [generation |-> g, packages |-> <<>>]]
                     /\ Ends(l, [packages |-> <<>>, generation |-> g])
                ELSE /\ listing' = [listing EXCEPT ![l].at = "Gathering", ![l].generation = g,
                                      ![l].evaluation = IF evaluated_at(g) = None
                                                        THEN <<"AsItStands">> ELSE None]
                     /\ UNCHANGED <<running, turn, slot>>
    /\ UNCHANGED <<machine, asked, removal, since>>

(* Mutant: the branch is evaluated, whatever it leads to by then.          *)
evaluation_unpinned(wanted, rev, pins) ==
    IF pins = wanted THEN <<"AsItStands">> ELSE <<"Overridden", wanted>>

(* locked: the commit the branch is at and its pins.  A failure is taken   *)
(* for not knowing them.                                                   *)
evaluation(wanted, rev, pins) ==
    IF pins = wanted THEN <<"AtCommit", rev>> ELSE <<"Overridden", wanted>>

Settles(l, e) == listing' = [listing EXCEPT ![l].evaluation = e]
Gathers(l) == At(l, "Gathering")

Locked(l) ==
    /\ Gathers(l) /\ listing[l].evaluation = None
    /\ LET wanted == listing[l].generation.pins
           u == user[l]
       IN \/ Settles(l, evaluation(wanted, Len(commits[u]), branch(u)))
          \/ Settles(l, <<"Overridden", wanted>>)
    /\ UNCHANGED <<machine, asked, running, turn, slot, removal, since>>

(* The pins at which nix evaluates the packages of a listing, now.         *)
Evaluated(l) ==
    LET e == listing[l].evaluation
    IN CASE e[1] = "AsItStands" -> branch(user[l])
         [] e[1] = "AtCommit" -> commits[user[l]][e[2]]
         [] e[1] = "Overridden" -> e[2]

Describes(l) ==
    /\ Gathers(l) /\ listing[l].evaluation # None /\ listing[l].described = None
    /\ listing' = [listing EXCEPT ![l].described = Evaluated(l)]
    /\ UNCHANGED <<machine, asked, running, turn, slot, removal, since>>

(* stored: what the generation's home-path refers to is asked first, which *)
(* fails when it was collected.                                            *)
Refers(l) ==
    LET g == listing[l].generation
    IN /\ Gathers(l) /\ listing[l].references = None
       /\ Path(g) \notin collected[user[l]]
       /\ listing' = [listing EXCEPT ![l].references = {store_name(p, g.pins) : p \in g.list}]
       /\ UNCHANGED <<machine, asked, running, turn, slot, removal, since>>

held(u) == IF profile[u] = None THEN {}
           ELSE {store_name(p, profile[u].pins) : p \in profile[u].list}

(* External: which of the paths of generation g are in the store.  When it *)
(* was collected those of the active one are, and what others still hold.  *)
InStore(u, g, paths, left) ==
    IF Path(g) \in collected[u] THEN held(u) \cap paths \subseteq left ELSE left = paths

(* Then the path info of what it said: a path that is not valid any more   *)
(* is null in the answer, and parse_path_info drops it.                    *)
Stores(l) ==
    LET x == listing[l]
    IN /\ Gathers(l) /\ x.references # None /\ x.stored = None
       /\ \E left \in SUBSET x.references :
            /\ InStore(user[l], x.generation, x.references, left)
            /\ listing' = [listing EXCEPT ![l].stored = left]
       /\ UNCHANGED <<machine, asked, running, turn, slot, removal, since>>

(* join: every name asked for, with its version and its store path if one  *)
(* of the name the version has was found, else with neither.               *)
join(names, pins, stored) ==
    [p \in names |-> IF store_name(p, pins) \in stored
                     THEN [version |-> pins, path |-> store_name(p, pins)] ELSE None]

Answers(l) ==
    LET x == listing[l]
        listed == [generation |-> x.generation,
                   packages |-> join(x.generation.list, x.described, x.stored)]
    IN /\ Gathers(l) /\ x.described # None /\ x.stored # None
       /\ slot' = [slot EXCEPT ![user[l]] = listed]
       /\ Ends(l, [packages |-> listed.packages, generation |-> listed.generation])
       /\ UNCHANGED <<machine, asked, removal, since>>

(* A command fails, the list cannot be read, or the request is stopped.    *)
Fails(l) ==
    /\ (At(l, "Waiting") /\ HoldsSlot(l)) \/ Gathers(l)
    /\ Ends(l, None)
    /\ UNCHANGED <<machine, asked, slot, removal, since>>

Stopped(l) ==
    /\ l \notin Warming
    /\ Working(l)
    /\ Ends(l, None)
    /\ UNCHANGED <<machine, asked, slot, removal, since>>

(* The request concludes with the answer.                                  *)
Leaves(l) ==
    /\ At(l, "Told")
    /\ listing' = [listing EXCEPT ![l] = Idle]
    /\ since' = [since EXCEPT ![l] = {}]
    /\ UNCHANGED <<machine, asked, running, turn, slot, removal>>

-----------------------------------------------------------------------------
(* A removal: it pauses the listings, then takes the users away.           *)

Pauses(r) ==
    /\ removal[r] = "Idle"
    /\ removal' = [removal EXCEPT ![r] = "Queued"]
    /\ Queued(r)
    /\ UNCHANGED <<machine, asked, turn, slot, listing, since>>

Paused(r) ==
    /\ removal[r] = "Queued"
    /\ TakesAlone(r)
    /\ removal' = [removal EXCEPT ![r] = "Removing"]
    /\ UNCHANGED <<machine, asked, turn, slot, listing, since>>

Refused(r) ==       \* stopped while it waited for the pause
    /\ removal[r] = "Queued"
    /\ removal' = [removal EXCEPT ![r] = "Over"]
    /\ running' = [running EXCEPT !.queue = Without(@, r)]
    /\ UNCHANGED <<machine, asked, turn, slot, listing, since>>

Removes(r) ==
    /\ removal[r] = "Removing"
    /\ removal' = [removal EXCEPT ![r] = "Over"]
    /\ running' = [running EXCEPT !.writer = None]
    /\ \/ \E u \in User : profile' = [profile EXCEPT ![u] = None]
       \/ UNCHANGED profile         \* it failed and was rolled back
    /\ since' = [l \in Lister |-> IF ~Working(l) THEN since[l] ELSE since[l] \cup {profile'[user[l]]}]
    /\ UNCHANGED <<collected, commits, switches, torn, asked, turn, slot, listing>>

-----------------------------------------------------------------------------
(* The user, with nix, home-manager and git, or mix's own requests.        *)

Acts ==
    /\ switches < MaxSwitches
    /\ switches' = switches + 1
    /\ UNCHANGED <<asked, running, turn, slot, listing, removal>>

Switches(u) ==
    /\ Acts
    /\ profile[u] # None
    /\ \E b \in Built :
         LET g == generation(profile[u].number + 1, b)
         IN /\ profile' = [profile EXCEPT ![u] = g]
            /\ collected' = [collected EXCEPT ![u] = @ \ {Path(g)}]
            /\ since' = [k \in Lister |-> IF user[k] # u \/ ~Working(k) THEN since[k]
                                          ELSE since[k] \cup {g}]
    /\ UNCHANGED <<commits, torn>>

(* A listing of u has asked the store one of its two questions about path. *)
Between(u, path) ==
    \E l \in Lister :
      LET x == listing[l]
      IN /\ user[l] = u /\ Gathers(l) /\ Path(x.generation) = path
         /\ x.references # None /\ x.stored = None

Collects(u) ==
    /\ Acts
    /\ profile[u] # None
    /\ \E path \in {Path(listing[l].generation) : l \in {k \in Lister : Gathers(k) /\ user[k] = u}} :
         /\ path # Path(profile[u])
         /\ collected' = [collected EXCEPT ![u] = @ \cup {path}]
         /\ torn' = IF Between(u, path) THEN [torn EXCEPT ![u] = @ \cup {path}] ELSE torn
    /\ UNCHANGED <<profile, commits, since>>

Commits(u) ==
    /\ Acts
    /\ \E p \in Pins : commits' = [commits EXCEPT ![u] = Append(@, p)]
    /\ UNCHANGED <<profile, collected, since, torn>>

-----------------------------------------------------------------------------

Goes(l) ==
    \/ Enters(l) \/ Reads(l) \/ Locked(l) \/ Describes(l) \/ Refers(l) \/ Stores(l)
    \/ Answers(l) \/ Fails(l) \/ Leaves(l)

RemovalGoes(r) == Paused(r) \/ Removes(r)

Next ==
    \/ \E l \in Lister : Asks(l) \/ Warms(l) \/ Goes(l) \/ Stopped(l)
    \/ \E r \in Remover : Pauses(r) \/ RemovalGoes(r) \/ Refused(r)
    \/ \E u \in User : Switches(u) \/ Collects(u) \/ Commits(u)

(* Commands and requests go on; nobody is made to ask, to stop or to act.  *)
Spec ==
    /\ Init /\ [][Next]_vars
    /\ \A l \in Lister : WF_vars(Goes(l))
    /\ \A r \in Remover : WF_vars(RemovalGoes(r))

-----------------------------------------------------------------------------
(* Properties.                                                             *)

Answered(l) == At(l, "Told") /\ listing[l].answer # None

(* A listing names a generation that was active while it ran, with exactly *)
(* the packages of its list, and where it names a store path it is one of  *)
(* that generation.  Where the pins of the generation can be known, each   *)
(* version is the one it was built from, though the branch moved, the user *)
(* switched or the answer comes from the cache, and no package is without  *)
(* its version and path, but of a generation that was collected between    *)
(* the two questions about it (Installed::listing, gather, stored, join).  *)
ListingIsTrue ==
    \A l \in Lister : Answered(l) =>
      LET a == listing[l].answer
          g == a.generation
      IN /\ g \in since[l]
         /\ g # None =>
              /\ DOMAIN a.packages = g.list
              /\ \A p \in DOMAIN a.packages :
                   /\ a.packages[p] # None => a.packages[p].path = store_name(p, g.pins)
                   /\ evaluated_at(g) # None =>
                        IF a.packages[p] = None THEN Path(g) \in torn[user[l]]
                        ELSE a.packages[p].version = g.pins

(* While a removal takes a user away, no listing of this process runs nix  *)
(* or the user's agent, asked for or warming (Installed::pause, removal).  *)
NothingListsWhileRemoving ==
    (\E r \in Remover : removal[r] = "Removing") =>
      \A l \in Lister : ~Working(l) \/ At(l, "Queued")

(* Every listing ends, behind others of its user and behind a removal, and *)
(* a removal gets its pause however many ask (listing, pause).             *)
EveryoneIsServed ==
    /\ \A l \in Lister : []<>~Working(l)
    /\ \A r \in Remover : []<>(removal[r] # "Queued")
=============================================================================
