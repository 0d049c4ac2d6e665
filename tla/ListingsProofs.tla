--------------------------- MODULE ListingsProofs ---------------------------
(***************************************************************************)
(* What Listings.tla promises, for any users, listings, warming tasks and  *)
(* removals, and however often the user acts in between.                   *)
(*                                                                         *)
(* That nothing lists while a user is taken away follows from the lock     *)
(* they share (Shared).  That a listing is true needs everything it is     *)
(* made of: the generation is one it saw (Seen), what nix is asked is      *)
(* about that generation's pins, or a commit that had them and still has   *)
(* them, its paths are all found unless it was collected in between        *)
(* (AskedOf), and what the slot keeps is true of the generation it keeps   *)
(* it for (Kept), so that it may be given to one of the same path.         *)
(***************************************************************************)
EXTENDS Listings, TLAPS

-----------------------------------------------------------------------------
(* The inductive invariant.                                                *)

Generation == [number : Nat, list : SUBSET Package, pins : Pins, readable : BOOLEAN]

States == {"Idle", "Queued", "Waiting", "Gathering", "Told"}

(* A listing x that is at another place.                                   *)
Listed(at, x) ==
    [at |-> at, generation |-> x.generation, evaluation |-> x.evaluation,
     described |-> x.described, references |-> x.references, stored |-> x.stored,
     answer |-> x.answer]

(* The functions and records of the state have their keys and fields.      *)
Shape ==
    /\ profile \in [User -> Generation \cup {None}]
    /\ commits \in [User -> Seq(Pins) \ {<<>>}]
    /\ DOMAIN slot = User /\ DOMAIN torn = User /\ DOMAIN collected = User
    /\ DOMAIN listing = Lister
    /\ \A l \in Lister :
         /\ listing[l].at \in States
         /\ listing[l] = Listed(listing[l].at, listing[l])
    /\ DOMAIN removal = Remover
    /\ DOMAIN since = Lister
    /\ running = [readers |-> running.readers, writer |-> running.writer,
                  queue |-> running.queue]

(* Whoever lists shares the lock, and whoever removes has it alone.        *)
Shared ==
    /\ \A r \in Remover : removal[r] = "Removing" => running.writer = r
    /\ \A l \in Lister : Working(l) /\ ~At(l, "Queued") => l \in running.readers
    /\ running.writer # None => running.readers = {}

Seen == \A l \in Lister : Working(l) => profile[user[l]] \in since[l]

(* What was listed is true of generation g of user u.                      *)
Holds(u, g, packages) ==
    /\ DOMAIN packages = g.list
    /\ \A p \in DOMAIN packages :
         /\ packages[p] # None => packages[p].path = store_name(p, g.pins)
         /\ evaluated_at(g) # None => IF packages[p] = None THEN Path(g) \in torn[u]
                                      ELSE packages[p].version = g.pins

Kept ==
    \A u \in User : slot[u] # None =>
      /\ slot[u] = [generation |-> slot[u].generation, packages |-> slot[u].packages]
      /\ slot[u].generation \in Generation
      /\ Holds(u, slot[u].generation, slot[u].packages)

(* Whatever the branch does, nix evaluates at the pins wanted.             *)
Pinned(e, u, wanted) ==
    \/ e = <<"Overridden", wanted>>
    \/ \E n \in 1..Len(commits[u]) : e = <<"AtCommit", n>> /\ commits[u][n] = wanted

store(g) == {store_name(p, g.pins) : p \in g.list}

(* The store said which paths generation g of u has, and a listing that    *)
(* has not asked on knows if it was collected since.                       *)
Found(u, g, references, stored) ==
    /\ references \in {None, store(g)}
    /\ references # None /\ stored = None => Path(g) \in torn[u] \/ Path(g) \notin collected[u]
    /\ stored # None => stored \subseteq store(g) /\ (stored = store(g) \/ Path(g) \in torn[u])

AskedOf(l) ==
    LET x == listing[l]
    IN /\ x.generation \in Generation /\ x.generation \in since[l]
       /\ \/ evaluated_at(x.generation) = None
          \/ /\ x.evaluation = None \/ Pinned(x.evaluation, user[l], x.generation.pins)
             /\ x.described \in {None, x.generation.pins}
       /\ Found(user[l], x.generation, x.references, x.stored)

Gathered ==
    \A l \in Lister :
      /\ listing[l].at \in {"Idle", "Queued", "Waiting"} =>
           /\ listing[l].described = None
           /\ listing[l].references = None /\ listing[l].stored = None
      /\ Gathers(l) => AskedOf(l)

TrueAnswer(l, a) ==
    a # None => /\ a.generation \in since[l]
                /\ a.generation # None => Holds(user[l], a.generation, a.packages)

Told == \A l \in Lister : At(l, "Told") => TrueAnswer(l, listing[l].answer)

Inv == Shape /\ Shared /\ Seen /\ Kept /\ Gathered /\ Told

-----------------------------------------------------------------------------
USE ListingsAssumption, NoneAssumption

(* What gather() puts together is true of the generation it began with.    *)
LEMMA JoinHolds ==
  ASSUME NEW u \in User, NEW g \in Generation, NEW d, evaluated_at(g) = None \/ d = g.pins,
         NEW stored \in SUBSET store(g), stored = store(g) \/ Path(g) \in torn[u]
  PROVE  Holds(u, g, join(g.list, d, stored))
<1> DEFINE packages == join(g.list, d, stored)
<1>1. DOMAIN packages = g.list
  BY DEF join
<1>2. ASSUME NEW p \in g.list, store_name(p, d) \in stored
      PROVE  store_name(p, d) = store_name(p, g.pins)
  <2>1. PICK q \in g.list : store_name(p, d) = store_name(q, g.pins)
    BY <1>2 DEF store
  <2>2. CASE p \in Unmoved
    BY <2>2 DEF store_name
  <2>3. CASE p \notin Unmoved /\ q \notin Unmoved
    BY <2>1, <2>3 DEF store_name
  <2>4. CASE p \notin Unmoved /\ q \in Unmoved
    <3>1. <<p, d>> = <<q>>
      BY <2>1, <2>4 DEF store_name
    <3>2. Len(<<p, d>>) = 2 /\ Len(<<q>>) = 1
      OBVIOUS
    <3> QED BY <3>1, <3>2
  <2> QED BY <2>2, <2>3, <2>4
<1>3. ASSUME NEW p \in g.list, packages[p] # None
      PROVE  packages[p].path = store_name(p, g.pins)
  BY <1>2, <1>3 DEF join
<1>4. ASSUME NEW p \in g.list, evaluated_at(g) # None
      PROVE  IF packages[p] = None THEN Path(g) \in torn[u] ELSE packages[p].version = g.pins
  <2>1. d = g.pins /\ d \in Pins /\ p \in Package
    BY <1>4 DEF Generation
  <2>2. CASE store_name(p, d) \in stored
    <3>1. packages[p] = [version |-> d, path |-> store_name(p, d)]
      BY <2>2 DEF join
    <3>2. packages[p] # None /\ packages[p].version = d
      BY <2>1, <3>1 DEF store_name
    <3> QED BY <2>1, <3>2
  <2>3. CASE store_name(p, d) \notin stored
    <3>1. packages[p] = None
      BY <2>3 DEF join
    <3>2. store_name(p, d) \in store(g)
      BY <2>1 DEF store
    <3> QED BY <2>3, <3>1, <3>2
  <2> QED BY <2>2, <2>3
<1> QED BY <1>1, <1>3, <1>4 DEF Holds

LEMMA BuiltGeneration ==
  ASSUME NEW n \in Nat, NEW b \in Built
  PROVE  generation(n, b) \in Generation /\ b.pins \in Pins
<1>1. b \in [list : SUBSET Package, pins : Pins, readable : BOOLEAN]
  BY Zenon
<1>2. b.list \in SUBSET Package /\ b.pins \in Pins /\ b.readable \in BOOLEAN
  BY <1>1
<1> QED BY <1>2 DEF generation, Generation

-----------------------------------------------------------------------------
(* One lemma per action.                                                   *)

LEMMA InitInv == ASSUME Init PROVE Inv
<1>1. PICK b \in Built : /\ profile = [u \in User |-> generation(1, b)]
                         /\ commits = [u \in User |-> <<b.pins>>]
  BY DEF Init
<1>0. generation(1, b) \in Generation /\ b.pins \in Pins
  BY BuiltGeneration
<1>2. Shape
  BY <1>0, <1>1 DEF Init, Shape, Idle, States, Listed
<1>3. Shared /\ Seen /\ Kept /\ Gathered /\ Told
  BY DEF Init, Shared, Seen, Kept, Gathered, Told, Idle, Working, At, Gathers
<1> QED BY <1>2, <1>3 DEF Inv

(* A listing is what it was if nobody touches it.                          *)
LEMMA AskedOfKept ==
  ASSUME NEW k \in Lister, AskedOf(k), listing'[k] = listing[k], since'[k] = since[k],
         UNCHANGED <<commits, torn, collected>>
  PROVE  AskedOf(k)'
  BY DEF AskedOf, Pinned, Found

LEMMA AnswerKept ==
  ASSUME NEW k \in Lister, NEW a, TrueAnswer(k, a), since'[k] = since[k], UNCHANGED torn
  PROVE  TrueAnswer(k, a)'
  BY DEF TrueAnswer, Holds

LEMMA Moved ==
  ASSUME Shape, NEW l \in Lister, NEW w \in States, To(l, w)
  PROVE  /\ listing'[l] = Listed(w, listing[l])
         /\ \A k \in Lister : k # l => listing'[k] = listing[k]
         /\ DOMAIN listing' = Lister
         /\ \A k \in Lister :
              /\ listing'[k].at \in States
              /\ listing'[k] = Listed(listing'[k].at, listing'[k])
<1>1. listing[l] = Listed(listing[l].at, listing[l])
  BY DEF Shape
<1>2. [listing[l] EXCEPT !.at = w] = Listed(w, listing[l])
  BY <1>1 DEF Listed
<1>3. listing'[l] = Listed(w, listing[l]) /\ \A k \in Lister : k # l => listing'[k] = listing[k]
  BY <1>2 DEF To, Shape
<1>4. listing'[l].at = w /\ listing'[l] = Listed(listing'[l].at, listing'[l])
  BY <1>3 DEF Listed
<1>5. DOMAIN listing' = Lister
  BY DEF To, Shape
<1> QED BY <1>3, <1>4, <1>5 DEF Shape

(* A lister that has ended lets go of the lock and holds its answer.       *)
LEMMA EndsInv ==
  ASSUME Inv, NEW l \in Lister, NEW a, Ends(l, a), TrueAnswer(l, a), Kept', DOMAIN slot' = User,
         UNCHANGED <<machine, removal, since>>
  PROVE  Inv'
<1> USE DEF Inv
<1>1. listing'[l] = [Idle EXCEPT !.at = "Told", !.answer = a]
  BY DEF Ends, Shape
<1>2. \A k \in Lister : k # l => listing'[k] = listing[k]
  BY DEF Ends, Shape
<1>3. /\ running'.readers = running.readers \ {l} /\ running'.writer = running.writer
      /\ running' = [readers |-> running'.readers, writer |-> running'.writer,
                     queue |-> running'.queue]
  BY DEF Ends, LetsGo, Shape
<1>4. Shape'
  BY <1>1, <1>2, <1>3 DEF Shape, Ends, machine, Idle, States, Listed
<1>5. Shared'
  BY <1>1, <1>2, <1>3 DEF Shared, Working, At, Idle
<1>6. Seen'
  BY <1>1, <1>2 DEF Seen, Working, At, Idle, machine
<1>7. Gathered'
  BY <1>1, <1>2, AskedOfKept DEF Gathered, Gathers, At, Idle, machine
<1>8. Told'
  <2>1. UNCHANGED <<since, torn>>
    BY DEF machine
  <2>2. listing'[l].answer = a /\ TrueAnswer(l, a)'
    BY <1>1, <2>1, AnswerKept DEF Idle
  <2>3. \A k \in Lister : k # l /\ At(k, "Told") => TrueAnswer(k, listing[k].answer)'
    BY <1>2, <2>1, AnswerKept DEF Told
  <2> QED BY <1>2, <2>2, <2>3 DEF Told, At
<1> QED BY <1>4, <1>5, <1>6, <1>7, <1>8

LEMMA AskedInv == ASSUME Inv, NEW l \in Lister, Asked(l) PROVE Inv'
<1> USE DEF Inv
<1>1. /\ listing'[l] = Listed("Queued", listing[l]) /\ listing[l].at = "Idle"
      /\ \A k \in Lister : k # l => listing'[k] = listing[k]
  BY Moved DEF Asked, At, States
<1>2. /\ since'[l] = {profile[user[l]]} /\ DOMAIN since' = Lister
      /\ \A k \in Lister : k # l => since'[k] = since[k]
  BY DEF Asked, Shape
<1>3. /\ running'.readers = running.readers /\ running'.writer = running.writer
      /\ running' = [readers |-> running'.readers, writer |-> running'.writer,
                     queue |-> running'.queue]
  BY DEF Asked, Queued, Shape
<1>4. Shape'
  BY <1>2, <1>3, Moved DEF Shape, Asked, machine, States
<1>5. Shared'
  BY <1>1, <1>3 DEF Shared, Working, At, Asked, Listed
<1>6. Seen'
  BY <1>1, <1>2 DEF Seen, Working, At, Asked, machine, Listed
<1>7. Kept'
  BY DEF Kept, Asked, Holds, machine
<1>8. Gathered'
  BY <1>1, <1>2, AskedOfKept DEF Gathered, Gathers, At, Asked, machine, Listed
<1>9. Told'
  BY <1>1, <1>2 DEF Told, At, TrueAnswer, Listed, Holds, Asked, machine
<1> QED BY <1>4, <1>5, <1>6, <1>7, <1>8, <1>9

LEMMA EntersInv == ASSUME Inv, NEW l \in Lister, Enters(l) PROVE Inv'
<1> USE DEF Inv
<1>1. /\ listing'[l] = Listed("Waiting", listing[l]) /\ listing[l].at = "Queued"
      /\ \A k \in Lister : k # l => listing'[k] = listing[k]
  BY Moved DEF Enters, At, States
<1>2. UNCHANGED <<profile, commits, collected, torn, slot, removal, since>>
  BY DEF Enters, machine
<1>3. /\ running'.readers = running.readers \cup {l}
      /\ running'.writer = running.writer /\ running.writer = None
      /\ running' = [readers |-> running'.readers, writer |-> running'.writer,
                     queue |-> running'.queue]
  BY DEF Enters, Shares, Shape
<1>4. Shape'
  BY <1>2, <1>3, Moved DEF Shape, Enters, States
<1>5. Shared'
  BY <1>1, <1>2, <1>3 DEF Shared, Working, At, Listed
<1>6. Seen'
  BY <1>1, <1>2 DEF Seen, Working, At, Listed
<1>7. Kept'
  BY <1>2 DEF Kept, Holds
<1>8. Gathered'
  BY <1>1, <1>2, AskedOfKept DEF Gathered, Gathers, At, Listed
<1>9. Told'
  BY <1>1, <1>2 DEF Told, At, TrueAnswer, Listed, Holds
<1> QED BY <1>4, <1>5, <1>6, <1>7, <1>8, <1>9

(* The listing of l goes on with other fields, still in the lock.          *)
LEMMA GoesOnInv ==
  ASSUME Inv, NEW l \in Lister, NEW x, listing'[l] = x, x = Listed("Gathering", x),
         DOMAIN listing' = Lister, \A k \in Lister : k # l => listing'[k] = listing[k],
         AskedOf(l)', listing[l].at \in {"Waiting", "Gathering"},
         UNCHANGED <<machine, running, slot, removal, since>>
  PROVE  Inv'
<1> USE DEF Inv
<1>1. listing'[l] = x /\ x.at = "Gathering"
  BY DEF Listed
<1>2. \A k \in Lister : k # l => listing'[k] = listing[k]
  OBVIOUS
<1>3. Shape'
  BY <1>1, <1>2 DEF Shape, machine, States
<1>4. Shared'
  BY <1>1, <1>2 DEF Shared, Working, At
<1>5. Seen' /\ Kept'
  BY <1>1, <1>2 DEF Seen, Kept, Holds, Working, At, machine
<1>6. Gathered'
  BY <1>1, <1>2, AskedOfKept DEF Gathered, Gathers, At, machine
<1>7. Told'
  BY <1>1, <1>2 DEF Told, At, TrueAnswer, Holds, machine
<1> QED BY <1>3, <1>4, <1>5, <1>6, <1>7

LEMMA ReadsInv == ASSUME Inv, NEW l \in Lister, Reads(l) PROVE Inv'
<1> USE DEF Inv
<1> DEFINE u == user[l]  g == profile[u]
<1>1. /\ listing[l].at = "Waiting" /\ g \in since[l] /\ u \in User
      /\ UNCHANGED <<machine, removal, since>>
  BY DEF Reads, At, Seen, Working
<1>2. CASE g = None
  <2>1. Ends(l, [packages |-> None, generation |-> None]) /\ UNCHANGED slot
    BY <1>2 DEF Reads
  <2>2. TrueAnswer(l, [packages |-> None, generation |-> None])
    BY <1>1, <1>2 DEF TrueAnswer
  <2> QED BY <1>1, <2>1, <2>2, EndsInv DEF Shape, Kept, Holds, machine
<1>3. g # None => g \in Generation
  BY <1>1 DEF Shape
<1>4. CASE g # None /\ cached(l, g)
  <2> DEFINE a == [packages |-> slot[u].packages, generation |-> g]
  <2>1. Ends(l, a) /\ slot' = [slot EXCEPT ![u].generation = g]
    BY <1>4 DEF Reads
  <2>2. Holds(u, g, slot[u].packages)
    <3> DEFINE h == slot[u].generation
    <3>1. slot[u] # None /\ Path(h) = Path(g)
      BY <1>4 DEF cached
    <3>2. h.list = g.list /\ h.pins = g.pins /\ h.readable = g.readable
      BY <3>1 DEF Path
    <3>3. evaluated_at(h) = evaluated_at(g)
      BY <3>2 DEF evaluated_at
    <3> QED BY <1>1, <3>1, <3>2, <3>3 DEF Kept, Holds
  <2>3. slot'[u] = [generation |-> g, packages |-> slot[u].packages]
    BY <1>1, <1>4, <2>1 DEF Shape, Kept, cached
  <2>4. Kept' /\ DOMAIN slot' = User
    BY <1>1, <1>3, <1>4, <2>1, <2>2, <2>3 DEF Kept, Shape, Holds, machine
  <2>5. TrueAnswer(l, a)
    BY <1>1, <2>2 DEF TrueAnswer
  <2> QED BY <1>1, <2>1, <2>4, <2>5, EndsInv
<1>5. CASE g # None /\ ~cached(l, g) /\ g.list = {}
  <2> DEFINE a == [packages |-> <<>>, generation |-> g]
  <2>1. Ends(l, a) /\ slot' = [slot EXCEPT ![u] = [generation |-> g, packages |-> <<>>]]
    BY <1>5 DEF Reads
  <2>2. Holds(u, g, <<>>)
    BY <1>5 DEF Holds
  <2>3. Kept' /\ DOMAIN slot' = User
    <3>1. /\ slot'[u] = [generation |-> g, packages |-> <<>>] /\ DOMAIN slot' = User
          /\ \A v \in User : v # u => slot'[v] = slot[v]
      BY <1>1, <2>1 DEF Shape
    <3>2. ASSUME NEW v \in User, NEW h, NEW packages, Holds(v, h, packages)
          PROVE  Holds(v, h, packages)'
      BY <1>1, <3>2 DEF Holds, machine
    <3>3. ASSUME NEW h, NEW p, h = g, p = <<>> PROVE Holds(u, h, p)'
      BY <1>1, <2>2, <3>2, <3>3
    <3>4. slot'[u].generation = g /\ slot'[u].packages = <<>>
      BY <3>1
    <3>5. Holds(u, slot[u].generation, slot[u].packages)'
      BY <3>3, <3>4
    <3>6. ASSUME NEW v \in User, v # u, slot'[v] # None
          PROVE  Holds(v, slot[v].generation, slot[v].packages)'
      BY <3>1, <3>2, <3>6 DEF Kept
    <3>7. \A v \in User : slot'[v] # None =>
            /\ slot'[v] = [generation |-> slot'[v].generation, packages |-> slot'[v].packages]
            /\ slot'[v].generation \in Generation
      <4>1. \A v \in User : v # u /\ slot'[v] # None =>
              /\ slot'[v] = [generation |-> slot'[v].generation, packages |-> slot'[v].packages]
              /\ slot'[v].generation \in Generation
        BY <3>1 DEF Kept
      <4> HIDE DEF g
      <4>2. /\ slot'[u] = [generation |-> slot'[u].generation, packages |-> slot'[u].packages]
            /\ slot'[u].generation \in Generation
        BY <1>3, <1>5, <3>1
      <4> QED BY <4>1, <4>2
    <3> QED BY <3>1, <3>5, <3>6, <3>7 DEF Kept
  <2>4. TrueAnswer(l, a)
    BY <1>1, <2>2 DEF TrueAnswer
  <2> HIDE DEF a
  <2> QED BY <1>1, <2>1, <2>3, <2>4, EndsInv
<1>6. CASE g # None /\ ~cached(l, g) /\ g.list # {}
  <2> DEFINE e == IF evaluated_at(g) = None THEN <<"AsItStands">> ELSE None
             x == [at |-> "Gathering", generation |-> g, evaluation |-> e,
                   described |-> listing[l].described,
                   references |-> listing[l].references, stored |-> listing[l].stored,
                   answer |-> listing[l].answer]
             first == [listing EXCEPT ![l].at = "Gathering"]
             second == [first EXCEPT ![l].generation = g]
  <2>1. /\ listing' = [second EXCEPT ![l].evaluation = e]
        /\ UNCHANGED <<running, turn, slot>>
    BY <1>6 DEF Reads
  <2>2. /\ listing'[l] = x /\ DOMAIN listing' = Lister
        /\ \A k \in Lister : k # l => listing'[k] = listing[k]
    <3> HIDE DEF e
    <3>1. first[l] = Listed("Gathering", listing[l]) /\ DOMAIN first = Lister
      <4>1. listing[l] = Listed(listing[l].at, listing[l])
        BY DEF Shape
      <4>2. [listing[l] EXCEPT !.at = "Gathering"] = Listed("Gathering", listing[l])
        BY <4>1 DEF Listed
      <4> QED BY <4>2 DEF Shape
    <3> DEFINE y == [at |-> "Gathering", generation |-> g, evaluation |-> listing[l].evaluation,
                     described |-> listing[l].described,
                   references |-> listing[l].references, stored |-> listing[l].stored,
                     answer |-> listing[l].answer]
    <3>2. second[l] = y /\ DOMAIN second = Lister
      <4>1. [Listed("Gathering", listing[l]) EXCEPT !.generation = g] = y
        BY DEF Listed
      <4> QED BY <3>1, <4>1
    <3>3. [y EXCEPT !.evaluation = e] = x
      OBVIOUS
    <3>4. ASSUME NEW k \in Lister, k # l PROVE listing'[k] = listing[k]
      BY <2>1, <3>4 DEF Shape
    <3> QED BY <2>1, <3>2, <3>3, <3>4
  <2>3. x = Listed("Gathering", x)
    BY DEF Listed
  <2>4. evaluated_at(g) = None \/ e = None
    BY <1>3, <1>6 DEF evaluated_at, Generation
  <2>5. AskedOf(l)'
    <3>1. /\ listing'[l] = x /\ x.generation = g /\ x.evaluation = e
          /\ x.described = None /\ x.references = None /\ x.stored = None
      BY <1>1, <2>2 DEF Gathered
    <3> QED BY <1>1, <1>3, <1>6, <2>4, <3>1 DEF AskedOf, Found
  <2> QED BY <1>1, <2>1, <2>2, <2>3, <2>5, GoesOnInv
<1> QED BY <1>2, <1>4, <1>5, <1>6

LEMMA GathersInv ==
  ASSUME Inv, NEW l \in Lister, Locked(l) \/ Describes(l) \/ Refers(l) \/ Stores(l)
  PROVE  Inv'
<1> USE DEF Inv
<1> DEFINE g == listing[l].generation
<1>1. /\ listing[l].at = "Gathering" /\ AskedOf(l)
      /\ UNCHANGED <<machine, running, slot, removal, since>>
  BY DEF Locked, Describes, Refers, Stores, Gathers, At, Gathered
<1>2. g \in Generation /\ listing[l] = Listed("Gathering", listing[l])
  BY <1>1 DEF AskedOf, Shape
<1>3. commits[user[l]] \in Seq(Pins) /\ commits[user[l]] # <<>> /\ user[l] \in User
  BY DEF Shape
<1>4. CASE Locked(l)
  <2>1. PICK e : Settles(l, e) /\ Pinned(e, user[l], g.pins)
    <3>1. Pinned(<<"Overridden", g.pins>>, user[l], g.pins)
      BY DEF Pinned
    <3>2. Pinned(evaluation(g.pins, Len(commits[user[l]]), branch(user[l])), user[l], g.pins)
      <4>1. Len(commits[user[l]]) \in 1..Len(commits[user[l]])
        BY <1>3
      <4> QED BY <3>1, <4>1 DEF evaluation, branch, Pinned
    <3> QED BY <1>4, <3>1, <3>2 DEF Locked
  <2> DEFINE x == [at |-> "Gathering", generation |-> g, evaluation |-> e,
                   described |-> listing[l].described,
                   references |-> listing[l].references, stored |-> listing[l].stored,
                   answer |-> listing[l].answer]
  <2>2. /\ listing'[l] = x /\ x = Listed("Gathering", x) /\ DOMAIN listing' = Lister
        /\ \A k \in Lister : k # l => listing'[k] = listing[k]
    <3>1. [listing[l] EXCEPT !.evaluation = e] = x
      BY <1>2 DEF Listed
    <3>2. x = Listed("Gathering", x)
      BY DEF Listed
    <3> QED BY <3>1, <3>2, <2>1 DEF Settles, Shape
  <2>3. AskedOf(l)'
    BY <1>1, <1>2, <2>1, <2>2 DEF AskedOf, Found, Listed, Pinned, machine
  <2> QED BY <1>1, <2>2, <2>3, GoesOnInv
<1>5. CASE Describes(l)
  <2> DEFINE x == [at |-> "Gathering", generation |-> g, evaluation |-> listing[l].evaluation,
                   described |-> Evaluated(l),
                   references |-> listing[l].references, stored |-> listing[l].stored,
                   answer |-> listing[l].answer]
  <2>1. /\ listing'[l] = x /\ x = Listed("Gathering", x) /\ DOMAIN listing' = Lister
        /\ \A k \in Lister : k # l => listing'[k] = listing[k]
    <3>1. [listing[l] EXCEPT !.described = Evaluated(l)] = x
      BY <1>2 DEF Listed
    <3>2. x = Listed("Gathering", x)
      BY DEF Listed
    <3> QED BY <3>1, <3>2, <1>5 DEF Describes, Shape
  <2>2. evaluated_at(g) = None \/ Evaluated(l) = g.pins
    <3>1. evaluated_at(g) # None => Pinned(listing[l].evaluation, user[l], g.pins)
      BY <1>1, <1>5 DEF AskedOf, Describes
    <3>2. ASSUME listing[l].evaluation = <<"Overridden", g.pins>> PROVE Evaluated(l) = g.pins
      BY <3>2 DEF Evaluated
    <3>3. ASSUME NEW n \in 1..Len(commits[user[l]]), listing[l].evaluation = <<"AtCommit", n>>,
                 commits[user[l]][n] = g.pins
          PROVE  Evaluated(l) = g.pins
      BY <3>3 DEF Evaluated
    <3> QED BY <3>1, <3>2, <3>3 DEF Pinned
  <2>3. AskedOf(l)'
    BY <1>1, <1>2, <2>1, <2>2 DEF AskedOf, Found, Listed, Pinned, machine
  <2> QED BY <1>1, <2>1, <2>3, GoesOnInv
<1>6. CASE Refers(l)
  <2> DEFINE x == [at |-> "Gathering", generation |-> g, evaluation |-> listing[l].evaluation,
                   described |-> listing[l].described,
                   references |-> store(g), stored |-> listing[l].stored,
                   answer |-> listing[l].answer]
  <2>1. /\ listing'[l] = x /\ x = Listed("Gathering", x) /\ DOMAIN listing' = Lister
        /\ \A k \in Lister : k # l => listing'[k] = listing[k]
    <3>1. [listing[l] EXCEPT !.references = store(g)] = x
      BY <1>2 DEF Listed
    <3>2. x = Listed("Gathering", x)
      BY DEF Listed
    <3> QED BY <3>1, <3>2, <1>6 DEF Refers, Shape, store
  <2>2. Found(user[l], g, store(g), x.stored)'
    BY <1>1, <1>6 DEF AskedOf, Found, Refers, machine
  <2>3. AskedOf(l)'
    BY <1>1, <1>2, <2>1, <2>2 DEF AskedOf, Listed, Pinned, machine
  <2> QED BY <1>1, <2>1, <2>3, GoesOnInv
<1>7. CASE Stores(l)
  <2>1. PICK left \in SUBSET listing[l].references :
          /\ InStore(user[l], g, listing[l].references, left)
          /\ listing' = [listing EXCEPT ![l].stored = left]
    BY <1>7 DEF Stores
  <2> DEFINE x == [at |-> "Gathering", generation |-> g, evaluation |-> listing[l].evaluation,
                   described |-> listing[l].described,
                   references |-> listing[l].references, stored |-> left,
                   answer |-> listing[l].answer]
  <2>2. /\ listing'[l] = x /\ x = Listed("Gathering", x) /\ DOMAIN listing' = Lister
        /\ \A k \in Lister : k # l => listing'[k] = listing[k]
    <3>1. [listing[l] EXCEPT !.stored = left] = x
      BY <1>2 DEF Listed
    <3>2. x = Listed("Gathering", x)
      BY DEF Listed
    <3> QED BY <3>1, <3>2, <2>1 DEF Shape
  <2>3. ASSUME NEW h, h = g, NEW references, references = listing[l].references
        PROVE  Found(user[l], h, references, left)'
    <3>1. references = store(h) /\ (Path(h) \in torn[user[l]] \/ Path(h) \notin collected[user[l]])
      BY <1>1, <1>7, <2>3 DEF AskedOf, Found, Stores
    <3>2. left \subseteq store(h) /\ (left = store(h) \/ Path(h) \in torn[user[l]])
      BY <2>1, <2>3, <3>1 DEF InStore
    <3> QED BY <1>1, <3>1, <3>2 DEF Found, machine
  <2>4. AskedOf(l)'
    BY <1>1, <1>2, <2>2, <2>3 DEF AskedOf, Listed, Pinned, machine
  <2> QED BY <1>1, <2>2, <2>4, GoesOnInv
<1> QED BY <1>4, <1>5, <1>6, <1>7

LEMMA AnswersInv == ASSUME Inv, NEW l \in Lister, Answers(l) PROVE Inv'
<1> USE DEF Inv
<1> DEFINE x == listing[l]
           g == x.generation
           packages == join(g.list, x.described, x.stored)
           a == [packages |-> packages, generation |-> g]
<1>1. /\ g \in Generation /\ g \in since[l]
      /\ evaluated_at(g) = None \/ x.described = g.pins
      /\ x.stored \in SUBSET store(g)
      /\ x.stored = store(g) \/ Path(g) \in torn[user[l]]
  BY DEF Answers, Gathers, Gathered, AskedOf, Found
<1>2. Holds(user[l], g, packages)
  BY <1>1, JoinHolds
<1>3. Ends(l, a) /\ slot' = [slot EXCEPT ![user[l]] = [generation |-> g, packages |-> packages]]
      /\ UNCHANGED <<machine, removal, since>>
  BY DEF Answers
<1>4. Kept' /\ DOMAIN slot' = User
  BY <1>1, <1>2, <1>3 DEF Kept, Shape, Holds, machine
<1>5. TrueAnswer(l, a)
  BY <1>1, <1>2 DEF TrueAnswer
<1> QED BY <1>3, <1>4, <1>5, EndsInv

LEMMA FailsInv == ASSUME Inv, NEW l \in Lister, Fails(l) \/ Stopped(l) PROVE Inv'
<1>1. Ends(l, None) /\ UNCHANGED <<machine, slot, removal, since>>
  BY DEF Fails, Stopped
<1>2. TrueAnswer(l, None)
  BY DEF TrueAnswer
<1>3. Kept' /\ DOMAIN slot' = User
  BY <1>1 DEF Inv, Kept, Shape, Holds, machine
<1> QED BY <1>1, <1>2, <1>3, EndsInv

LEMMA LeavesInv == ASSUME Inv, NEW l \in Lister, Leaves(l) PROVE Inv'
<1> USE DEF Inv
<1>1. /\ listing'[l] = Idle /\ DOMAIN listing' = Lister
      /\ \A k \in Lister : k # l => listing'[k] = listing[k]
  BY DEF Leaves, Shape
<1>2. DOMAIN since' = Lister /\ \A k \in Lister : k # l => since'[k] = since[k]
  BY DEF Leaves, Shape
<1>3. UNCHANGED <<profile, commits, collected, torn, running, slot, removal>>
  BY DEF Leaves, machine
<1>4. \A k \in Lister : listing'[k].at \in States /\ listing'[k] = Listed(listing'[k].at, listing'[k])
  <2>1. Idle.at \in States /\ Idle = Listed(Idle.at, Idle)
    BY DEF Idle, States, Listed
  <2> QED BY <1>1, <2>1 DEF Shape
<1>5. Shape'
  BY <1>1, <1>2, <1>3, <1>4 DEF Shape
<1>6. Shared' /\ Seen' /\ Kept'
  BY <1>1, <1>2, <1>3 DEF Shared, Seen, Kept, Holds, Working, At, Idle
<1>7. Gathered'
  BY <1>1, <1>2, <1>3, AskedOfKept DEF Gathered, Gathers, At, Idle
<1>8. Told'
  BY <1>1, <1>2, <1>3 DEF Told, At, Idle, TrueAnswer, Holds
<1> QED BY <1>5, <1>6, <1>7, <1>8

(* Between two steps of the listings: a removal, and the user.             *)
LEMMA RemovalInv ==
  ASSUME Inv, NEW r \in Remover, Pauses(r) \/ Paused(r) \/ Refused(r) \/ Removes(r)
  PROVE  Inv'
<1> USE DEF Inv
<1>1. /\ UNCHANGED <<commits, collected, torn, slot, listing>> /\ DOMAIN removal' = Remover
      /\ \A q \in Remover : q # r => removal'[q] = removal[q]
  BY DEF Pauses, Paused, Refused, Removes, machine, Shape
<1>2. /\ running' = [readers |-> running'.readers, writer |-> running'.writer,
                     queue |-> running'.queue]
      /\ running'.readers = running.readers
  BY DEF Pauses, Paused, Refused, Removes, Queued, TakesAlone, Shape
<1>3. Shared'
  <2>1. CASE Pauses(r) \/ Refused(r)
    <3>1. running'.writer = running.writer /\ removal'[r] # "Removing"
      BY <2>1 DEF Pauses, Refused, Queued, Shape
    <3> QED BY <1>1, <1>2, <3>1 DEF Shared, Working, At
  <2>2. CASE Paused(r)
    <3>1. running'.writer = r /\ running.writer = None /\ running.readers = {}
      BY <2>2 DEF Paused, TakesAlone, Shape
    <3>2. \A q \in Remover : removal[q] # "Removing"
      BY <3>1 DEF Shared
    <3> QED BY <1>1, <1>2, <3>1, <3>2 DEF Shared, Working, At
  <2>3. CASE Removes(r)
    <3>1. running'.writer = None /\ running.writer = r /\ removal'[r] # "Removing"
      BY <2>3 DEF Removes, Shared, Shape
    <3> QED BY <1>1, <1>2, <3>1 DEF Shared, Working, At
  <2> QED BY <2>1, <2>2, <2>3
<1>4. CASE Pauses(r) \/ Paused(r) \/ Refused(r)
  <2>1. UNCHANGED <<profile, since>>
    BY <1>4 DEF Pauses, Paused, Refused, machine
  <2>2. Shape'
    BY <1>1, <1>2, <2>1 DEF Shape
  <2>3. Seen' /\ Kept' /\ Told'
    BY <1>1, <2>1 DEF Seen, Kept, Told, TrueAnswer, Holds, Working, At
  <2>4. Gathered'
    BY <1>1, <2>1, AskedOfKept DEF Gathered, Gathers, At
  <2> QED BY <1>3, <2>2, <2>3, <2>4
<1>5. CASE Removes(r)
  <2>1. /\ DOMAIN since' = Lister
        /\ \A l \in Lister :
             /\ since[l] \subseteq since'[l]
             /\ Working(l) => profile'[user[l]] \in since'[l]
    BY <1>5 DEF Removes
  <2>2. profile' \in [User -> Generation \cup {None}]
    BY <1>5 DEF Removes, Shape
  <2>3. Shape'
    BY <1>1, <1>2, <2>1, <2>2 DEF Shape
  <2>4. Seen' /\ Kept' /\ Told'
    BY <1>1, <2>1 DEF Seen, Kept, Told, TrueAnswer, Holds, Working, At
  <2>5. Gathered'
    BY <1>1, <2>1 DEF Gathered, Gathers, At, AskedOf, Found, Pinned
  <2> QED BY <1>3, <2>3, <2>4, <2>5
<1> QED BY <1>4, <1>5

LEMMA UserInv ==
  ASSUME Inv, NEW u \in User, Switches(u) \/ Collects(u) \/ Commits(u)
  PROVE  Inv'
<1> USE DEF Inv
<1>1. UNCHANGED <<running, slot, listing, removal>>
  BY DEF Switches, Collects, Commits, Acts
<1>0. /\ DOMAIN torn' = User /\ DOMAIN collected' = User
      /\ \A v \in User : torn[v] \subseteq torn'[v]
      /\ \A v \in User : \A path :
           \/ path \in collected'[v] => path \in collected[v]
           \/ ~Between(v, path) \/ path \in torn'[v]
  <2>1. CASE Switches(u)
    <3>1. PICK path : collected' = [collected EXCEPT ![u] = @ \ {path}]
      BY <2>1 DEF Switches
    <3>2. UNCHANGED torn
      BY <2>1 DEF Switches
    <3> QED BY <3>1, <3>2 DEF Shape
  <2>2. CASE Collects(u)
    <3>1. PICK path : /\ collected' = [collected EXCEPT ![u] = @ \cup {path}]
                      /\ torn' = IF Between(u, path) THEN [torn EXCEPT ![u] = @ \cup {path}]
                                 ELSE torn
      BY <2>2 DEF Collects
    <3>2. \A v \in User : torn[v] \subseteq torn'[v]
      BY <3>1 DEF Shape
    <3>3. ASSUME NEW v \in User, NEW q, q \in collected'[v], q \notin collected[v], Between(v, q)
          PROVE  q \in torn'[v]
      <4>1. v = u /\ q = path
        BY <3>1, <3>3 DEF Shape
      <4> QED BY <3>1, <3>3, <4>1 DEF Shape
    <3>4. DOMAIN torn' = User /\ DOMAIN collected' = User
      BY <3>1 DEF Shape
    <3> QED BY <3>2, <3>3, <3>4
  <2>3. CASE Commits(u)
    BY <2>3 DEF Commits, Shape
  <2> QED BY <2>1, <2>2, <2>3
<1>13. ASSUME NEW v \in User, NEW g, NEW packages, Holds(v, g, packages)
       PROVE  Holds(v, g, packages)'
  BY <1>0, <1>13 DEF Holds
<1>2. Shared' /\ Kept'
  BY <1>1, <1>13 DEF Shared, Kept, Working, At
<1>3. \/ UNCHANGED <<profile, since>>
      \/ \E g \in Generation :
           /\ profile' = [profile EXCEPT ![u] = g]
           /\ since' = [k \in Lister |-> IF user[k] # u \/ ~Working(k) THEN since[k]
                                         ELSE since[k] \cup {g}]
  <2>1. CASE Switches(u)
    <3>1. profile[u] \in Generation
      BY <2>1 DEF Switches, Shape
    <3>2. PICK b \in Built :
            LET g == generation(profile[u].number + 1, b)
            IN /\ profile' = [profile EXCEPT ![u] = g]
               /\ since' = [k \in Lister |-> IF user[k] # u \/ ~Working(k) THEN since[k]
                                             ELSE since[k] \cup {g}]
      BY <2>1 DEF Switches
    <3>3. generation(profile[u].number + 1, b) \in Generation
      <4>1. profile[u].number + 1 \in Nat
        BY <3>1 DEF Generation
      <4> QED BY <4>1, BuiltGeneration
    <3> QED BY <3>2, <3>3
  <2> QED BY <2>1 DEF Collects, Commits
<1>4. /\ DOMAIN since' = Lister
      /\ \A l \in Lister :
           /\ since[l] \subseteq since'[l]
           /\ Working(l) => profile'[user[l]] \in since'[l]
  <2>1. CASE UNCHANGED <<profile, since>>
    BY <2>1 DEF Shape, Seen
  <2>2. ASSUME NEW g, profile' = [profile EXCEPT ![u] = g],
               since' = [k \in Lister |-> IF user[k] # u \/ ~Working(k) THEN since[k]
                                          ELSE since[k] \cup {g}]
        PROVE  /\ DOMAIN since' = Lister
               /\ \A l \in Lister :
                    /\ since[l] \subseteq since'[l]
                    /\ Working(l) => profile'[user[l]] \in since'[l]
    BY <2>2 DEF Shape, Seen
  <2> QED BY <1>3, <2>1, <2>2
<1>5. profile' \in [User -> Generation \cup {None}]
  BY <1>3 DEF Shape
<1>6. /\ commits' \in [User -> Seq(Pins) \ {<<>>}]
      /\ \A v \in User : \A n \in 1..Len(commits[v]) :
           n \in 1..Len(commits'[v]) /\ commits'[v][n] = commits[v][n]
  <2>1. CASE Switches(u) \/ Collects(u)
    BY <2>1 DEF Switches, Collects, Shape
  <2>2. CASE Commits(u)
    <3>1. PICK p \in Pins : commits' = [commits EXCEPT ![u] = Append(@, p)]
      BY <2>2 DEF Commits
    <3>2. /\ commits[u] \in Seq(Pins)
          /\ Append(commits[u], p) \in Seq(Pins) /\ Append(commits[u], p) # <<>>
          /\ Len(Append(commits[u], p)) = Len(commits[u]) + 1
          /\ \A n \in 1..Len(commits[u]) : Append(commits[u], p)[n] = commits[u][n]
      BY DEF Shape
    <3>3. \A v \in User : commits'[v] = IF v = u THEN Append(commits[u], p) ELSE commits[v]
      BY <3>1 DEF Shape
    <3>4. DOMAIN commits' = User /\ commits' = [v \in User |-> commits'[v]]
      BY <3>1 DEF Shape
    <3>5. commits' \in [User -> Seq(Pins) \ {<<>>}]
      BY <3>2, <3>3, <3>4 DEF Shape
    <3>6. \A v \in User : Len(commits[v]) \in Nat
      BY DEF Shape
    <3> QED BY <3>2, <3>3, <3>5, <3>6
  <2> QED BY <2>1, <2>2
<1>7. Shape'
  BY <1>0, <1>1, <1>4, <1>5, <1>6 DEF Shape
<1>8. Seen'
  BY <1>1, <1>4 DEF Seen, Working
<1>9. ASSUME NEW l \in Lister, NEW a, TrueAnswer(l, a) PROVE TrueAnswer(l, a)'
  BY <1>4, <1>9, <1>13 DEF TrueAnswer
<1>10. Told'
  BY <1>1, <1>9 DEF Told, At
<1>11. ASSUME NEW l \in Lister, Gathers(l), AskedOf(l) PROVE AskedOf(l)'
  <2> DEFINE x == listing[l]
  <2>1. listing'[l] = x
    BY <1>1
  <2>2. ASSUME NEW e, NEW w, Pinned(e, user[l], w) PROVE Pinned(e, user[l], w)'
    <3>1. user[l] \in User
      OBVIOUS
    <3> QED BY <1>6, <2>2, <3>1 DEF Pinned
  <2>3. x.generation \in Generation /\ x.generation \in since'[l]
    BY <1>4, <1>11 DEF AskedOf
  <2>4. \/ evaluated_at(x.generation) = None
        \/ /\ x.evaluation = None \/ Pinned(x.evaluation, user[l], x.generation.pins)'
           /\ x.described \in {None, x.generation.pins}
    BY <1>11, <2>1, <2>2 DEF AskedOf
  <2>5. ASSUME NEW g, NEW references, NEW stored, x.generation = g, x.references = references,
               x.stored = stored
        PROVE  Found(user[l], g, references, stored)'
    <3>1. Found(user[l], g, references, stored)
      BY <1>11, <2>5 DEF AskedOf
    <3>2. references # None /\ stored = None => Between(user[l], Path(g))
      BY <1>11, <2>5 DEF Between
    <3> QED BY <1>0, <3>1, <3>2 DEF Found
  <2> QED BY <2>1, <2>3, <2>4, <2>5 DEF AskedOf
<1>12. Gathered'
  BY <1>1, <1>11 DEF Gathered, Gathers, At
<1> QED BY <1>2, <1>7, <1>8, <1>10, <1>12

-----------------------------------------------------------------------------
(* The theorems.                                                           *)

LEMMA NextInv == ASSUME Inv, [Next]_vars PROVE Inv'
<1>1. CASE UNCHANGED vars
  BY <1>1 DEF vars, machine, Inv, Shape, Shared, Seen, Kept, Gathered, Told, Working, At,
              Gathers, AskedOf, Found, Holds, Pinned, TrueAnswer
<1>2. ASSUME NEW l \in Lister, Asks(l) \/ Warms(l) \/ Goes(l) \/ Stopped(l) PROVE Inv'
  BY <1>2, AskedInv, EntersInv, ReadsInv, GathersInv, AnswersInv, FailsInv, LeavesInv
     DEF Asks, Warms, Goes
<1>3. ASSUME NEW r \in Remover, Pauses(r) \/ RemovalGoes(r) \/ Refused(r) PROVE Inv'
  BY <1>3, RemovalInv DEF RemovalGoes
<1> QED BY <1>1, <1>2, <1>3, UserInv DEF Next

(* The invariant of the cache and the lock the listings share.             *)
THEOREM ListingsInvariant == Spec => []Inv
<1> QED BY InitInv, NextInv, PTL DEF Spec

(* No listing of this process runs while a removal takes a user away.      *)
THEOREM Pause == Spec => []NothingListsWhileRemoving
<1>1. Inv => NothingListsWhileRemoving
  BY DEF Inv, Shared, NothingListsWhileRemoving
<1> QED BY <1>1, ListingsInvariant, PTL

(* Every listing tells of a generation it saw, with its packages and pins, *)
(* cached or gathered, whatever the user does meanwhile.                   *)
THEOREM TrueListings == Spec => []ListingIsTrue
<1>1. Inv => ListingIsTrue
  BY DEF Inv, Told, TrueAnswer, Holds, ListingIsTrue, Answered
<1> QED BY <1>1, ListingsInvariant, PTL
=============================================================================
