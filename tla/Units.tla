-------------------------------- MODULE Units --------------------------------
(***************************************************************************)
(* mix asks systemd for what it needs of a unit: reading its state first,  *)
(* announcing the undo, queueing a job and waiting for the signal that     *)
(* tells how that job ended.  Meanwhile connections start the service its  *)
(* socket triggers, others stop units, the bus goes away, the request is   *)
(* stopped, and the unit mix itself runs in may be the one to end.         *)
(*                                                                         *)
(* Source: crates/shell/src/effect/units.rs.  systemd is external: a table *)
(* of one job a unit, as the mode "replace" leaves it, with the order and  *)
(* the requirement of MIX_DAEMON_SERVICE (declared/targets.rs).            *)
(***************************************************************************)
EXTENDS Integers, Sequences, FiniteSets, Functions

CONSTANT MaxTroubles    \* bound on what others do and on failures

VARIABLES
    active,     \* ActiveState of each unit
    enabled,    \* UnitFileState: the units that are enabled
    job,        \* the job systemd has for each unit
    ended,      \* how each job ended
    stream,     \* the JobRemoved signals mix has not read, or Closed
    own,        \* the unit mix runs in: one of the two, or another one
    ending,     \* that other unit is being stopped
    bound,      \* the service requires its socket and is ordered after it
    mix,        \* how far mix is
    before,     \* the units that were active when mix began
    troubles

unitState == <<active, enabled, job, ended, stream, own, ending, bound, mix, before, troubles>>
systemd == <<active, job, ended, stream>>
setting == <<own, bound, before>>

Socket == "socket"
Service == "service"
UnitNames == {Socket, Service}
Triggers(unit) == IF unit = Socket THEN {Service} ELSE {}

NoJob == [id |-> 0, kind |-> "none"]
Closed == <<0>>             \* no job has this number
Stopped == {"inactive", "failed"}

(***************************************************************************)
(* systemd.                                                                *)
(***************************************************************************)
Has(u, kinds) == job[u].kind \in kinds

\* The jobs that end: whoever listens is told.
Removed(ids, result) ==
    /\ ended' = [id \in DOMAIN ended \cup ids |-> IF id \in ids THEN result ELSE ended[id]]
    /\ stream' = IF stream = Closed THEN Closed
                 ELSE stream \o [i \in 1..Cardinality(ids) |-> CHOOSE id \in ids :
                                   Cardinality({x \in ids : x < id}) = i - 1]

\* A job and those it pulls in: a start and a restart are joined, others replaced;
\* a restart of what is down is nothing.
Pulled(kind, unit) ==
    IF ~bound THEN {unit}
    ELSE IF kind = "stop" /\ unit = Socket THEN UnitNames
    ELSE IF kind = "start" /\ unit = Service THEN UnitNames ELSE {unit}
Joins(kind, u) == job[u].kind = kind \/ {kind, job[u].kind} = {"start", "restart"}
NextId == 1 + Cardinality(DOMAIN ended) + Cardinality({u \in UnitNames : job[u] # NoJob})
IsNothing(kind, unit) == kind = "restart" /\ active[unit] \in Stopped \cup {"deactivating"}
Queue(kind, unit) ==
    LET fresh == {u \in Pulled(kind, unit) : ~Joins(kind, u)}
        Id(u) == IF u = unit \/ unit \notin fresh THEN NextId ELSE NextId + 1
        Into(u) == IF u \in fresh THEN [id |-> Id(u), kind |-> kind]
                   ELSE [job[u] EXCEPT !.kind = IF "restart" \in {kind, @} THEN "restart" ELSE @]
    IN  IF IsNothing(kind, unit) THEN Removed({NextId}, "done") /\ UNCHANGED job
        ELSE /\ job' = [u \in UnitNames |-> IF u \in Pulled(kind, unit) THEN Into(u) ELSE job[u]]
             /\ Removed({job[u].id : u \in fresh} \ {0}, "canceled")
JobOf(kind, unit) == IF IsNothing(kind, unit) THEN NextId ELSE job'[unit].id

Becomes(u, state) == active' = [active EXCEPT ![u] = state]
Ends(u, result) == job' = [job EXCEPT ![u] = NoJob] /\ Removed({job[u].id}, result)

\* A unit that mix runs in is down only once mix has gone.
MayEnd(u) == own = u => mix.pc = "gone"
\* A socket is stopped after the service that is ordered after it.
InOrder(u) == bound /\ u = Socket => ~Has(Service, {"stop", "restart"})

Stops(u) ==
    /\ Has(u, {"stop", "restart"}) /\ active[u] \in {"active", "activating"} /\ InOrder(u)
    /\ Becomes(u, "deactivating")
    /\ UNCHANGED <<job, ended, stream>>

IsDown(u) ==
    /\ active[u] \in Stopped \cup {"deactivating"} /\ MayEnd(u) /\ InOrder(u)
    /\ CASE Has(u, {"stop"}) -> Ends(u, "done") /\ Becomes(u, "inactive")
         [] Has(u, {"restart"}) ->
              /\ job' = [job EXCEPT ![u].kind = "start"] /\ Becomes(u, "inactive")
              /\ UNCHANGED <<ended, stream>>
         [] Has(u, {"start", "none"}) ->
              /\ active[u] = "deactivating" /\ Becomes(u, "inactive")
              /\ UNCHANGED <<job, ended, stream>>

Starts(u) ==
    /\ Has(u, {"start"}) /\ (bound /\ u = Service => ~Has(Socket, {"start"}))
    /\ CASE active[u] \in Stopped -> Becomes(u, "activating") /\ UNCHANGED <<job, ended, stream>>
         [] active[u] \in {"activating", "active"} -> Becomes(u, "active") /\ Ends(u, "done")
         [] active[u] = "deactivating" -> FALSE

\* A service that drained comes up again by itself.
ComesBack == Has(Service, {"none"}) /\ active[Service] = "activating" /\ Becomes(Service, "active")
             /\ UNCHANGED <<job, ended, stream>>

Systemd ==
    /\ (\E u \in UnitNames : Stops(u) \/ IsDown(u) \/ Starts(u)) \/ ComesBack
    /\ UNCHANGED <<enabled, setting, ending, mix, troubles>>

(***************************************************************************)
(* Everybody else.                                                         *)
(***************************************************************************)
\* A connection to the socket: nothing is started while it is to be stopped.
Connects ==
    /\ active[Socket] = "active" /\ ~Has(Socket, {"stop"})
    /\ active[Service] \in Stopped /\ Has(Service, {"none"})
    /\ Queue("start", Service)
    /\ UNCHANGED <<active, before>>

\* A unit stops by itself or is stopped; what was active before is not any more.
StopsAnyway(u) ==
    /\ before' = before \ ({u} \cup Pulled("stop", u))
    /\ \/ u = Service /\ own # Service /\ active[u] = "active" /\ Has(u, {"none"})
          /\ Becomes(u, "failed") /\ UNCHANGED <<job, ended, stream>>
       \/ active[u] = "active" /\ Queue("stop", u) /\ UNCHANGED active

StartFails(u) ==
    /\ Has(u, {"start"}) /\ active[u] = "activating"
    /\ Becomes(u, "failed") /\ Ends(u, "failed")
    /\ before' = before \ {u}

Meddles ==
    /\ troubles < MaxTroubles /\ troubles' = troubles + 1
    /\ \/ Connects /\ UNCHANGED ending
       \/ \E u \in UnitNames : (StopsAnyway(u) \/ StartFails(u)) /\ UNCHANGED ending
       \/ own = "other" /\ ~ending /\ ending' = TRUE /\ UNCHANGED <<systemd, before>>
    /\ UNCHANGED <<enabled, own, bound, mix>>

(***************************************************************************)
(* mix performs an action.                                                 *)
(***************************************************************************)
StartUnit(u) == [do |-> "StartUnit", unit |-> u]
StopUnit(u) == [do |-> "StopUnit", unit |-> u]
RestartUnit(u) == [do |-> "RestartUnit", unit |-> u]
DrainService == [do |-> "DrainService", unit |-> Service]
EnableUnit(u) == [do |-> "EnableUnit", unit |-> u]
DisableUnit(u) == [do |-> "DisableUnit", unit |-> u]
DaemonReload == [do |-> "DaemonReload", unit |-> Socket]
Asked == {StartUnit(Socket), StartUnit(Service), StopUnit(Socket), StopUnit(Service),
          RestartUnit(Service), DrainService, EnableUnit(Socket), DisableUnit(Socket),
          DaemonReload}

still_running(state) == state \notin Stopped

\* The job cannot end before this process does.
own_state == IF own \in UnitNames THEN active[own] ELSE IF ending THEN "deactivating" ELSE "active"
(* Mutant: what goes with a socket that stops is not thought of.           *)
ends_with_itself(unit) == own # "none" /\ (own_state = "deactivating" \/ own = unit)

ends_with(unit) ==
    own # "none" /\ (own_state = "deactivating" \/ own = unit \/ own \in Triggers(unit))

Kind == [StartUnit |-> "start", StopUnit |-> "stop", RestartUnit |-> "restart"]

\* Down, or about to be.
Down(u) == ~still_running(active[u]) \/ active[u] = "deactivating" \/ Has(u, {"stop"})
Over(undo) ==
    [mix EXCEPT !.pc = "answered", !.ok = TRUE, !.undo = undo, !.todo = {},
                !.left = {u \in UnitNames : ~Down(u)}]
Failed == [mix EXCEPT !.pc = "answered", !.ok = FALSE, !.todo = {}]
Announced(pc, undo) == [mix EXCEPT !.pc = pc, !.undo = undo]

Begin ==
    /\ mix.pc = "idle"
    /\ \E a \in Asked : mix' = [mix EXCEPT !.pc = "observe", !.act = a, !.target = a.unit]
    /\ before' = {u \in UnitNames : active[u] = "active" /\ ~Has(u, {"stop"})}
    /\ UNCHANGED <<systemd, enabled, own, ending, bound, troubles>>

\* The first look, which a reload does without: nothing to do, or the undo is announced.
Observe ==
    /\ mix.pc = "observe"
    /\ LET u == mix.act.unit
           state == active[u]
           up == state \in {"active", "activating"}
       IN  mix' = CASE mix.act.do = "StartUnit" ->
                         IF state = "active"
                         THEN [Over(<<>>) EXCEPT !.misled = @ \/ Has(u, {"stop"})]
                         ELSE Announced("own", <<StopUnit(u)>>)
                    [] mix.act.do = "StopUnit" ->
                         IF up THEN [mix EXCEPT !.pc = "triggers"] ELSE Over(<<>>)
                    [] mix.act.do = "RestartUnit" ->
                         IF up THEN Announced("own", <<mix.act>>) ELSE Over(<<>>)
                    [] mix.act.do = "DrainService" ->
                         IF state = "active" THEN Announced("kill", <<>>) ELSE Over(<<>>)
                    [] mix.act.do = "EnableUnit" ->
                         IF u \in enabled THEN Over(<<>>) ELSE Announced("files", <<DisableUnit(u)>>)
                    [] mix.act.do = "DisableUnit" ->
                         IF u \in enabled THEN Announced("files", <<EnableUnit(u)>>) ELSE Over(<<>>)
                    [] mix.act.do = "DaemonReload" -> Announced("reload", <<mix.act>>)
    /\ UNCHANGED <<systemd, enabled, ending, setting, troubles>>

\* What the socket triggers is looked at before it is stopped, to be started again.
LookAtTriggered ==
    /\ mix.pc = "triggers"
    /\ LET running == {d \in Triggers(mix.act.unit) : active[d] = "active"}
       IN  mix' = [Announced("own", <<StartUnit(mix.act.unit)>>
                                      \o (IF running = {} THEN <<>> ELSE <<StartUnit(Service)>>))
                     EXCEPT !.todo = Triggers(mix.act.unit)]
    /\ UNCHANGED <<systemd, enabled, ending, setting, troubles>>

\* The jobs: whether to wait is settled, then mix listens, then it asks.
LookAtItself ==
    /\ mix.pc = "own"
    /\ mix' = [mix EXCEPT !.pc = "subscribe", !.ends = ends_with(mix.target)]
    /\ UNCHANGED <<systemd, enabled, ending, setting, troubles>>
Subscribe ==
    /\ mix.pc = "subscribe"
    /\ stream' = <<>>
    /\ mix' = [mix EXCEPT !.pc = "call"]
    /\ UNCHANGED <<active, job, ended, enabled, ending, setting, troubles>>
Call ==
    /\ mix.pc = "call"
    /\ Queue(Kind[mix.act.do], mix.target)
    /\ mix' = [mix EXCEPT !.pc = IF mix.ends THEN "after" ELSE "wait", 
                         !.id = JobOf(Kind[mix.act.do], mix.target)]
    /\ UNCHANGED <<active, enabled, ending, setting, troubles>>

\* The signals are read until the one of the job.
Hear ==
    /\ mix.pc = "wait" /\ stream # <<>>
    /\ LET id == Head(stream)
       IN  /\ mix' = IF id # mix.id THEN mix
                     ELSE IF ended[id] = "done" THEN [mix EXCEPT !.pc = "after"] ELSE Failed
           /\ stream' = IF id # mix.id THEN Tail(stream) ELSE Closed
    /\ UNCHANGED <<active, job, ended, enabled, ending, setting, troubles>>

\* What was triggered meanwhile is stopped as well.
After ==
    /\ mix.pc = "after"
    /\ LET up == {d \in mix.todo : still_running(active[d])}
       IN  mix' = IF up = {} THEN Over(mix.undo)
                  ELSE [mix EXCEPT !.pc = "own", !.todo = @ \ up, !.target = Service]
    /\ UNCHANGED <<systemd, enabled, ending, setting, troubles>>

Kill ==
    /\ mix.pc = "kill"
    /\ active' = [active EXCEPT ![Service] =
                    IF @ = "active" /\ Has(Service, {"none"}) THEN "activating" ELSE @]
    /\ mix' = Over(<<>>)
    /\ UNCHANGED <<job, ended, stream, enabled, ending, setting, troubles>>

\* EnableUnitFiles or DisableUnitFiles, and the reload that follows.
ChangeLinks ==
    /\ mix.pc = "files"
    /\ enabled' = IF mix.act.do = "EnableUnit" THEN enabled \cup {mix.act.unit}
                  ELSE enabled \ {mix.act.unit}
    /\ mix' = [mix EXCEPT !.pc = "reload"]
    /\ UNCHANGED <<systemd, ending, setting, troubles>>
ReloadAfter ==
    /\ mix.pc = "reload"
    /\ mix' = Over(mix.undo)
    /\ UNCHANGED <<systemd, enabled, ending, setting, troubles>>

\* The bus is gone, or the request is stopped while it waits for a job.
BusFails ==
    /\ mix.pc \in {"observe", "triggers", "subscribe", "call", "wait", "kill", "files", "reload"}
    /\ troubles < MaxTroubles /\ troubles' = troubles + 1
    /\ mix' = [Failed EXCEPT !.faults = @ + 1] /\ stream' = Closed
    /\ UNCHANGED <<active, job, ended, enabled, ending, setting>>
Cancelled ==
    /\ mix.pc = "wait" /\ mix.phase = "do"
    /\ mix' = Failed /\ stream' = Closed
    /\ UNCHANGED <<active, job, ended, enabled, ending, setting, troubles>>

(***************************************************************************)
(* The action is kept, or what it owes is undone.                          *)
(***************************************************************************)
Undo(owed) ==
    IF owed = <<>> THEN [mix EXCEPT !.pc = "over"]
    ELSE [mix EXCEPT !.phase = "undo", !.pc = "observe", !.act = Head(owed),
                     !.target = Head(owed).unit, !.owed = Tail(owed)]

Go ==
    /\ mix.pc = "answered"
    /\ mix' \in IF mix.phase = "undo" THEN {Undo(mix.owed)}
                ELSE {Undo(mix.undo)} \cup (IF mix.ok THEN {[mix EXCEPT !.pc = "over"]} ELSE {})
    /\ UNCHANGED <<systemd, enabled, ending, setting, troubles>>
Leave ==
    /\ mix.pc = "over"
    /\ mix' = [mix EXCEPT !.pc = "gone"]
    /\ UNCHANGED <<systemd, enabled, ending, setting, troubles>>

UnitsInit ==
    /\ bound \in BOOLEAN
    /\ own \in IF bound THEN {"none", "other", Service} ELSE {"none", "other"}
    /\ active \in [UnitNames -> {"inactive", "active"}]
    /\ own = Service => active[Service] = "active"
    /\ bound /\ active[Service] = "active" => active[Socket] = "active"
    /\ enabled \in {{}, {Socket}}
    /\ job = [u \in UnitNames |-> NoJob] /\ ended = <<>> /\ stream = Closed
    /\ ending = FALSE /\ before = {} /\ troubles = 0
    /\ mix = [pc |-> "idle", phase |-> "do", act |-> StartUnit(Socket), target |-> Socket, todo |-> {},
              undo |-> <<>>, owed |-> <<>>, ends |-> FALSE, id |-> 0, ok |-> TRUE, misled |-> FALSE,
              faults |-> 0, left |-> {}, links |-> enabled]

Mix ==
    \/ Begin \/ Observe \/ LookAtTriggered \/ LookAtItself \/ Subscribe \/ Call \/ Hear \/ After
    \/ Kill \/ ChangeLinks \/ ReloadAfter \/ BusFails \/ Cancelled \/ Go \/ Leave
UnitsNext == Mix \/ Systemd \/ Meddles
UnitsSpec == UnitsInit /\ [][UnitsNext]_unitState

-----------------------------------------------------------------------------
(* mix never waits for a job that has ended unheard, nor for one that can  *)
(* only end after mix itself has (job, ends_with).                         *)
EndsWithMix(u) ==
    /\ own = Service
    /\ Has(u, {"stop", "restart"}) \/ (u = Socket /\ bound /\ Has(Service, {"stop", "restart"}))
NeverWaitsInVain ==
    mix.pc = "wait" =>
      \/ mix.id \in {stream[i] : i \in DOMAIN stream}
      \/ \E u \in UnitNames : job[u].id = mix.id /\ ~EndsWithMix(u)

(* A socket that was stopped is down, and nothing it triggers is running   *)
(* or will be started by a connection that came before (stop); where the   *)
(* stop ends mix itself it has at least been asked for.                    *)
StopIsComplete ==
    (mix.pc = "answered" /\ mix.ok /\ mix.act = StopUnit(Socket))
      => /\ Socket \notin mix.left
         /\ mix.undo # <<>> => Service \notin mix.left

(* Once an action is undone, every unit that was active before it and that *)
(* nobody else stopped is active or is being started; the links are as     *)
(* they were.  Left out are an undo that was misled: the start of a unit   *)
(* whose stop was still queued does nothing (start), and the stop comes;   *)
(* and a service that ran without its socket, which goes with the socket   *)
(* when the start of that is undone (stop).                                *)
WentAlong == IF mix.act.do = "StopUnit" THEN Triggers(mix.act.unit) ELSE {}
UndoneIsBack ==
    (mix.pc = "over" /\ mix.phase = "undo" /\ mix.faults = 0 /\ ~mix.misled /\ mix.ok)
      => /\ \A u \in before \ WentAlong :
              active[u] \in {"active", "activating"} \/ Has(u, {"start", "restart"})
         /\ enabled = mix.links
=============================================================================
