-------------------------------- MODULE Host --------------------------------
(***************************************************************************)
(* How a command reaches the process that runs it, and how both of them    *)
(* end: the client (crates/cli), the connection (crates/rpc), the daemon's *)
(* accept loop and the worker it hosts (crates/daemon), the scope and the  *)
(* processes of a request (crates/exec), and its frame                     *)
(* (crates/shell/src/request/mod.rs).                                      *)
(*                                                                         *)
(* A client of the socket is queued by systemd's listening socket, which   *)
(* outlives the daemon.  A one-shot client starts a worker of its own and  *)
(* talks to it over a pair of sockets.  What a request does is left to     *)
(* Runner and Requests; here it is a number of steps, each of one process: *)
(* "guarded" (stopped when the scope is), "shielded" (run on a shielded    *)
(* scope) or "agent" (a home-files session, which no scope stops).         *)
(***************************************************************************)
EXTENDS Naturals, Sequences, FiniteSets

CONSTANTS
    Client,      \* the clients, each with one command
    OneShot,     \* those of bootstrap and purge, which start their own worker
    Member,      \* root and the users of mix-users
    Uid,         \* client -> its user
    Nobody,      \* not a client
    Steps,       \* how many steps a request has
    MaxCommands, \* bound on the commands that are run
    MaxOpen,     \* how many connections the daemon has descriptors for
    MaxTroubles  \* bound on signals, crashes, failed calls and unwritten output

ASSUME HostAssumption ==
    /\ OneShot \subseteq Client /\ Member \subseteq Client
    /\ Nobody \notin Client /\ "recovery" \notin Client
    /\ {Steps, MaxCommands, MaxOpen, MaxTroubles} \subseteq Nat

VARIABLES
    daemon,   \* the daemon's process and what its accept loop knows
    lock,     \* who holds the machine's lock
    client,   \* client -> its process
    conn,     \* client -> its connection as the server has it
    calls,    \* client -> the controls on their way to the worker
    replies,  \* client -> the replies on their way to the client
    request,  \* client -> the request the worker runs for it
    budget    \* how much trouble there may still be

vars == <<daemon, lock, client, conn, calls, replies, request, budget>>

Endings == {"succeeded", "interrupted", "terminated", "client-gone"}

Idle == [work |-> "none", left |-> Steps, did |-> FALSE, cut |-> FALSE,
         kind |-> "guarded", child |-> "none", asked |-> FALSE,
         reason |-> "none", watch |-> "off", hears |-> FALSE, ending |-> "none"]

Booting == [at |-> "recovering", recovery |-> "waiting", stopping |-> FALSE,
            signals |-> {}, full |-> FALSE, ended |-> "none"]

Down(ended) == [Booting EXCEPT !.at = "down", !.ended = ended]

Absent == [at |-> "away", cancelled |-> FALSE, pausing |-> FALSE,
           signals |-> {}, exit |-> "none"]

Init ==
    /\ daemon = Booting
    /\ lock = Nobody
    /\ client = [c \in Client |-> Absent]
    /\ conn = [c \in Client |-> "none"]
    /\ calls = [c \in Client |-> <<>>]
    /\ replies = [c \in Client |-> <<>>]
    /\ request = [c \in Client |-> Idle]
    /\ budget = MaxTroubles

-----------------------------------------------------------------------------
(* The client's end of the connection is closed.                           *)
Closed(c) == client[c].at \in {"leaving", "gone"}

(* Signals, crashes and failed calls are bounded together.                 *)
Disturbs == budget > 0 /\ budget' = budget - 1

(* Events is an unbounded channel: nobody reads what is sent to a          *)
(* connection that is closed.                                              *)
Send(c, reply) == replies' = IF Closed(c) THEN replies
                             ELSE [replies EXCEPT ![c] = Append(@, reply)]

(* The client hangs up: its process is gone, or waits for the worker.      *)
HangsUp(c, at, exit) ==
    /\ client' = [client EXCEPT ![c] =
           [Absent EXCEPT !.at = at, !.exit = IF client[c].exit = "none" THEN exit
                                               ELSE client[c].exit]]
    /\ replies' = [replies EXCEPT ![c] = <<>>]

Quits(c, exit) == HangsUp(c, "gone", exit)

(* The end of replay: the client hangs up, then waits for the worker it    *)
(* started, if it did.                                                     *)
Leaves(c, exit) == HangsUp(c, IF c \in OneShot THEN "leaving" ELSE "gone", exit)

-----------------------------------------------------------------------------
(* The client.                                                             *)

Starts(c) ==
    /\ client[c].at = "away"
    /\ Cardinality({d \in Client : client[d].at # "away"}) < MaxCommands
    /\ client' = [client EXCEPT ![c].at = "greeting"]
    /\ conn' = [conn EXCEPT ![c] = IF c \in OneShot THEN "open" ELSE "backlog"]
    /\ UNCHANGED <<daemon, lock, calls, replies, request, budget>>

(* No daemon answers at the socket.                                        *)
Unreachable(c) ==
    /\ client[c].at = "away" /\ c \notin OneShot /\ Disturbs
    /\ Quits(c, "unavailable")
    /\ UNCHANGED <<daemon, lock, conn, calls, request>>

(* The daemon serves root and the members, a worker of its own whoever     *)
(* sudo let through.                                                       *)
admits(c) == c \in Member \cup OneShot

(* The answer to hello.  Whoever is refused hangs up.                      *)
Greets(c) ==
    /\ client[c].at = "greeting" /\ conn[c] = "open"
    /\ IF admits(c)
       THEN client' = [client EXCEPT ![c].at = "asking"] /\ UNCHANGED replies
       ELSE Quits(c, "denied")
    /\ UNCHANGED <<daemon, lock, conn, calls, request, budget>>

(* The daemon closed the connection, or went down with it.                 *)
Unanswered(c) ==
    /\ client[c].at \in {"greeting", "asking"} /\ conn[c] \in {"dropped", "none"}
    /\ Quits(c, IF client[c].at = "greeting" THEN "unavailable" ELSE "refused")
    /\ conn' = [conn EXCEPT ![c] = "none"]
    /\ UNCHANGED <<daemon, lock, calls, request, budget>>

(* The command is sent and the worker runs it: steer() listens from here.  *)
Asks(c) ==
    /\ client[c].at = "asking" /\ conn[c] = "open"
    /\ client' = [client EXCEPT ![c].at = "replaying"]
    /\ request' = [request EXCEPT ![c].work = "waiting", ![c].watch = "on"]
    /\ UNCHANGED <<daemon, lock, conn, calls, replies, budget>>

(* SIGKILL, SIGHUP, or a signal before the handlers are there.             *)
Killed(c) ==
    /\ client[c].at \notin {"away", "gone"}
    /\ Disturbs
    /\ Quits(c, "killed")
    /\ UNCHANGED <<daemon, lock, conn, calls, request>>

translate(c, signal) ==
    CASE signal = "TSTP" -> "Pause"
      [] signal = "CONT" -> "Resume"
      [] signal \in {"INT", "TERM"} /\ client[c].cancelled -> "Detach"
      [] signal = "INT" -> "Interrupt"
      [] signal = "TERM" -> "Terminate"

(* pausing |= steer(..): only the answer to a pause clears it.             *)
PausingAfterForgets(c, control) == control = "Pause"
PausingAfter(c, control) == client[c].pausing \/ control = "Pause"

Handle(c, signal) ==
    LET control == translate(c, signal)
    IN /\ client[c].at = "replaying"
       /\ IF control = "Detach" THEN Quits(c, "detached") /\ UNCHANGED calls
          ELSE /\ client' = [client EXCEPT
                     ![c].signals = @ \ {signal},
                     ![c].cancelled = @ \/ signal \in {"INT", "TERM"},
                     ![c].pausing = PausingAfter(c, control)]
               /\ calls' = [calls EXCEPT ![c] = Append(@, control)]
               /\ UNCHANGED replies
       /\ UNCHANGED <<daemon, lock, conn, request>>

(* A signal reaches a client that replays.  That it may be handled later,  *)
(* or after another, is the same as its coming later.                      *)
Signalled(c, signal) == Handle(c, signal) /\ Disturbs

(* A signal reaches a stopped client, which notices it once continued.     *)
SignalledAsleep(c, signal) ==
    /\ client[c].at = "stopped"
    /\ Disturbs
    /\ client' = [client EXCEPT
           ![c].signals = @ \cup {signal},
           ![c].at = IF signal = "CONT" THEN "replaying" ELSE @]
    /\ UNCHANGED <<daemon, lock, conn, calls, replies, request>>

Notices(c, signal) == signal \in client[c].signals /\ Handle(c, signal) /\ UNCHANGED budget

(* One turn of replay().  The root's envelope carries the exit code; the   *)
(* client stops itself once its pause is applied.                          *)
Reads(c) ==
    /\ client[c].at = "replaying" /\ replies[c] # <<>>
    /\ LET reply == Head(replies[c])
       IN IF reply = "closed" THEN Leaves(c, "worker-ended")
          ELSE /\ client' = [client EXCEPT ![c] =
                     CASE reply = "Pause" /\ @.pausing ->
                            [@ EXCEPT !.at = "stopped", !.pausing = FALSE]
                       [] reply \in Endings -> [@ EXCEPT !.exit = reply]
                       [] OTHER -> @]
               /\ replies' = [replies EXCEPT ![c] = Tail(@)]
    /\ UNCHANGED <<daemon, lock, conn, calls, request, budget>>

(* Standard output cannot be written.                                      *)
Unwritten(c) ==
    /\ client[c].at = "replaying" /\ replies[c] # <<>>
    /\ Disturbs
    /\ Leaves(c, "unwritten")
    /\ UNCHANGED <<daemon, lock, conn, calls, request>>

WorkerLeft(c) ==
    /\ client[c].at = "leaving" /\ conn[c] = "none"
    /\ client' = [client EXCEPT ![c].at = "gone"]
    /\ UNCHANGED <<daemon, lock, conn, calls, replies, request, budget>>

-----------------------------------------------------------------------------
(* The scope of a request and its processes.                               *)

(* The first reason is kept (OnceLock).  That it is set, that the wakers   *)
(* are called and that the processes are told (exec/src/scope.rs) are one  *)
(* step here.                                                              *)
cancel(r, reason) == [r EXCEPT !.reason = IF @ = "none" THEN reason ELSE @]

pause(r) == [r EXCEPT !.child = IF @ = "running" THEN "stopped" ELSE @]
resume(r) == [r EXCEPT !.child = IF @ = "stopped" THEN "running" ELSE @]

steered(r, control) ==
    CASE control = "Interrupt" -> cancel(r, "interrupted")
      [] control = "Terminate" -> cancel(r, "terminated")
      [] control = "Pause" -> pause(r)
      [] control = "Resume" -> resume(r)

(* The branches of the select in steer().  Of what it acknowledges the     *)
(* client heeds the pause only.                                            *)
Steers(c) ==
    /\ request[c].watch = "on" /\ calls[c] # <<>>
    /\ request' = [request EXCEPT ![c] = steered(@, Head(calls[c]))]
    /\ calls' = [calls EXCEPT ![c] = Tail(@)]
    /\ IF Head(calls[c]) = "Pause" THEN Send(c, "Pause") ELSE UNCHANGED replies
    /\ UNCHANGED <<daemon, lock, client, conn, budget>>

SeesClientGone(c) ==
    /\ request[c].watch = "on" /\ Closed(c)
    /\ request' = [request EXCEPT ![c] =
           [cancel(@, "client-gone") EXCEPT !.watch = "off", !.hears = FALSE]]
    /\ calls' = [calls EXCEPT ![c] = <<>>]
    /\ UNCHANGED <<daemon, lock, client, conn, replies, budget>>

HearsTerminate(c) ==
    /\ request[c].watch = "on" /\ request[c].hears
    /\ request' = [request EXCEPT ![c] = [cancel(@, "terminated") EXCEPT !.hears = FALSE]]
    /\ UNCHANGED <<daemon, lock, client, conn, calls, replies, budget>>

-----------------------------------------------------------------------------
(* The request.                                                            *)

Acquires(c) ==
    /\ request[c].work = "waiting" /\ lock = Nobody
    /\ lock' = c
    /\ request' = [request EXCEPT ![c].work = "between"]
    /\ UNCHANGED <<daemon, client, conn, calls, replies, budget>>

(* The scope is stopped while the request waits for the lock.              *)
Blocked(c) ==
    /\ request[c].work = "waiting" /\ lock # Nobody /\ request[c].reason # "none"
    /\ request' = [request EXCEPT ![c].work = "concluded", ![c].ending = request[c].reason]
    /\ Send(c, request[c].reason)
    /\ UNCHANGED <<daemon, lock, client, conn, calls, budget>>

Spawns(c, kind) ==
    /\ request[c].work = "between" /\ request[c].left > 0 /\ request[c].reason = "none"
    /\ request' = [request EXCEPT ![c].work = "step", ![c].left = @ - 1, ![c].did = TRUE,
                                  ![c].kind = kind, ![c].child = "running"]
    /\ UNCHANGED <<daemon, lock, client, conn, calls, replies, budget>>

(* Group::stop: SIGTERM, then SIGCONT for a child that is stopped.         *)
StopsChild(c) ==
    /\ request[c].work = "step" /\ request[c].kind = "guarded"
    /\ request[c].reason # "none" /\ ~request[c].asked
    /\ request' = [request EXCEPT ![c].asked = TRUE, ![c].child = "running"]
    /\ UNCHANGED <<daemon, lock, client, conn, calls, replies, budget>>

ChildEnds(c) ==
    /\ request[c].work = "step" /\ request[c].child = "running"
    /\ request' = [request EXCEPT ![c].work = "between", ![c].child = "none",
                                  ![c].cut = @ \/ request[c].asked, ![c].asked = FALSE]
    /\ UNCHANGED <<daemon, lock, client, conn, calls, replies, budget>>

(* The request is past its last step, or a stop cut it short.              *)
CutShort(r) == r.reason # "none" /\ (r.cut \/ r.left > 0)

RollsBack(c) ==
    /\ request[c].work = "between" /\ CutShort(request[c]) /\ request[c].did
    /\ request' = [request EXCEPT ![c].work = "step", ![c].cut = TRUE, ![c].did = FALSE,
                                  ![c].kind = "shielded", ![c].child = "running"]
    /\ UNCHANGED <<daemon, lock, client, conn, calls, replies, budget>>

(* The root is finished, the lock released and every envelope delivered.   *)
DeliveredNot(c, ending) == UNCHANGED replies
Delivered(c, ending) == Send(c, ending)

Concludes(c) ==
    /\ request[c].work = "between"
    /\ IF CutShort(request[c]) THEN ~request[c].did ELSE request[c].left = 0
    /\ LET ending == IF CutShort(request[c]) THEN request[c].reason ELSE "succeeded"
       IN /\ request' = [request EXCEPT ![c].work = "concluded", ![c].ending = ending]
          /\ Delivered(c, ending)
    /\ lock' = Nobody
    /\ UNCHANGED <<daemon, client, conn, calls, budget>>

(* Worker::run returns: its watch and its Events are dropped.              *)
Returns(c) ==
    /\ request[c].work = "concluded"
    /\ request' = [request EXCEPT ![c] = [Idle EXCEPT !.work = "returned", !.ending = request[c].ending]]
    /\ calls' = [calls EXCEPT ![c] = <<>>]
    /\ Send(c, "closed")
    /\ UNCHANGED <<daemon, lock, client, conn, budget>>

(* serve_connection: the client hung up, and running.wait() has waited for *)
(* the request.  A worker on its own ends here.                            *)
WaitedNot(r) == TRUE
WaitsForEver(r) == FALSE
Waited(r) == r.work \in {"none", "returned"}

Serves(c) ==
    /\ conn[c] = "open" /\ Closed(c) /\ Waited(request[c])
    /\ conn' = [conn EXCEPT ![c] = IF c \in OneShot THEN "none" ELSE "done"]
    /\ UNCHANGED <<daemon, lock, client, calls, replies, request, budget>>

-----------------------------------------------------------------------------
(* The daemon.                                                             *)

(* The connections of the JoinSet, and those that hold a descriptor.       *)
Connections == {c \in Client \ OneShot : conn[c] \in {"open", "done"}}
Descriptors == {c \in Client \ OneShot : conn[c] = "open"}

(* A user outside mix-users holds one connection at a time.                *)
admission(c) == \/ admits(c)
                \/ \A d \in Descriptors : Uid[d] # Uid[c] \/ d \in Member

Accepts(c) ==
    /\ daemon.at = "serving" /\ ~daemon.full /\ conn[c] = "backlog"
    /\ Cardinality(Descriptors) < MaxOpen
    /\ conn' = [conn EXCEPT ![c] = IF admission(c) THEN "open" ELSE "dropped"]
    /\ UNCHANGED <<daemon, lock, client, calls, replies, request, budget>>

(* after_accept_error: out of descriptors, of the process or of the whole  *)
(* machine, it waits for a connection to close.                            *)
AcceptFails ==
    /\ daemon.at = "serving" /\ ~daemon.full
    /\ \E c \in Client : conn[c] = "backlog"
    /\ IF Cardinality(Descriptors) >= MaxOpen THEN UNCHANGED budget ELSE Disturbs
    /\ daemon' = IF Connections # {} THEN [daemon EXCEPT !.full = TRUE]
                 ELSE [daemon EXCEPT !.at = "closing", !.ended = "failed"]
    /\ UNCHANGED <<lock, client, conn, calls, replies, request>>

(* Any other error of accept(), and of the lock of the recovery.           *)
Fails ==
    /\ Disturbs
    /\ \/ daemon.at = "serving" /\ daemon' = [daemon EXCEPT !.at = "closing", !.ended = "failed"]
       \/ /\ daemon.at = "recovering" /\ daemon.recovery = "waiting"
          /\ daemon' = Down("failed")
    /\ UNCHANGED <<lock, client, conn, calls, replies, request>>

(* A connection that ends makes room for another.                          *)
RoomForgotten == daemon
Room == [daemon EXCEPT !.full = FALSE]

Joins(c) ==
    /\ daemon.at \in {"serving", "closing"} /\ conn[c] = "done"
    /\ conn' = [conn EXCEPT ![c] = "none"]
    /\ daemon' = Room
    /\ UNCHANGED <<lock, client, calls, replies, request, budget>>

(* SIGTERM from systemd, or the drain a repair asks for.  SIGTERM reaches  *)
(* the requests that listen by now.                                        *)
Told(signal) ==
    /\ daemon.at # "down" /\ Disturbs
    /\ daemon' = [daemon EXCEPT !.signals = @ \cup {signal}]
    /\ request' = [c \in Client |->
           [request[c] EXCEPT !.hears = @ \/ /\ signal = "TERM" /\ c \notin OneShot
                                             /\ request[c].watch = "on"]]
    /\ UNCHANGED <<lock, client, conn, calls, replies>>

StopsServing ==
    /\ daemon.at = "serving"
    /\ \E signal \in daemon.signals :
           daemon' = [daemon EXCEPT
               !.at = "closing", !.signals = {},
               !.ended = IF signal = "TERM" THEN "stopped" ELSE "drained"]
    /\ UNCHANGED <<lock, client, conn, calls, replies, request, budget>>

(* Every connection is waited for.                                         *)
Exits ==
    /\ daemon.at = "closing" /\ Connections = {}
    /\ daemon' = Down(daemon.ended)
    /\ UNCHANGED <<lock, client, conn, calls, replies, request, budget>>

(* The recovery at the start waits for the lock until it is told to stop;  *)
(* once it has it, nothing stops it.                                       *)
RecoveryAcquires ==
    /\ daemon.at = "recovering" /\ daemon.recovery = "waiting" /\ lock = Nobody
    /\ lock' = "recovery"
    /\ daemon' = [daemon EXCEPT !.recovery = "working"]
    /\ UNCHANGED <<client, conn, calls, replies, request, budget>>

RecoveryStops ==
    /\ daemon.at = "recovering" /\ "TERM" \in daemon.signals
    /\ daemon' = IF daemon.recovery = "waiting" THEN Down("stopped")
                 ELSE [daemon EXCEPT !.stopping = TRUE, !.signals = @ \ {"TERM"}]
    /\ UNCHANGED <<lock, client, conn, calls, replies, request, budget>>

RecoveryEnds ==
    /\ daemon.at = "recovering" /\ daemon.recovery = "working"
    /\ lock' = Nobody
    /\ daemon' = IF daemon.stopping THEN Down("stopped") ELSE [daemon EXCEPT !.at = "serving"]
    /\ UNCHANGED <<client, conn, calls, replies, request, budget>>

(* What is written of the replies by now: the rest is queued in the memory *)
(* of the daemon (rpc/src/transport.rs).                                   *)
Written(c) == {SubSeq(replies[c], 1, n) : n \in 0..Len(replies[c])}

(* External: the daemon is killed.  systemd kills its processes with it.   *)
(* A request that returned is as if it crashed too, for a client that is   *)
(* not told all of it.                                                     *)
Crashes ==
    /\ daemon.at # "down" /\ Disturbs
    /\ daemon' = Down("crashed")
    /\ lock' = IF lock \in OneShot THEN lock ELSE Nobody
    /\ LET lost == Connections
           served == {c \in lost : request[c].work # "none"}
       IN \E told \in [served -> UNION {Written(c) : c \in served}] :
            LET cut == {c \in served : request[c].work # "returned" \/ told[c] # replies[c]}
            IN /\ \A c \in served : told[c] \in Written(c)
               /\ conn' = [c \in Client |-> IF c \in lost THEN "none" ELSE conn[c]]
               /\ request' = [c \in Client |->
                      IF c \in cut THEN [Idle EXCEPT !.work = "crashed", !.ending = request[c].ending]
                      ELSE request[c]]
               /\ calls' = [c \in Client |-> IF c \in lost THEN <<>> ELSE calls[c]]
               /\ replies' = [c \in Client |->
                      IF c \in cut /\ ~Closed(c) THEN Append(told[c], "closed") ELSE replies[c]]
    /\ UNCHANGED client

(* External: systemd starts the daemon after a failure, after a drain      *)
(* (RestartForceExitStatus) and when somebody connects to its socket.      *)
SystemdStarts ==
    /\ daemon.at = "down"
    /\ \/ daemon.ended \in {"failed", "drained", "crashed"}
       \/ \E c \in Client : conn[c] = "backlog"
    /\ daemon' = Booting
    /\ UNCHANGED <<lock, client, conn, calls, replies, request, budget>>

-----------------------------------------------------------------------------
ClientRuns(c) == \/ Greets(c) \/ Unanswered(c) \/ Asks(c) \/ Reads(c) \/ WorkerLeft(c)
                 \/ \E signal \in {"INT", "TERM", "TSTP", "CONT"} : Notices(c, signal)

WorkerRuns(c) == \/ Steers(c) \/ SeesClientGone(c) \/ HearsTerminate(c)
                 \/ Acquires(c) \/ Blocked(c)
                 \/ \E kind \in {"guarded", "shielded"} : Spawns(c, kind)
                 \/ StopsChild(c) \/ ChildEnds(c) \/ RollsBack(c)
                 \/ Concludes(c) \/ Returns(c) \/ Serves(c)

DaemonRuns == \/ AcceptFails \/ StopsServing \/ Exits \/ SystemdStarts
              \/ RecoveryAcquires \/ RecoveryStops \/ RecoveryEnds
              \/ \E c \in Client : Accepts(c) \/ Joins(c)

Next == \/ \E c \in Client :
              \/ Starts(c) \/ Unreachable(c) \/ ClientRuns(c) \/ WorkerRuns(c) \/ Unwritten(c) \/ Killed(c)
              \/ \E signal \in {"INT", "TERM", "TSTP", "CONT"} :
                     Signalled(c, signal) \/ SignalledAsleep(c, signal)
        \/ DaemonRuns
        \/ \E signal \in {"TERM", "HUP"} : Told(signal)
        \/ Fails \/ Crashes

Spec == Init /\ [][Next]_vars

(* Each process runs while it can, and a child that is not stopped ends.   *)
(* Nobody has to send a signal, continue a stopped client or start one.    *)
Fairness == /\ \A c \in Client : WF_vars(ClientRuns(c)) /\ WF_vars(WorkerRuns(c))
            /\ WF_vars(DaemonRuns)

FairSpec == Spec /\ Fairness

-----------------------------------------------------------------------------
InProgress(c) == request[c].work \in {"waiting", "between", "step", "concluded"}

(* A daemon that is told to stop or to drain, or that fails, ends after    *)
(* every request it took on: also one whose client is gone, and one that   *)
(* began after the signal (serve.rs waits for the connections, and         *)
(* serve_connection for the request).                                      *)
NobodyIsAbandoned ==
    \A c \in Client \ OneShot :
        InProgress(c) => daemon.at \in {"serving", "closing"} /\ conn[c] = "open"

(* What a client's exit code says is how its request ended, and it says    *)
(* that the worker ended early only when it did: the root is delivered     *)
(* before the stream closes, whichever control or signal comes between.    *)
AnswersAreTrue ==
    \A c \in Client :
        /\ client[c].exit \in {"succeeded", "interrupted", "terminated"}
               => client[c].exit = request[c].ending
        /\ client[c].exit = "worker-ended" => request[c].work = "crashed"

(* Somebody's command is paused.                                           *)
Frozen == \E c \in Client : client[c].at = "stopped" \/ request[c].child = "stopped"

(* Whoever runs a command is answered and ends, through drains, failures   *)
(* and restarts of the daemon and when it is out of descriptors; and a     *)
(* daemon that is told to stop or to drain does, while it recovers,        *)
(* accepts or waits, unless some command stays paused for good (serve()).  *)
EveryoneIsAnswered ==
    []<>~Frozen => /\ []<>(\A c \in Client : client[c].at \in {"away", "gone"})
                   /\ []<>(daemon.signals = {} /\ daemon.at # "closing")

(* A client that leaves cancels its request                                *)
(* (daemon/src/controls.rs:111): the request ends.                         *)
LeavingEndsTheRequest ==
    \A c \in Client : (InProgress(c) /\ client[c].at = "gone") ~> ~InProgress(c)
=============================================================================
