----------------------------- MODULE HostProofs -----------------------------
(***************************************************************************)
(* What Host.tla promises, for any clients, commands, signals, crashes and *)
(* restarts.                                                               *)
(*                                                                         *)
(* That nobody is abandoned is a matter of who waits for whom: the daemon  *)
(* for its connections (Open), a connection for its request (Attended).    *)
(* That an exit code is true is one of order: the envelope that says how a *)
(* request ended is on its way before the stream is closed, and whichever  *)
(* of the two processes dies first, the client meets it first (Answered).  *)
(***************************************************************************)
EXTENDS Host, TLAPS

Controls == {"Interrupt", "Terminate", "Pause", "Resume"}
Signals == {"INT", "TERM", "TSTP", "CONT"}
Replies == {"Pause", "closed"} \cup Endings
Excuses == {"unavailable", "denied", "refused", "killed", "detached", "worker-ended", "unwritten"}

(* What the proof needs of the types.                                      *)
DaemonShape == {"at", "ended", "full", "signals", "stopping", "recovery"} \subseteq DOMAIN daemon

ClientShape ==
    /\ DOMAIN client = Client
    /\ \A c \in Client : {"at", "exit", "signals", "cancelled", "pausing"} \subseteq DOMAIN client[c]

RequestShape ==
    /\ DOMAIN request = Client
    /\ \A c \in Client :
         /\ {"work", "left", "did", "cut", "kind", "child", "asked", "reason", "watch",
              "hears", "ending"} \subseteq DOMAIN request[c]
         /\ request[c].reason \in {"none"} \cup Endings

Shape ==
    /\ DaemonShape /\ ClientShape /\ RequestShape
    /\ DOMAIN conn = Client
    /\ calls \in [Client -> Seq(Controls)]
    /\ replies \in [Client -> Seq(Replies)]

(* The daemon runs as long as it has a connection.                         *)
Open ==
    \A c \in Client \ OneShot :
      conn[c] \in {"open", "done"} => daemon.at \in {"serving", "closing"}

(* A request that was asked for is served on an open connection.           *)
Attended(c) ==
    /\ InProgress(c) => conn[c] = "open"
    /\ client[c].at \in {"away", "greeting", "asking"} =>
         /\ request[c].work = "none" /\ request[c].ending = "none" /\ request[c].watch = "off"
         /\ replies[c] = <<>> /\ client[c].exit = "none"

Ended(reply) == reply \in Endings

(* Replies that tell one end, that tell any, and that close after it.      *)
Says(s, ending) == \A i \in DOMAIN s : Ended(s[i]) => s[i] = ending
Tells(s) == \E i \in DOMAIN s : Ended(s[i])
ClosesLast(s) == \A i \in DOMAIN s : s[i] = "closed" => \E j \in 1..(i - 1) : Ended(s[j])

(* The end that is on its way, or arrived, is the request's; before the    *)
(* stream is closed it is on its way, unless the worker crashed.           *)
Answered(c) ==
    /\ Says(replies[c], request[c].ending)
    /\ Ended(client[c].exit) => client[c].exit = request[c].ending
    /\ request[c].work \in {"none", "waiting", "between", "step"} => request[c].ending = "none"
    /\ client[c].exit = "worker-ended" => request[c].work = "crashed"
    /\ request[c].work = "concluded" /\ ~Closed(c) /\ client[c].exit = "none" => Tells(replies[c])
    /\ request[c].work = "crashed" \/ client[c].exit # "none" \/ ClosesLast(replies[c])

Inv == Shape /\ Open /\ \A c \in Client : Attended(c) /\ Answered(c)

-----------------------------------------------------------------------------
USE HostAssumption

LEMMA InitInv == ASSUME Init PROVE Inv
  BY DEF Init, Inv, Shape, DaemonShape, ClientShape, RequestShape, Open, Attended, Answered, Says,
         ClosesLast, InProgress, Ended, Endings, Idle, Absent, Booting

(* What a reply more, and a reply less, does to the replies.               *)
LEMMA OneMore ==
  ASSUME NEW s \in Seq(Replies), NEW r \in Replies
  PROVE  /\ \A e : Says(s, e) /\ (Ended(r) => r = e) => Says(Append(s, r), e)
         /\ Tells(s) \/ Ended(r) => Tells(Append(s, r))
         /\ ClosesLast(s) /\ (r = "closed" => Tells(s)) => ClosesLast(Append(s, r))
<1> DEFINE n == Len(s)  t == Append(s, r)
<1>1. /\ n \in Nat /\ DOMAIN s = 1..n /\ DOMAIN t = 1..(n + 1)
      /\ \A i \in 1..n : t[i] = s[i]
      /\ t[n + 1] = r
  OBVIOUS
<1> HIDE DEF n, t
<1>2. \A e : Says(s, e) /\ (Ended(r) => r = e) => Says(t, e)
  BY <1>1 DEF Says
<1>3. Tells(s) \/ Ended(r) => Tells(t)
  BY <1>1 DEF Tells
<1>4. ASSUME ClosesLast(s), r = "closed" => Tells(s), NEW i \in DOMAIN t, t[i] = "closed"
      PROVE  \E j \in 1..(i - 1) : Ended(t[j])
  <2>1. CASE i \in 1..n
    BY <1>1, <1>4, <2>1 DEF ClosesLast
  <2>2. CASE i = n + 1
    BY <1>1, <1>4, <2>2 DEF Tells
  <2> QED BY <1>1, <2>1, <2>2
<1> QED BY <1>2, <1>3, <1>4 DEF ClosesLast, t

LEMMA OneLess ==
  ASSUME NEW s \in Seq(Replies), s # <<>>
  PROVE  /\ \A e : Says(s, e) => Says(Tail(s), e) /\ (Ended(Head(s)) => Head(s) = e)
         /\ Tells(s) /\ ~Ended(Head(s)) => Tells(Tail(s))
         /\ ClosesLast(s) => Head(s) # "closed"
         /\ ClosesLast(s) /\ ~Ended(Head(s)) => ClosesLast(Tail(s))
<1> DEFINE n == Len(s)  t == Tail(s)
<1>1. /\ n \in Nat \ {0} /\ DOMAIN s = 1..n /\ DOMAIN t = 1..(n - 1) /\ Head(s) = s[1]
      /\ \A i \in 1..(n - 1) : t[i] = s[i + 1]
  OBVIOUS
<1> HIDE DEF n, t
<1>2. \A i \in 2..n : i - 1 \in 1..(n - 1) /\ t[i - 1] = s[i]
  BY <1>1
<1>3. \A e : Says(s, e) => Says(t, e) /\ (Ended(Head(s)) => Head(s) = e)
  <2> SUFFICES ASSUME NEW e, Says(s, e) PROVE Says(t, e) /\ (Ended(Head(s)) => Head(s) = e)
    OBVIOUS
  <2>1. \A i \in DOMAIN t : i + 1 \in DOMAIN s /\ t[i] = s[i + 1]
    BY <1>1
  <2>2. Says(t, e)
    BY <2>1 DEF Says
  <2> QED BY <1>1, <2>2 DEF Says
<1>4. ASSUME Tells(s), ~Ended(Head(s)) PROVE Tells(t)
  <2>1. PICK i \in DOMAIN s : Ended(s[i])
    BY <1>4 DEF Tells
  <2>2. i \in 2..n
    BY <1>1, <1>4, <2>1
  <2>3. i - 1 \in DOMAIN t /\ Ended(t[i - 1])
    BY <1>1, <1>2, <2>1, <2>2
  <2> QED BY <2>3 DEF Tells
<1>5. ClosesLast(s) => Head(s) # "closed"
  BY <1>1 DEF ClosesLast
<1>6. ASSUME ClosesLast(s), ~Ended(Head(s)), NEW i \in DOMAIN t, t[i] = "closed"
      PROVE  \E j \in 1..(i - 1) : Ended(t[j])
  <2>0. i \in Nat /\ i + 1 \in DOMAIN s /\ s[i + 1] = "closed" /\ (i + 1) - 1 = i
    BY <1>1, <1>6
  <2>1. PICK j \in 1..i : Ended(s[j])
    BY <1>6, <2>0 DEF ClosesLast
  <2>2. j \in 2..n /\ j - 1 \in 1..(i - 1)
    BY <1>1, <1>6, <2>1
  <2> QED BY <1>2, <2>1, <2>2
<1> QED BY <1>3, <1>4, <1>5, <1>6 DEF ClosesLast, t

(* Client d sees nothing of the step.                                      *)
Same(d) ==
    /\ client'[d] = client[d] /\ conn'[d] = conn[d] /\ replies'[d] = replies[d]
    /\ request'[d].work = request[d].work /\ request'[d].ending = request[d].ending
    /\ request'[d].watch = request[d].watch

LEMMA SameKept ==
  ASSUME NEW d \in Client, Attended(d), Answered(d), Same(d)
  PROVE  Attended(d)' /\ Answered(d)'
  BY DEF Same, Attended, Answered, InProgress, Closed

(* A step about client c.                                                  *)
LEMMA Local ==
  ASSUME Inv, NEW c \in Client, \A d \in Client \ {c} : Same(d),
         Shape', Open', Attended(c)', Answered(c)'
  PROVE  Inv'
<1>1. \A d \in Client : Attended(d)' /\ Answered(d)'
  BY SameKept DEF Inv
<1> QED BY <1>1 DEF Inv

(* A step of the daemon that leaves the connections alone.                 *)
LEMMA Elsewhere == ASSUME Inv, \A d \in Client : Same(d), Shape', Open' PROVE Inv'
<1>1. \A d \in Client : Attended(d)' /\ Answered(d)'
  BY SameKept DEF Inv
<1> QED BY <1>1 DEF Inv

(* The client hangs up with an exit code of its own.                       *)
LEMMA HangsUpInv ==
  ASSUME Inv, NEW c \in Client, NEW at \in {"leaving", "gone"}, NEW exit \in Excuses,
         HangsUp(c, at, exit),
         exit = "worker-ended" /\ client[c].exit = "none" => request[c].work = "crashed",
         UNCHANGED <<daemon, request>>, calls' = calls, 
         conn' = conn \/ (conn' = [conn EXCEPT ![c] = "none"] /\ ~InProgress(c))
  PROVE  Inv'
<1>1. client'[c].at = at /\ client'[c].exit = IF client[c].exit = "none" THEN exit ELSE client[c].exit
  BY DEF HangsUp, Absent, Inv, Shape, ClientShape
<1>2. replies'[c] = <<>>
  BY DEF HangsUp, Inv, Shape
<1>3. \A d \in Client \ {c} : Same(d)
  BY DEF HangsUp, Inv, Shape, ClientShape, Same
<1>4. Shape'
  <2>1. ClientShape'
    BY DEF HangsUp, Inv, Shape, Absent, ClientShape
  <2>2. replies' \in [Client -> Seq(Replies)]
    BY DEF HangsUp, Inv, Shape
  <2> QED BY <2>1, <2>2 DEF Inv, Shape, DaemonShape, RequestShape
<1>5. Open'
  BY DEF Open, Inv, Shape
<1>6. Attended(c)'
  BY <1>1, <1>2 DEF Attended, Inv, Shape, InProgress
<1>7. Answered(c)'
  BY <1>1, <1>2 DEF Answered, Inv, Closed, Ended, Endings, Excuses, Says, Tells, ClosesLast
<1> QED BY <1>3, <1>4, <1>5, <1>6, <1>7, Local

(* The steps of the client.                                                *)
LEMMA ClientInv ==
  ASSUME Inv, NEW c \in Client,
         Starts(c) \/ Greets(c) \/ Asks(c) \/ WorkerLeft(c) \/ Unreachable(c)
         \/ Unanswered(c) \/ Killed(c) \/ Unwritten(c)
  PROVE  Inv'
<1> USE DEF Inv, Shape, ClientShape
<1>1. CASE Starts(c) \/ WorkerLeft(c) \/ (Greets(c) /\ admits(c))
  <2>1. /\ UNCHANGED <<daemon, calls, replies, request>>
        /\ client'[c].exit = client[c].exit
        /\ \A d \in Client \ {c} : client'[d] = client[d] /\ conn'[d] = conn[d]
    <3>1. CASE Starts(c)
      BY <3>1 DEF Starts
    <3>2. CASE WorkerLeft(c)
      BY <3>2 DEF WorkerLeft
    <3>3. CASE Greets(c) /\ admits(c)
      BY <3>3 DEF Greets
    <3> QED BY <1>1, <3>1, <3>2, <3>3
  <2>2. ClientShape' /\ DOMAIN conn' = Client
    <3>1. CASE Starts(c)
      BY <3>1 DEF Starts
    <3>2. CASE WorkerLeft(c)
      BY <3>2 DEF WorkerLeft
    <3>3. CASE Greets(c) /\ admits(c)
      BY <3>3 DEF Greets
    <3> QED BY <1>1, <3>1, <3>2, <3>3
  <2>3. Closed(c) => Closed(c)'
    BY <1>1 DEF Starts, WorkerLeft, Greets, Closed
  <2>4. Open'
    BY <1>1 DEF Starts, WorkerLeft, Greets, Open
  <2>5. Attended(c)'
    BY <1>1 DEF Starts, WorkerLeft, Greets, Attended, InProgress
  <2>6. Answered(c)'
    BY <2>1, <2>3 DEF Answered
  <2>7. Shape'
    BY <2>1, <2>2 DEF DaemonShape, RequestShape
  <2>8. \A d \in Client \ {c} : Same(d)
    BY <2>1 DEF Same
  <2> HIDE DEF Inv, Shape
  <2> QED BY <2>4, <2>5, <2>6, <2>7, <2>8, Local
<1>2. CASE Asks(c)
  <2>1. /\ UNCHANGED <<daemon, conn, calls, replies>>
        /\ client'[c].exit = client[c].exit /\ client'[c].at = "replaying"
        /\ conn[c] = "open" /\ client[c].at = "asking"
        /\ request'[c].work = "waiting" /\ request'[c].ending = request[c].ending
    BY <1>2 DEF Asks, RequestShape
  <2>2. ClientShape' /\ RequestShape'
    BY <1>2 DEF Asks, RequestShape
  <2>3. \A d \in Client \ {c} : Same(d)
    BY <1>2 DEF Asks, RequestShape, Same
  <2>4. Open'
    BY <2>1 DEF Open
  <2>5. Attended(c)'
    BY <2>1 DEF Attended, InProgress
  <2>6. Answered(c)'
    BY <2>1 DEF Attended, Answered
  <2>7. Shape'
    BY <2>1, <2>2 DEF DaemonShape
  <2> HIDE DEF Inv, Shape
  <2> QED BY <2>3, <2>4, <2>5, <2>6, <2>7, Local
<1> HIDE DEF Inv, Shape, ClientShape
<1>3. CASE Unreachable(c) \/ Killed(c) \/ (Greets(c) /\ ~admits(c))
  <2>1. PICK exit \in Excuses : exit # "worker-ended" /\ HangsUp(c, "gone", exit)
    BY <1>3 DEF Unreachable, Killed, Greets, Quits, Excuses
  <2>2. UNCHANGED <<daemon, conn, calls, request>>
    BY <1>3 DEF Unreachable, Killed, Greets
  <2> QED BY <2>1, <2>2, HangsUpInv
<1>4. CASE Unanswered(c)
  <2>1. ~InProgress(c)
    BY <1>4 DEF Unanswered, Inv, Attended, InProgress
  <2>2. PICK exit \in Excuses : exit # "worker-ended" /\ HangsUp(c, "gone", exit)
    BY <1>4 DEF Unanswered, Quits, Excuses
  <2>3. UNCHANGED <<daemon, calls, request>> /\ conn' = [conn EXCEPT ![c] = "none"]
    BY <1>4 DEF Unanswered
  <2> QED BY <2>1, <2>2, <2>3, HangsUpInv
<1>5. CASE Unwritten(c)
  <2>1. PICK at \in {"leaving", "gone"} : HangsUp(c, at, "unwritten")
    BY <1>5 DEF Unwritten, Leaves
  <2>2. UNCHANGED <<daemon, conn, calls, request>>
    BY <1>5 DEF Unwritten
  <2>3. "unwritten" \in Excuses
    BY DEF Excuses
  <2> QED BY <2>1, <2>2, <2>3, HangsUpInv
<1> QED BY <1>1, <1>2, <1>3, <1>4, <1>5

LEMMA SignalInv ==
  ASSUME Inv, NEW c \in Client, NEW signal \in Signals,
         Handle(c, signal) \/ SignalledAsleep(c, signal)
  PROVE  Inv'
<1>1. CASE Handle(c, signal) /\ translate(c, signal) = "Detach"
  <2>1. HangsUp(c, "gone", "detached") /\ UNCHANGED <<daemon, conn, calls, request>>
    BY <1>1 DEF Handle, Quits
  <2>2. "detached" \in Excuses
    BY DEF Excuses
  <2> QED BY <2>1, <2>2, HangsUpInv
<1>2. CASE SignalledAsleep(c, signal) \/ (Handle(c, signal) /\ translate(c, signal) # "Detach")
  <2>1. translate(c, signal) # "Detach" => translate(c, signal) \in Controls
    BY DEF translate, Signals, Controls
  <2>2. calls' \in [Client -> Seq(Controls)]
    <3>1. CASE SignalledAsleep(c, signal)
      BY <3>1 DEF SignalledAsleep, Inv, Shape
    <3>2. CASE translate(c, signal) \in Controls /\ calls' = [calls EXCEPT ![c] = Append(@, translate(c, signal))]
      <4>1. Append(calls[c], translate(c, signal)) \in Seq(Controls)
        BY <3>2 DEF Inv, Shape
      <4> QED BY <3>2, <4>1 DEF Inv, Shape
    <3> QED BY <1>2, <2>1, <3>1, <3>2 DEF Handle
  <2>3. UNCHANGED <<daemon, conn, replies, request>>
    BY <1>2 DEF Handle, SignalledAsleep
  <2>4. client'[c].exit = client[c].exit /\ client[c].at \in {"replaying", "stopped"}
        /\ client'[c].at \in {"replaying", "stopped"} /\ Closed(c)' = Closed(c)
    BY <1>2 DEF Handle, SignalledAsleep, Inv, Shape, ClientShape, Closed
  <2>5. \A d \in Client \ {c} : Same(d)
    BY <1>2, <2>3 DEF Handle, SignalledAsleep, Inv, Shape, ClientShape, Same
  <2>6. Shape'
    <3>1. ClientShape'
      <4>1. CASE SignalledAsleep(c, signal)
        BY <4>1 DEF SignalledAsleep, Inv, Shape, ClientShape
      <4>2. CASE Handle(c, signal) /\ translate(c, signal) # "Detach"
        <5>1. DOMAIN client' = DOMAIN client /\ \A d \in Client \ {c} : client'[d] = client[d]
          BY <4>2 DEF Handle, Inv, Shape, ClientShape
        <5>2. DOMAIN client'[c] = DOMAIN client[c]
          BY <4>2 DEF Handle, Inv, Shape, ClientShape
        <5> QED BY <5>1, <5>2 DEF Inv, Shape, ClientShape
      <4> QED BY <1>2, <4>1, <4>2
    <3> QED BY <2>2, <2>3, <3>1 DEF Inv, Shape, DaemonShape, RequestShape
  <2>7. Open'
    BY <2>3 DEF Inv, Open
  <2>8. Attended(c)'
    BY <2>3, <2>4 DEF Inv, Attended, InProgress
  <2>9. Answered(c)'
    BY <2>3, <2>4 DEF Inv, Answered
  <2> QED BY <2>5, <2>6, <2>7, <2>8, <2>9, Local
<1> QED BY <1>1, <1>2

(* One turn of replay().                                                   *)
LEMMA ReadsInv == ASSUME Inv, NEW c \in Client, Reads(c) PROVE Inv'
<1> DEFINE reply == Head(replies[c])
<1>1. replies[c] \in Seq(Replies) /\ replies[c] # <<>>
  BY DEF Reads, Inv, Shape
<1>2. CASE reply = "closed"
  <2>1. client[c].exit = "none" => request[c].work = "crashed"
    BY <1>1, <1>2, OneLess DEF Inv, Answered
  <2>2. PICK at \in {"leaving", "gone"} : HangsUp(c, at, "worker-ended")
    BY <1>2 DEF Reads, Leaves
  <2>3. UNCHANGED <<daemon, conn, calls, request>> /\ "worker-ended" \in Excuses
    BY DEF Reads, Excuses
  <2> QED BY <2>1, <2>2, <2>3, HangsUpInv
<1>3. CASE reply # "closed"
  <2>1. /\ UNCHANGED <<daemon, conn, calls, request>>
        /\ replies' = [replies EXCEPT ![c] = Tail(@)]
        /\ client[c].at = "replaying"
    BY <1>3 DEF Reads
  <2>2. client' = [client EXCEPT ![c] =
                     CASE reply = "Pause" /\ @.pausing ->
                            [@ EXCEPT !.at = "stopped", !.pausing = FALSE]
                       [] reply \in Endings -> [@ EXCEPT !.exit = reply]
                       [] OTHER -> @]
    BY <1>3 DEF Reads
  <2>3. replies'[c] = Tail(replies[c])
    BY <2>1 DEF Inv, Shape
  <2>4. /\ client'[c].at \in {"replaying", "stopped"}
        /\ client'[c].exit = IF Ended(reply) THEN reply ELSE client[c].exit
    BY <2>1, <2>2 DEF Inv, Shape, ClientShape, Ended, Endings
  <2>5. \A d \in Client \ {c} : Same(d)
    BY <2>1, <2>2 DEF Inv, Shape, ClientShape, Same
  <2>6. Shape'
    <3>1. ClientShape'
      BY <2>2 DEF Inv, Shape, ClientShape
    <3>2. replies' \in [Client -> Seq(Replies)]
      BY <1>1, <2>1 DEF Inv, Shape
    <3> QED BY <2>1, <3>1, <3>2 DEF Inv, Shape, DaemonShape, RequestShape
  <2>7. Open'
    BY <2>1 DEF Inv, Open
  <2>8. Attended(c)'
    BY <2>1, <2>4 DEF Inv, Attended, InProgress
  <2>9. Answered(c)'
    <3>1. ~Closed(c) /\ ~Closed(c)' /\ ~Ended("none") /\ ~Ended("worker-ended")
      BY <2>1, <2>4 DEF Closed, Ended, Endings
    <3> HIDE DEF reply
    <3> QED BY <1>1, <2>1, <2>3, <2>4, <3>1, OneLess DEF Inv, Answered, reply
  <2> QED BY <2>5, <2>6, <2>7, <2>8, <2>9, Local
<1> QED BY <1>2, <1>3

(* The steps of the worker.                                                *)

LEMMA Sends ==
  ASSUME Shape, NEW c \in Client, NEW reply \in Replies, Send(c, reply)
  PROVE  /\ replies' \in [Client -> Seq(Replies)]
         /\ \A d \in Client \ {c} : replies'[d] = replies[d]
         /\ replies'[c] = IF Closed(c) THEN replies[c] ELSE Append(replies[c], reply)
  BY DEF Shape, Send

(* A step that neither begins nor ends the request.                        *)
LEMMA WorksInv ==
  ASSUME Inv, NEW c \in Client,
         UNCHANGED <<daemon, client, conn>>,
         RequestShape', calls' \in [Client -> Seq(Controls)],
         \A d \in Client \ {c} : request'[d] = request[d],
         request'[c].ending = request[c].ending,
         \/ request'[c].work = request[c].work
         \/ {request[c].work, request'[c].work} \subseteq {"waiting", "between", "step"},
         request'[c].watch \in {request[c].watch, "off"},
         replies' = replies \/ (Send(c, "Pause") /\ request[c].watch = "on")
  PROVE  Inv'
<1>1. \/ replies' = replies
      \/ /\ replies' \in [Client -> Seq(Replies)]
         /\ replies'[c] = IF Closed(c) THEN replies[c] ELSE Append(replies[c], "Pause")
         /\ \A d \in Client \ {c} : replies'[d] = replies[d]
  <2>1. Shape /\ "Pause" \in Replies
    BY DEF Inv, Replies
  <2>2. CASE Send(c, "Pause")
    BY <2>1, <2>2, Sends
  <2> QED BY <2>2
<1>2. \A d \in Client \ {c} : Same(d)
  BY <1>1 DEF Same
<1>3. Shape'
  BY <1>1 DEF Inv, Shape, DaemonShape, ClientShape
<1>4. Open'
  BY DEF Inv, Open
<1>5. Attended(c)'
  <2>1. CASE replies' = replies
    BY <2>1 DEF Inv, Attended, InProgress
  <2>2. CASE client[c].at \notin {"away", "greeting", "asking"}
    BY <2>2 DEF Inv, Attended, InProgress
  <2>3. CASE client[c].at \in {"away", "greeting", "asking"} /\ request[c].watch = "on"
    BY <2>3 DEF Inv, Attended, InProgress
  <2> QED BY <2>1, <2>2, <2>3
<1>6. Answered(c)'
  <2>1. CASE replies' = replies
    BY <2>1 DEF Inv, Answered, Closed
  <2>2. CASE replies'[c] = IF Closed(c) THEN replies[c] ELSE Append(replies[c], "Pause")
    <3>1. Closed(c)' = Closed(c)
      BY DEF Closed
    <3>2. ~Ended("Pause") /\ "Pause" \in Replies /\ replies[c] \in Seq(Replies)
      BY DEF Ended, Endings, Replies, Inv, Shape
    <3> QED BY <2>2, <3>1, <3>2, OneMore DEF Inv, Answered
  <2> QED BY <1>1, <2>1, <2>2
<1> QED BY <1>2, <1>3, <1>4, <1>5, <1>6, Local

LEMMA WorkerInv ==
  ASSUME Inv, NEW c \in Client,
         \/ Steers(c) \/ SeesClientGone(c) \/ HearsTerminate(c) \/ Acquires(c)
         \/ (\E kind \in {"guarded", "shielded"} : Spawns(c, kind))
         \/ StopsChild(c) \/ ChildEnds(c) \/ RollsBack(c)
  PROVE  Inv'
<1> DEFINE Going == /\ RequestShape'
                    /\ \A d \in Client \ {c} : request'[d] = request[d]
                    /\ request'[c].ending = request[c].ending
                    /\ \/ request'[c].work = request[c].work
                       \/ {request[c].work, request'[c].work} \subseteq {"waiting", "between", "step"}
                    /\ request'[c].watch \in {request[c].watch, "off"}
<1>0. RequestShape /\ calls \in [Client -> Seq(Controls)]
  BY DEF Inv, Shape
<1>1. CASE Steers(c)
  <2>1. calls' \in [Client -> Seq(Controls)] /\ Head(calls[c]) \in Controls
    BY <1>0, <1>1 DEF Steers
  <2>2. request' = [request EXCEPT ![c] = steered(request[c], Head(calls[c]))]
    BY <1>1 DEF Steers
  <2>3. /\ DOMAIN steered(request[c], Head(calls[c])) = DOMAIN request[c]
        /\ steered(request[c], Head(calls[c])).reason \in {"none"} \cup Endings
        /\ steered(request[c], Head(calls[c])).work = request[c].work
        /\ steered(request[c], Head(calls[c])).ending = request[c].ending
        /\ steered(request[c], Head(calls[c])).watch = request[c].watch
    BY <1>0, <2>1 DEF steered, cancel, pause, resume, RequestShape, Controls, Endings
  <2>4. Going
    BY <1>0, <2>2, <2>3 DEF RequestShape
  <2>5. /\ UNCHANGED <<daemon, client, conn>>
        /\ replies' = replies \/ (Send(c, "Pause") /\ request[c].watch = "on")
    BY <1>1 DEF Steers
  <2> QED BY <2>1, <2>4, <2>5, WorksInv
<1>2. CASE SeesClientGone(c)
  <2>1. Going
    BY <1>0, <1>2 DEF SeesClientGone, RequestShape, cancel, Endings
  <2>2. calls' \in [Client -> Seq(Controls)]
    BY <1>0, <1>2 DEF SeesClientGone
  <2>3. UNCHANGED <<daemon, client, conn, replies>>
    BY <1>2 DEF SeesClientGone
  <2> QED BY <2>1, <2>2, <2>3, WorksInv
<1>3. CASE HearsTerminate(c)
  <2>1. Going
    BY <1>0, <1>3 DEF HearsTerminate, RequestShape, cancel, Endings
  <2>2. UNCHANGED <<daemon, client, conn, replies, calls>>
    BY <1>3 DEF HearsTerminate
  <2> QED BY <1>0, <2>1, <2>2, WorksInv
<1>4. CASE Acquires(c) \/ StopsChild(c)
  <2>1. Going
    <3>1. CASE Acquires(c)
      BY <1>0, <3>1 DEF Acquires, RequestShape
    <3>2. CASE StopsChild(c)
      BY <1>0, <3>2 DEF StopsChild, RequestShape
    <3> QED BY <1>4, <3>1, <3>2
  <2>2. UNCHANGED <<daemon, client, conn, replies, calls>>
    BY <1>4 DEF Acquires, StopsChild
  <2> QED BY <1>0, <2>1, <2>2, WorksInv
<1>5. CASE \E kind \in {"guarded", "shielded"} : Spawns(c, kind)
  <2>1. Going
    <3>1. PICK kind : kind \in {"guarded", "shielded"} /\ Spawns(c, kind)
      BY <1>5
    <3> QED BY <1>0, <3>1 DEF Spawns, RequestShape
  <2>2. UNCHANGED <<daemon, client, conn, replies, calls>>
    BY <1>5 DEF Spawns
  <2> QED BY <1>0, <2>1, <2>2, WorksInv
<1>6. CASE ChildEnds(c) \/ RollsBack(c)
  <2>1. Going
    <3>1. CASE ChildEnds(c)
      BY <1>0, <3>1 DEF ChildEnds, RequestShape
    <3>2. CASE RollsBack(c)
      BY <1>0, <3>2 DEF RollsBack, RequestShape
    <3> QED BY <1>6, <3>1, <3>2
  <2>2. UNCHANGED <<daemon, client, conn, replies, calls>>
    BY <1>6 DEF ChildEnds, RollsBack
  <2> QED BY <1>0, <2>1, <2>2, WorksInv
<1> QED BY <1>1, <1>2, <1>3, <1>4, <1>5, <1>6

(* The end of a request is told as it is decided.                          *)
LEMMA EndsInv == ASSUME Inv, NEW c \in Client, Blocked(c) \/ Concludes(c) PROVE Inv'
<1> DEFINE ending == request'[c].ending
<1>1. /\ RequestShape'
      /\ \A d \in Client \ {c} : request'[d] = request[d]
      /\ request'[c].work = "concluded" /\ request[c].work \in {"waiting", "between"}
      /\ request'[c].watch = request[c].watch
  <2>1. CASE Blocked(c)
    BY <2>1 DEF Blocked, Inv, Shape, RequestShape
  <2>2. CASE Concludes(c)
    BY <2>2 DEF Concludes, Inv, Shape, RequestShape
  <2> QED BY <2>1, <2>2
<1>2. ending \in Endings
  BY DEF Blocked, Concludes, CutShort, Inv, Shape, RequestShape, Endings
<1>3. Send(c, ending) /\ UNCHANGED <<daemon, client, conn, calls>>
  BY DEF Blocked, Concludes, Delivered, Inv, Shape, RequestShape
<1>4. /\ replies' \in [Client -> Seq(Replies)]
      /\ \A d \in Client \ {c} : replies'[d] = replies[d]
      /\ replies'[c] = IF Closed(c) THEN replies[c] ELSE Append(replies[c], ending)
  <2>1. ending \in Replies /\ Shape
    BY <1>2 DEF Replies, Inv
  <2> HIDE DEF ending
  <2> QED BY <1>3, <2>1, Sends
<1>5. \A d \in Client \ {c} : Same(d)
  BY <1>1, <1>3, <1>4 DEF Same
<1>6. Shape'
  BY <1>1, <1>3, <1>4 DEF Inv, Shape, DaemonShape, ClientShape
<1>7. Open'
  BY <1>3 DEF Inv, Open
<1>8. Attended(c)'
  BY <1>1, <1>3 DEF Inv, Attended, InProgress
<1>9. Answered(c)'
  <2>1. request[c].ending = "none" /\ ~Ended("none") /\ Answered(c)
    BY <1>1 DEF Inv, Answered, Ended, Endings
  <2>2. Says(replies[c], ending) /\ ~Ended(client[c].exit)
    BY <2>1 DEF Answered, Says
  <2>3. ending \in Replies /\ Ended(ending) /\ ending # "closed" /\ replies[c] \in Seq(Replies)
    BY <1>2 DEF Replies, Inv, Shape, Ended, Endings
  <2>4. Closed(c)' = Closed(c)
    BY <1>3 DEF Closed
  <2> HIDE DEF ending
  <2>5. /\ Says(replies'[c], ending)
        /\ ~Closed(c) => Tells(replies'[c])
        /\ ClosesLast(replies[c]) => ClosesLast(replies'[c])
    BY <1>4, <2>2, <2>3, OneMore
  <2> QED BY <1>1, <1>3, <2>1, <2>2, <2>4, <2>5 DEF Answered, ending
<1> QED BY <1>5, <1>6, <1>7, <1>8, <1>9, Local

LEMMA ReturnsInv == ASSUME Inv, NEW c \in Client, Returns(c) \/ Serves(c) PROVE Inv'
<1>1. CASE Returns(c)
  <2>1. /\ RequestShape'
        /\ \A d \in Client \ {c} : request'[d] = request[d]
        /\ request'[c].work = "returned" /\ request[c].work = "concluded"
        /\ request'[c].watch = "off" /\ request'[c].ending = request[c].ending
    BY <1>1 DEF Returns, Idle, Inv, Shape, RequestShape
  <2>2. UNCHANGED <<daemon, client, conn>> /\ Send(c, "closed")
    BY <1>1 DEF Returns
  <2>3. "closed" \in Replies /\ Shape /\ replies[c] \in Seq(Replies)
    BY DEF Replies, Inv, Shape
  <2>4. /\ replies' \in [Client -> Seq(Replies)]
        /\ \A d \in Client \ {c} : replies'[d] = replies[d]
        /\ replies'[c] = IF Closed(c) THEN replies[c] ELSE Append(replies[c], "closed")
    BY <2>2, <2>3, Sends
  <2>5. \A d \in Client \ {c} : Same(d)
    BY <2>1, <2>2, <2>4 DEF Same
  <2>6. calls' \in [Client -> Seq(Controls)]
    BY <1>1 DEF Returns, Inv, Shape
  <2>7. Shape'
    BY <2>1, <2>2, <2>4, <2>6 DEF Inv, Shape, DaemonShape, ClientShape
  <2>8. Open'
    BY <2>2 DEF Inv, Open
  <2>9. Attended(c)'
    BY <2>1, <2>2 DEF Inv, Attended, InProgress
  <2>10. Answered(c)'
    <3>1. Closed(c)' = Closed(c) /\ ~Ended("closed") /\ Answered(c)
      BY <2>2 DEF Closed, Ended, Endings, Inv
    <3>2. /\ Says(replies'[c], request[c].ending)
          /\ ClosesLast(replies[c]) /\ (~Closed(c) => Tells(replies[c])) => ClosesLast(replies'[c])
      BY <2>3, <2>4, <3>1, OneMore DEF Answered
    <3> QED BY <2>1, <2>2, <3>1, <3>2 DEF Answered
  <2> QED BY <2>5, <2>7, <2>8, <2>9, <2>10, Local
<1>2. CASE Serves(c)
  <2>1. /\ UNCHANGED <<daemon, client, calls, replies, request>>
        /\ conn' = [conn EXCEPT ![c] = IF c \in OneShot THEN "none" ELSE "done"]
        /\ conn[c] = "open" /\ Waited(request[c])
    BY <1>2 DEF Serves
  <2>2. Shape' /\ \A d \in Client \ {c} : Same(d)
    BY <2>1 DEF Inv, Shape, DaemonShape, ClientShape, RequestShape, Same
  <2>3. Open'
    BY <2>1 DEF Inv, Shape, Open
  <2>4. Attended(c)' /\ Answered(c)'
    BY <2>1 DEF Inv, Attended, Answered, InProgress, Waited, Closed
  <2> QED BY <2>2, <2>3, <2>4, Local
<1> QED BY <1>1, <1>2

-----------------------------------------------------------------------------
(* The steps of the daemon.                                                *)

LEMMA AcceptsInv == ASSUME Inv, NEW c \in Client, Accepts(c) \/ Joins(c) PROVE Inv'
<1>1. /\ UNCHANGED <<client, calls, replies, request>>
      /\ DOMAIN conn' = Client /\ \A d \in Client \ {c} : conn'[d] = conn[d]
      /\ conn[c] # "open" /\ conn'[c] \in {"open", "dropped", "none"}
      /\ DaemonShape' /\ daemon'.at = daemon.at /\ daemon.at \in {"serving", "closing"}
  BY DEF Accepts, Joins, Room, Inv, Shape, DaemonShape
<1>2. Shape' /\ \A d \in Client \ {c} : Same(d)
  BY <1>1 DEF Inv, Shape, ClientShape, RequestShape, Same
<1>3. Open'
  BY <1>1 DEF Open
<1>4. Attended(c)' /\ Answered(c)'
  BY <1>1 DEF Inv, Attended, Answered, InProgress, Closed
<1> QED BY <1>2, <1>3, <1>4, Local

LEMMA DaemonInv ==
  ASSUME Inv, AcceptFails \/ StopsServing \/ Exits \/ SystemdStarts \/ Fails
              \/ RecoveryAcquires \/ RecoveryStops \/ RecoveryEnds
  PROVE  Inv'
<1>1. UNCHANGED <<client, conn, calls, replies, request>>
  <2>1. CASE AcceptFails \/ StopsServing \/ Exits \/ SystemdStarts
    BY <2>1 DEF AcceptFails, StopsServing, Exits, SystemdStarts
  <2>2. CASE Fails \/ RecoveryAcquires \/ RecoveryStops \/ RecoveryEnds
    BY <2>2 DEF Fails, RecoveryAcquires, RecoveryStops, RecoveryEnds
  <2> QED BY <2>1, <2>2
<1>2. DaemonShape'
  BY DEF AcceptFails, StopsServing, Exits, SystemdStarts, Fails, RecoveryAcquires, RecoveryStops,
         RecoveryEnds, Inv, Shape, DaemonShape, Down, Booting
<1>3. \/ daemon'.at \in {"serving", "closing"}
      \/ daemon.at \notin {"serving", "closing"}
      \/ Connections = {}
  BY DEF AcceptFails, StopsServing, Exits, SystemdStarts, Fails, RecoveryAcquires, RecoveryStops,
         RecoveryEnds, Inv, Shape, DaemonShape
<1>4. Open'
  BY <1>1, <1>3 DEF Inv, Open, Connections
<1>5. Shape' /\ \A d \in Client : Same(d)
  BY <1>1, <1>2 DEF Inv, Shape, ClientShape, RequestShape, Same
<1> QED BY <1>4, <1>5, Elsewhere

LEMMA ToldInv == ASSUME Inv, NEW signal \in {"TERM", "HUP"}, Told(signal) PROVE Inv'
<1>1. UNCHANGED <<client, conn, calls, replies>> /\ DaemonShape' /\ daemon'.at = daemon.at
  BY DEF Told, Inv, Shape, DaemonShape
<1>2. RequestShape'
  BY DEF Told, Inv, Shape, RequestShape
<1>3. Shape' /\ \A d \in Client : Same(d)
  BY <1>1, <1>2 DEF Told, Inv, Shape, ClientShape, RequestShape, Same
<1>4. Open'
  BY <1>1 DEF Inv, Open
<1> QED BY <1>3, <1>4, Elsewhere

(* What is written says no other end than all of it.                       *)
LEMMA WrittenSays ==
  ASSUME NEW c \in Client, replies[c] \in Seq(Replies), NEW s \in Written(c)
  PROVE  s \in Seq(Replies) /\ \A e : Says(replies[c], e) => Says(s, e)
<1>1. PICK n \in 0..Len(replies[c]) : s = SubSeq(replies[c], 1, n)
  BY DEF Written
<1>2. /\ s \in Seq(Replies) /\ DOMAIN s \subseteq DOMAIN replies[c]
      /\ \A i \in DOMAIN s : s[i] = replies[c][i]
  BY <1>1
<1> QED BY <1>2 DEF Says

LEMMA CrashesInv == ASSUME Inv, Crashes PROVE Inv'
<1> DEFINE served == {c \in Connections : request[c].work # "none"}
           cut(told) == {c \in served : request[c].work # "returned" \/ told[c] # replies[c]}
           Cut(c, told) == c \in cut(told)
<1>1. PICK told \in [served -> UNION {Written(c) : c \in served}] :
        /\ \A c \in served : told[c] \in Written(c)
        /\ conn' = [c \in Client |-> IF c \in Connections THEN "none" ELSE conn[c]]
        /\ request' = [c \in Client |->
              IF Cut(c, told) THEN [Idle EXCEPT !.work = "crashed", !.ending = request[c].ending]
              ELSE request[c]]
        /\ calls' = [c \in Client |-> IF c \in Connections THEN <<>> ELSE calls[c]]
        /\ replies' = [c \in Client |->
              IF Cut(c, told) /\ ~Closed(c) THEN Append(told[c], "closed") ELSE replies[c]]
  BY DEF Crashes
<1>2. UNCHANGED client /\ daemon' = Down("crashed")
  BY DEF Crashes
<1> USE DEF Inv, Shape, RequestShape
<1> HIDE DEF Cut
<1>3. \A c \in Client :
        /\ conn'[c] = IF c \in Connections THEN "none" ELSE conn[c]
        /\ Cut(c, told) => /\ request'[c].work = "crashed" /\ request'[c].ending = request[c].ending
                           /\ request'[c].watch = "off"
        /\ ~Cut(c, told) => request'[c] = request[c]
        /\ replies'[c] = IF Cut(c, told) /\ ~Closed(c) THEN Append(told[c], "closed") ELSE replies[c]
  BY <1>1 DEF Idle
<1>4. ASSUME NEW c \in Client, Cut(c, told)
      PROVE  /\ told[c] \in Seq(Replies) /\ Append(told[c], "closed") \in Seq(Replies)
             /\ \A e : Says(replies[c], e) => Says(Append(told[c], "closed"), e)
  <2>1. "closed" \in Replies /\ ~Ended("closed")
    BY DEF Replies, Ended, Endings
  <2>2. told[c] \in Written(c) /\ replies[c] \in Seq(Replies)
    BY <1>1, <1>4 DEF Cut
  <2>3. told[c] \in Seq(Replies) /\ \A e : Says(replies[c], e) => Says(told[c], e)
    BY <2>2, WrittenSays
  <2> QED BY ONLY <2>1, <2>3, OneMore
<1>5. Shape'
  <2>1. DaemonShape'
    BY <1>2 DEF Down, Booting, DaemonShape
  <2>2. RequestShape'
    BY <1>1 DEF Idle, Endings
  <2>3. calls' \in [Client -> Seq(Controls)] /\ DOMAIN conn' = Client
    <3>1. \A c \in Client : calls[c] \in Seq(Controls) /\ <<>> \in Seq(Controls)
      OBVIOUS
    <3> QED BY <1>1, <3>1
  <2>4. replies' \in [Client -> Seq(Replies)]
    BY <1>1, <1>4
  <2> QED BY <1>2, <2>1, <2>2, <2>3, <2>4 DEF ClientShape
<1>6. Open'
  BY <1>3 DEF Open, Connections
<1>7. ASSUME NEW c \in Client PROVE Attended(c)' /\ Answered(c)'
  <2>0. Attended(c) /\ Answered(c) /\ Closed(c)' = Closed(c)
    BY <1>2 DEF Closed
  <2>1. CASE Cut(c, told)
    <3>1. Says(replies'[c], request[c].ending)
      BY <1>3, <1>4, <2>0, <2>1 DEF Answered
    <3>2. client[c].at \notin {"away", "greeting", "asking"}
      BY <2>0, <2>1 DEF Attended, Cut
    <3> QED BY <1>2, <1>3, <2>0, <2>1, <3>1, <3>2 DEF Attended, Answered, InProgress
  <2>2. CASE ~Cut(c, told)
    <3>1. request'[c] = request[c] /\ replies'[c] = replies[c] /\ client'[c] = client[c]
      BY <1>2, <1>3, <2>2
    <3>2. InProgress(c) => conn'[c] = conn[c]
      BY <1>3, <2>2 DEF InProgress, Cut
    <3> QED BY <2>0, <3>1, <3>2 DEF Attended, Answered, InProgress
  <2> QED BY <2>1, <2>2
<1> QED BY <1>5, <1>6, <1>7

-----------------------------------------------------------------------------
LEMMA NextInv == ASSUME Inv, [Next]_vars PROVE Inv'
<1>1. ASSUME NEW c \in Client,
             Starts(c) \/ Unreachable(c) \/ ClientRuns(c) \/ Unwritten(c) \/ Killed(c)
             \/ \E signal \in {"INT", "TERM", "TSTP", "CONT"} :
                    Signalled(c, signal) \/ SignalledAsleep(c, signal)
      PROVE  Inv'
  BY <1>1, ClientInv, ReadsInv, SignalInv DEF ClientRuns, Notices, Signalled, Signals
<1>2. ASSUME NEW c \in Client, WorkerRuns(c) PROVE Inv'
  BY <1>2, WorkerInv, EndsInv, ReturnsInv DEF WorkerRuns
<1>3. ASSUME DaemonRuns \/ Fails PROVE Inv'
  BY <1>3, AcceptsInv, DaemonInv DEF DaemonRuns
<1>4. CASE UNCHANGED vars
  <2>1. Shape' /\ Open' /\ \A d \in Client : Same(d)
    BY <1>4 DEF vars, Inv, Shape, DaemonShape, ClientShape, RequestShape, Open, Same
  <2> QED BY <2>1, Elsewhere
<1> QED BY <1>1, <1>2, <1>3, <1>4, ToldInv, CrashesInv DEF Next

(* The inductive invariant.                                                *)
THEOREM HostInvariant == Spec => []Inv
<1>1. Init => Inv
  BY InitInv
<1>2. Inv /\ [Next]_vars => Inv'
  BY NextInv
<1> QED BY <1>1, <1>2, PTL DEF Spec

(* serve() and serve_connection(): the daemon ends after every request it  *)
(* took on, also after one whose client is gone or that began after the    *)
(* signal to stop.                                                         *)
THEOREM DaemonWaits == Spec => []NobodyIsAbandoned
<1>1. Inv => NobodyIsAbandoned
  BY DEF Inv, Open, Attended, NobodyIsAbandoned
<1> QED BY <1>1, HostInvariant, PTL

(* replay() and host(): the exit code of a client is the end of its        *)
(* request, and "the worker ended early" is said only when it crashed.     *)
THEOREM ExitCodesAreTrue == Spec => []AnswersAreTrue
<1>1. Inv => AnswersAreTrue
  BY DEF Inv, Answered, Ended, Endings, AnswersAreTrue
<1> QED BY <1>1, HostInvariant, PTL
=============================================================================
