------------------------------- MODULE Nixlog -------------------------------
(***************************************************************************)
(* Following a running nix: its standard error is read in chunks cut       *)
(* anywhere, split into lines, folded into counters and reported, and its  *)
(* end is kept to explain a failure with                                   *)
(* (crates/shell/src/effect/exec/output.rs, crates/nixlog/src/lib.rs).     *)
(*                                                                         *)
(* The bytes are symbols: white space, the ends of lines, the phrases a    *)
(* failure is recognised by, the prefix "@nix" with its space, and a whole *)
(* JSON payload, which is the name of a record.  Names of packages and     *)
(* files are left out of failures, and sizes are in tenths of their unit.  *)
(***************************************************************************)
EXTENDS Integers, Sequences, FiniteSets, TLC

CONSTANTS
    RecordOf,   \* payload -> [action, id, level, type, text, msg, fields]
    PlanOf,     \* a sentence of nix's plan -> [what, count, size]
    Writes,     \* lines nix may write, the last of them ended or not
    Cap,        \* STREAM_TAIL, 64 KiB in the code
    MaxWrites   \* bound: what nix writes

VARIABLES
    sent,       \* every symbol nix has written
    wire,       \* those not read yet
    drain,      \* StreamDrain, and the lines its splitter handed over
    phase,      \* "Running"; "Over" once the pipe is closed and read
    writes      \* how often nix has written

logVars == <<sent, wire, drain, phase, writes>>

None == "none"
Unsaid == -1      \* a count the plan does not give
White == {" ", "nl", "cr"}
Max2(a, b) == IF a > b THEN a ELSE b
Over0(a, b) == Max2(a - b, 0)       \* saturating_sub
Last(s, n) == SubSeq(s, Max2(Len(s) - n, 0) + 1, Len(s))

trim(s) ==
    LET ink == {i \in DOMAIN s : s[i] \notin White}
        first == CHOOSE i \in ink : \A j \in ink : i <= j
        last == CHOOSE i \in ink : \A j \in ink : j <= i
    IN IF ink = {} THEN <<>> ELSE SubSeq(s, first, last)

-----------------------------------------------------------------------------
(* The log: counters by kind of activity, and the plan.                    *)

ACT_COPY_PATH == 100
ACT_BUILD == 105
RES_PROGRESS == 105
LVL_INFO == 3
MAX_FIELDS == 4

TRACKED == (101 :> "transfer") @@ (103 :> "downloads") @@ (104 :> "builds")

ints(fields, n) ==
    IF n < MAX_FIELDS /\ n < Len(fields) /\ fields[n + 1][1] = "Int" THEN Max2(fields[n + 1][2], 0) ELSE 0

text_of(fields) ==
    CASE fields = <<>> -> None
      [] OTHER -> CASE fields[1][1] = "Text" -> fields[1][2]
                    [] fields[1][1] = "Escaped" -> ""
                    [] OTHER -> None

Powers == [KiB |-> 1024, MiB |-> 1024 * 1024]       \* and on to EiB

size(s) == IF s[2] \in DOMAIN Powers THEN (s[1] * Powers[s[2]]) \div 10 ELSE Unsaid

(* A sentence with a count that is no number, or a size without its unit,  *)
(* takes back what an earlier one said; no other message changes the plan. *)
read_plan(plan, msg) ==
    IF Len(msg) # 1 \/ msg[1] \notin DOMAIN PlanOf THEN plan
    ELSE LET said == PlanOf[msg[1]]
         IN CASE said.what = "builds" -> [plan EXCEPT !.builds = said.count]
              [] said.what = "fetches" ->
                   [plan EXCEPT !.fetches = said.count,
                                !.bytes = IF said.size = <<>> THEN @ ELSE size(said.size)]

Counts == [finished |-> 0, live |-> 0, running |-> 0]

NewLog == [live |-> <<>>, structured |-> FALSE,
           totals |-> [k \in {"transfer", "downloads", "builds"} |-> Counts],
           plan |-> [builds |-> Unsaid, fetches |-> Unsaid, bytes |-> Unsaid]]

done(t) == t.finished + t.live
expected(planned, t) == IF planned = Unsaid THEN 0 ELSE Max2(planned, done(t))

snapshot(log) ==
    LET t == log.totals
    IN [builds |-> <<done(t.builds), expected(log.plan.builds, t.builds), t.builds.running>>,
        downloads |-> <<done(t.downloads), expected(log.plan.fetches, t.downloads), t.downloads.running>>,
        bytes |-> <<done(t.transfer), expected(log.plan.bytes, t.transfer)>>]

Saying(log, event) == [log |-> log, event |-> event]
Ignored == <<"ignored">>
Progressed(log) == Saying(log, <<"progress", snapshot(log)>>)

start(log, r) ==
    CASE r.type = ACT_BUILD /\ text_of(r.fields) # None -> Saying(log, <<"building", text_of(r.fields)>>)
      [] r.type = ACT_COPY_PATH ->
           Saying(log, IF text_of(r.fields) = None THEN Ignored ELSE <<"fetching", text_of(r.fields)>>)
      [] r.type \in DOMAIN TRACKED ->
           Progressed([log EXCEPT !.live = (r.id :> [slot |-> TRACKED[r.type], done |-> 0, running |-> 0]) @@ @])
      [] OTHER -> Saying(log, IF r.level <= LVL_INFO /\ r.text # <<>> THEN <<"transient", r.text>> ELSE Ignored)

stop(log, id) ==
    IF id \notin DOMAIN log.live THEN Saying(log, Ignored)
    ELSE LET a == log.live[id]
         IN Progressed([log EXCEPT !.live = [i \in DOMAIN @ \ {id} |-> @[i]],
                                   !.totals[a.slot] = [finished |-> @.finished + a.done,
                                                       live |-> Over0(@.live, a.done),
                                                       running |-> Over0(@.running, a.running)]])

(* Mutant: what was reported before is counted again.                      *)
report_progress_again(log, id, fields) ==
    IF id \notin DOMAIN log.live THEN Saying(log, Ignored)
    ELSE LET a == log.live[id]
             now == [slot |-> a.slot, done |-> ints(fields, 0), running |-> ints(fields, 2)]
         IN Progressed([log EXCEPT !.live[id] = now,
                                   !.totals[a.slot] = [finished |-> @.finished, live |-> @.live + now.done,
                                                       running |-> @.running + now.running]])

report_progress(log, id, fields) ==
    IF id \notin DOMAIN log.live THEN Saying(log, Ignored)
    ELSE LET a == log.live[id]
             now == [slot |-> a.slot, done |-> ints(fields, 0), running |-> ints(fields, 2)]
         IN Progressed([log EXCEPT !.live[id] = now,
                                   !.totals[a.slot] = [finished |-> @.finished,
                                                       live |-> Over0(@.live, a.done) + now.done,
                                                       running |-> Over0(@.running, a.running) + now.running]])

is_record(line) == Len(line) = 2 /\ line[1] = "@nix" /\ line[2] \in DOMAIN RecordOf

observe_record(log, r) ==
    CASE r.action = "start" -> start(log, r)
      [] r.action = "stop" -> stop(log, r.id)
      [] r.action = "result" /\ r.type = RES_PROGRESS -> report_progress(log, r.id, r.fields)
      [] r.action = "msg" /\ r.level <= LVL_INFO /\ r.msg # <<>> ->
           Saying([log EXCEPT !.plan = read_plan(@, r.msg)], <<"message", r.msg>>)
      [] OTHER -> Saying(log, Ignored)

observe(log, line) ==
    IF is_record(line) THEN observe_record([log EXCEPT !.structured = TRUE], RecordOf[line[2]])
    ELSE Saying(log, <<"plain", line>>)

-----------------------------------------------------------------------------
(* What is kept to explain a failure with.                                 *)

NewTail == [buf |-> <<>>, truncated |-> FALSE]
compact(t) == IF Len(t.buf) > 2 * Cap THEN [buf |-> Last(t.buf, Cap), truncated |-> TRUE] ELSE t
extend(t, chunk) == compact([t EXCEPT !.buf = @ \o chunk])
push_line(t, line) == extend(t, line \o <<"nl">>)
into_bytes(t) == IF t.truncated THEN <<"omitted", "nl">> \o t.buf ELSE t.buf

without_escapes(s) == SelectSeq(s, LAMBDA c : c # "escape")

(* Where an error begins, and the text from there to the next one.         *)
Starts(s) == {i \in DOMAIN s : s[i] = "error:" /\ (i > 1 => s[i - 1] \in White)}
ErrorFrom(s, i) ==
    LET later == {j \in Starts(s) : j > i}
        next == IF later = {} THEN Len(s) + 1 ELSE CHOOSE j \in later : \A k \in later : j <= k
    IN {s[k] : k \in i .. (next - 1)}

failure_of(error) ==
    CASE "cannot build" \in error -> "Build"
      [] "cannot build" \notin error /\ "attribute missing" \in error -> "UnknownPackage"
      [] {"cannot build", "attribute missing"} \cap error = {} /\ "unable to download" \in error -> "Download"
      [] OTHER -> None

nix_error(tail) ==
    LET s == without_escapes(tail)
        starts == Starts(s)
        last == CHOOSE i \in starts : \A j \in starts : j <= i
    IN CASE starts = {} -> None
         [] \E i \in starts : "disk full" \in ErrorFrom(s, i) -> "DiskFull"
         [] \E i \in starts : "collision" \in ErrorFrom(s, i) -> "Collision"
         [] OTHER -> failure_of(ErrorFrom(s, last))

-----------------------------------------------------------------------------
(* The drain.                                                              *)

NewDrain == [partial |-> <<>>, tail |-> NewTail, decoded |-> NewTail, log |-> NewLog,
             lines |-> <<>>, told |-> <<>>, explained |-> <<>>]

report(d, line) ==
    LET seen == observe(d.log, line)
        kept == CASE seen.event[1] = "message" -> push_line(d.decoded, seen.event[2])
                  [] seen.event[1] = "plain" /\ seen.log.structured -> push_line(d.decoded, line)
                  [] OTHER -> d.decoded
    IN [d EXCEPT !.log = seen.log, !.decoded = kept, !.lines = Append(@, line),
                 !.told = IF seen.event[1] = "progress" THEN <<seen.event[2]>> ELSE @]

emit(d, line) == IF trim(line) = <<>> THEN d ELSE report(d, trim(line))

(* The ends of lines in s.                                                 *)
line_end(s) == {i \in DOMAIN s : s[i] \in {"nl", "cr"}}

EmitAll(d, s) ==
    LET ends == line_end(s) \cup {0}
        Before(i) == CHOOSE j \in ends : j < i /\ \A k \in ends : k < i => k <= j
        upTo[i \in 0 .. Len(s)] ==
            IF i = 0 THEN d
            ELSE IF i \in ends THEN emit(upTo[i - 1], SubSeq(s, Before(i) + 1, i - 1))
            ELSE upTo[i - 1]
    IN upTo[Len(s)]

Rest(s) == SubSeq(s, 1 + Cardinality({i \in DOMAIN s : \E j \in line_end(s) : i <= j}), Len(s))

split(d, s) ==
    LET e == EmitAll(d, s)
    IN IF Len(Rest(s)) > Cap THEN [emit(e, Rest(s)) EXCEPT !.partial = <<>>]
       ELSE [e EXCEPT !.partial = Rest(s)]

push(d, chunk) ==
    LET kept == IF d.log.structured THEN d ELSE [d EXCEPT !.tail = extend(@, chunk)]
        e == split(kept, d.partial \o chunk)
    IN IF e.log.structured THEN [e EXCEPT !.tail = NewTail] ELSE e

finish(d) ==
    LET e == IF d.partial = <<>> THEN d ELSE [emit(d, d.partial) EXCEPT !.partial = <<>>]
    IN [e EXCEPT !.explained = into_bytes(IF e.log.structured THEN e.decoded ELSE e.tail)]

-----------------------------------------------------------------------------
LogInit ==
    /\ sent = <<>> /\ wire = <<>>
    /\ drain = NewDrain
    /\ phase = "Running" /\ writes = 0

IsEnded(line) == line[Len(line)] \in {"nl", "cr"}
RecordIn(line) == IF Len(line) > 1 /\ is_record(SubSeq(line, 1, 2)) THEN {RecordOf[line[2]]} ELSE {}

(* The activities nix has under way, by what it has written.               *)
Lines(s) ==
    LET ends == line_end(s)
    IN {<<i, trim(SubSeq(s, i, j - 1))>> :
          <<i, j>> \in {p \in (DOMAIN s) \X ends : /\ p[1] = 1 \/ p[1] - 1 \in ends
                                                  /\ p[1] <= p[2] /\ \A k \in ends : k < p[1] \/ k >= p[2]}}
Spoken(s) == {<<l[1], RecordOf[l[2][2]]>> : l \in {m \in Lines(s) : is_record(m[2])}}
Under(s, id) ==
    \E l \in Spoken(s) : /\ l[2].action = "start" /\ l[2].id = id
                         /\ \A m \in Spoken(s) : m[1] > l[1] /\ m[2].action = "stop" => m[2].id # id

(* nix writes; it numbers no two activities under way alike, and after a   *)
(* line without an end it writes no more.                                  *)
NixWrites ==
    /\ phase = "Running"
    /\ sent # <<>> => IsEnded(sent)
    /\ writes < MaxWrites /\ writes' = writes + 1
    /\ \E line \in Writes :
         /\ \A r \in RecordIn(line) : r.action = "start" => ~Under(sent, r.id)
         /\ sent' = sent \o line
         /\ wire' = wire \o line
    /\ UNCHANGED <<drain, phase>>

Read ==
    /\ phase = "Running"
    /\ \E n \in 1 .. Len(wire) :
         /\ drain' = push(drain, SubSeq(wire, 1, n))
         /\ wire' = SubSeq(wire, n + 1, Len(wire))
    /\ UNCHANGED <<sent, phase, writes>>

(* nix is gone and its end of the pipe is closed.                          *)
Finish ==
    /\ phase = "Running" /\ wire = <<>>
    /\ drain' = finish(drain)
    /\ phase' = "Over"
    /\ UNCHANGED <<sent, wire, writes>>

LogNext == NixWrites \/ Read \/ Finish
LogSpec == LogInit /\ [][LogNext]_logVars

-----------------------------------------------------------------------------
Taken == SubSeq(sent, 1, Len(sent) - Len(wire))

(* A line longer than Cap, written with one symbol, may come in pieces.    *)
Short(lines) == SelectSeq(lines, LAMBDA l : l # <<>> /\ l[1] # "long")

InOrder(lines) ==
    LET at(n) == CHOOSE l \in lines : Cardinality({m \in lines : m[1] < l[1]}) = n - 1
    IN [n \in 1 .. Cardinality(lines) |-> at(n)[2]]

(* Wherever the chunks are cut, and at carriage returns too, every line of *)
(* up to Cap symbols is handed over whole, once and in order, and nothing  *)
(* of a longer one is lost.                                                *)
LinesComeWhole ==
    LET whole == IF phase = "Over" THEN Taken \o <<"nl">> ELSE Taken
        longs(s) == Cardinality({i \in DOMAIN s : s[i] = "long"})
        told[n \in 0 .. Len(drain.lines)] == IF n = 0 THEN 0 ELSE longs(drain.lines[n]) + told[n - 1]
    IN /\ Short(drain.lines) = Short(InOrder(Lines(whole)))
       /\ told[Len(drain.lines)] + longs(drain.partial) = longs(Taken)

(* What the counters show is what nix said of each activity last: of every *)
(* one ever started what is done, of those under way what is running; late *)
(* reports and stops of activities unknown or over count for nothing, and  *)
(* an activity started again under an old number counts anew.              *)
CountersAreExact ==
    LET lines == drain.lines
        Heard == {n \in DOMAIN lines : is_record(lines[n])}
        rec(n) == RecordOf[lines[n][2]]
        Begun(kind) == {n \in Heard : rec(n).action = "start" /\ rec(n).type \in DOMAIN TRACKED
                                       /\ TRACKED[rec(n).type] = kind}
        Stops(n) == {m \in Heard : m > n /\ rec(m).action = "stop" /\ rec(m).id = rec(n).id}
        Reports(n) == {m \in Heard : /\ m > n /\ rec(m).action = "result" /\ rec(m).type = RES_PROGRESS
                                     /\ rec(m).id = rec(n).id /\ \A k \in Stops(n) : m < k}
        Latest(n, field) ==
            IF Reports(n) = {} THEN 0
            ELSE ints(rec(CHOOSE m \in Reports(n) : \A k \in Reports(n) : k <= m).fields, field)
        Sum(ns, field) ==
            LET total[n \in 0 .. Len(lines)] ==
                    IF n = 0 THEN 0 ELSE total[n - 1] + IF n \in ns THEN Latest(n, field) ELSE 0
            IN total[Len(lines)]
        shown == snapshot(drain.log)
    IN /\ shown.builds[1] = Sum(Begun("builds"), 0)
       /\ shown.builds[3] = Sum({n \in Begun("builds") : Stops(n) = {}}, 2)
       /\ shown.downloads[1] = Sum(Begun("downloads"), 0)
       /\ shown.downloads[3] = Sum({n \in Begun("downloads") : Stops(n) = {}}, 2)
       /\ shown.bytes[1] = Sum(Begun("transfer"), 0)
       /\ drain.told # <<>> =>
            LET t == drain.told[1]
            IN t = [shown EXCEPT !.builds[2] = t.builds[2], !.downloads[2] = t.downloads[2], !.bytes[2] = t.bytes[2]]

Means == [c \in {"cannot build", "attribute missing", "unable to download", "disk full", "collision"} |->
            CASE c = "cannot build" -> "Build" [] c = "attribute missing" -> "UnknownPackage"
              [] c = "unable to download" -> "Download" [] c = "disk full" -> "DiskFull"
              [] c = "collision" -> "Collision"]

(* What explains a failure is the end of what nix said: all of it or at    *)
(* least Cap symbols, and of a stream of records the messages rather than  *)
(* the records.  The last error, when it fits, is the one that is named,   *)
(* unless one before it says that the disk is full or packages collide.    *)
FailureIsExplained ==
    phase = "Over" =>
        LET lines == drain.lines
            Heard == {n \in DOMAIN lines : is_record(lines[n])}
            first == CHOOSE n \in Heard : \A m \in Heard : n <= m
            words(n) ==
                IF n \notin Heard THEN lines[n] \o <<"nl">>
                ELSE LET r == RecordOf[lines[n][2]]
                     IN IF r.action = "msg" /\ r.level <= LVL_INFO /\ r.msg # <<>> THEN r.msg \o <<"nl">> ELSE <<>>
            after[n \in 0 .. Len(lines)] ==
                IF n = 0 THEN <<>> ELSE IF n < first THEN <<>> ELSE after[n - 1] \o words(n)
            said == IF Heard = {} THEN sent ELSE after[Len(lines)]
            kept == IF drain.explained # <<>> /\ drain.explained[1] = "omitted"
                    THEN SubSeq(drain.explained, 3, Len(drain.explained)) ELSE drain.explained
            Errors == {i \in DOMAIN said : said[i] = "error:" /\ (i > 1 => said[i - 1] \in White \cup {"escape"})}
            last == CHOOSE i \in Errors : \A j \in Errors : j <= i
            signs == {said[i] : i \in last .. Len(said)} \cap DOMAIN Means
            named == nix_error(drain.explained)
        IN /\ kept = Last(said, Len(kept))
           /\ Len(kept) >= IF Len(said) < Cap THEN Len(said) ELSE Cap
           /\ kept # said => drain.explained # kept
           /\ Errors # {} /\ Len(said) - last < Cap /\ Cardinality(signs) = 1 /\ named \notin {"DiskFull", "Collision"}
                => named = Means[CHOOSE c \in signs : TRUE]
=============================================================================
