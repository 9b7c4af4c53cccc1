------------------------- MODULE NotificationStream -------------------------
(***************************************************************************)
(* The way of a detector notification from the NimBLE callback to the      *)
(* alert table (modules/ble/ble_queue_module.cpp, packet_parser_alerts.cpp, *)
(* the alert input of ble_client.h).                                       *)
(*                                                                         *)
(* The detector sends one alert table after another, a table row by row;   *)
(* rows carry an index and a count but nothing that names their table.     *)
(* A row may come in two pieces on the short characteristic, or in one     *)
(* chunk of the long one, where replies of two chunks come in between.     *)
(* The callback stamps every notification, the queue between callback and  *)
(* loop drops what does not fit, and the loop stages, reassembles and      *)
(* parses.  Two kinds of damage must never reach the mute policy: a table  *)
(* of rows that were not sent together, and trust in a table received      *)
(* before the last loss.                                                   *)
(*                                                                         *)
(* Contents of rows, checksums, ageing of rows (1.5 s), zero-based indices *)
(* and the other packets are left out; a piece without a start byte is     *)
(* recognised as a tail, and a frame pieced together from two frames fails *)
(* to parse.                                                               *)
(***************************************************************************)
EXTENDS Integers, Sequences, FiniteSets, TLC

CONSTANTS Sizes,       \* numbers of rows a table may have
          MaxSent, MaxLinks,   \* bounds: tables and long replies together; links
          Depth,       \* queue depth
          Room,        \* pieces the staging buffer holds
          Budget       \* frames parsed in one pass

Slots == 1 .. 2        \* raw indices of the rows

VARIABLES
    link, made,    \* generation of the link whose notifications are accepted; links made
    feed,          \* what the detector is in the middle of sending
    stamp,         \* v1NotificationIngressSequence_
    callback,      \* the notification in the callback, past its first check
    queue,         \* queueHandle_
    session,       \* acceptNotifications_ and sessionGeneration_ of the queue
    input,         \* alertInputSession_, alertInputLossIngress_, alertInputContinuous_
    rx,            \* rxBuffer_ from rxReadPos_, with rxDiscontinuities_
    long,          \* longRx_
    flags,         \* longRxNeedsStart_, pendingStreamDiscontinuity_, lastDequeuedIngressSequence_
    pass,          \* where process() is
    parser,        \* partial rows, alertResyncRequired_, alertTableObserved_, published rows
    lost,          \* the last notification of this session the queue dropped
    mark           \* what became of the mark of a loss, see Swallowed
radio == <<link, made, feed, stamp>>
staging == <<rx, long, flags>>
vars == <<radio, callback, queue, session, input, staging, pass, parser, lost, mark>>

NoRow == [t |-> 0, n |-> 0, seq |-> 0]
NoLong == [count |-> 0, parts |-> {}, seq |-> 0, gap |-> FALSE, end |-> 0]
NoFlags == [start |-> FALSE, pending |-> FALSE, last |-> 0]
Idle == [at |-> "idle", blocked |-> FALSE, left |-> 0]
\* resetAlertState
NoAlerts == [cache |-> [i \in Slots |-> NoRow], resync |-> FALSE,
             observed |-> FALSE, shown |-> {}]

Init == /\ link = 0 /\ made = 0 /\ stamp = 0
        /\ feed = [t |-> 0, i |-> 0, n |-> 0, ch |-> "short", tail |-> FALSE,
                   replies |-> 0, chunk |-> FALSE]
        /\ callback = << >> /\ queue = << >>
        /\ session = [open |-> FALSE, gen |-> 0]
        /\ input = [gen |-> 0, loss |-> 0, ok |-> FALSE]
        /\ rx = << >> /\ long = NoLong /\ flags = NoFlags
        /\ pass = Idle /\ parser = NoAlerts /\ lost = 0 /\ mark = "set"
-----------------------------------------------------------------------------
(* The callback, on the NimBLE host task                                   *)

\* mutant: any notification of an open session is taken.
AnyGeneration(gen) == session.open
Live(gen) == session = [open |-> TRUE, gen |-> gen]

\* notifyCallback and the first check of tryOnNotify
Notify(f) ==
    /\ callback = << >>
    /\ stamp' = stamp + 1
    /\ callback' = IF Live(link) THEN <<f @@ [gen |-> link, seq |-> stamp + 1]>> ELSE << >>
    /\ UNCHANGED <<link, made, queue, session, input, staging, pass, parser, lost, mark>>

\* mutant: a loss is left to the loop, which meets the gap later.
LeftToTheLoop(gen, seq) == input
NoteLoss(gen, seq) ==
    IF gen # 0 /\ gen = input.gen
    THEN [input EXCEPT !.ok = FALSE,
                       !.loss = IF input.ok \/ @ = 0 \/ seq > @ THEN seq ELSE @]
    ELSE input

\* the recheck before the packet is published: the session may have closed before it
\* or after it
Refused == /\ callback # << >> /\ ~Live(callback[1].gen) /\ callback' = << >>
           /\ UNCHANGED <<radio, queue, session, input, staging, pass, parser, lost, mark>>
\* xQueueSend and what follows it
Send ==
    /\ callback # << >> /\ callback' = << >>
    /\ LET f == callback[1]
       IN \/ /\ Len(queue) < Depth /\ queue' = Append(queue, f)
             /\ UNCHANGED <<input, lost>>
          \/ /\ Len(queue) >= Depth
             /\ input' = NoteLoss(f.gen, f.seq)
             /\ lost' = IF Live(f.gen) THEN f.seq ELSE lost
             /\ UNCHANGED queue
    /\ UNCHANGED <<radio, session, staging, pass, parser, mark>>
-----------------------------------------------------------------------------
(* The detector (external): tables begin when the open session asks for    *)
(* alerts, and are sent whole                                              *)

Row(of, ch) == [kind |-> "row", t |-> feed'.t, i |-> feed'.i, n |-> feed'.n,
                ch |-> ch, part |-> 1, of |-> of]
SendsRow ==
    \E of \in 1 .. 2 :
      /\ link # 0 /\ Live(link) /\ ~feed.tail
      /\ \/ /\ feed.i < feed.n
            /\ feed' = [feed EXCEPT !.i = @ + 1, !.tail = of = 2]
         \/ /\ feed.i = feed.n /\ feed.t + feed.replies < MaxSent
            /\ \E n \in Sizes, ch \in {"short", "long"} :
                 feed' = [feed EXCEPT !.t = @ + 1, !.i = IF n = 0 THEN 0 ELSE 1,
                                      !.n = n, !.ch = ch, !.tail = of = 2]
      /\ feed'.ch = "long" => (of = 1 /\ ~feed.chunk)
      /\ Notify(Row(of, feed'.ch))
SendsTail ==
    /\ link # 0 /\ feed.tail
    /\ feed' = [feed EXCEPT !.tail = FALSE]
    /\ Notify([Row(2, "short") EXCEPT !.part = 2])
SendsReply ==
    /\ link # 0 /\ (feed.chunk \/ feed.t + feed.replies < MaxSent)
    /\ feed' = [feed EXCEPT !.chunk = ~@, !.replies = IF feed.chunk THEN @ ELSE @ + 1]
    /\ Notify([kind |-> "reply", t |-> feed'.replies, i |-> 0, n |-> 0, ch |-> "long",
               part |-> IF feed.chunk THEN 2 ELSE 1, of |-> 2])

LinkUp == /\ link = 0 /\ made < MaxLinks
          /\ made' = made + 1 /\ link' = made + 1
          /\ UNCHANGED <<feed, stamp, callback, queue, session, input, staging, pass,
                         parser, lost, mark>>
LinkDown == /\ link # 0 /\ link' = 0
            /\ feed' = [feed EXCEPT !.i = feed.n, !.tail = FALSE, !.chunk = FALSE]
            /\ UNCHANGED <<made, stamp, callback, queue, session, input, staging, pass,
                           parser, lost, mark>>
-----------------------------------------------------------------------------
(* The session, between two passes of the loop                             *)

\* closeSession, with the resets of the connection state module
Cleared == /\ queue' = << >> /\ rx' = << >> /\ long' = NoLong /\ flags' = NoFlags
           /\ parser' = NoAlerts /\ lost' = 0 /\ mark' = "set"
           /\ UNCHANGED <<radio, callback, pass>>
CloseSession == /\ pass = Idle /\ session.open /\ link # session.gen
                /\ session' = [session EXCEPT !.open = FALSE]
                /\ input' = [gen |-> 0, loss |-> 0, ok |-> FALSE]
                /\ Cleared
OpenSession == /\ pass = Idle /\ ~session.open /\ link # 0
               /\ session' = [open |-> TRUE, gen |-> link]
               /\ input' = [gen |-> link, loss |-> 0, ok |-> TRUE]
               /\ Cleared
-----------------------------------------------------------------------------
(* The parser                                                              *)

\* mutant: a gap withdraws the freshness only.
OnlyStale(p) == [p EXCEPT !.observed = FALSE]
\* markAlertStreamDiscontinuous
Marked(p) == [p EXCEPT !.cache = NoAlerts.cache, !.resync = TRUE, !.observed = FALSE]

\* publication: a complete table supersedes every partial candidate
Published(p, rows) == [p EXCEPT !.cache = NoAlerts.cache, !.observed = TRUE, !.shown = rows]

\* parseAlertData
WithRow(p, f) ==
    LET cache == [p.cache EXCEPT ![f.i] = [t |-> f.t, n |-> f.n, seq |-> f.seq]]
    IN IF f.n = 0 THEN [Published(p, {[t |-> f.t, n |-> 0, seq |-> f.seq]}) EXCEPT !.resync = FALSE]
       ELSE IF p.resync /\ f.i # 1 THEN p
       ELSE IF p.cache[f.i].n = f.n /\ p.cache[f.i].seq > f.seq THEN [p EXCEPT !.resync = FALSE]
       ELSE IF \A j \in 1 .. f.n : cache[j].n = f.n
            THEN Published([p EXCEPT !.resync = FALSE], {cache[j] : j \in 1 .. f.n})
            ELSE [p EXCEPT !.resync = FALSE, !.cache = cache]

\* qualifyV1AlertInput
Qualified(p, f) ==
    IF /\ p.observed /\ ~p.resync /\ ~input.ok
       /\ input.gen = session.gen /\ f.seq > input.loss
    THEN [input EXCEPT !.ok = TRUE] ELSE input

\* The mark of a loss is set when the parser clears its rows for it.  It is swallowed
\* when the flag of the gap rests with an unfinished long assembly, or when a resync
\* passes it before the long frame held in front of it is parsed; rows parsed
\* meanwhile are used unmarked.
Swallowed(m) == IF m = "set" THEN "swallowed" ELSE "used"
AfterMark(m) == IF m = "swallowed" THEN "set" ELSE IF m = "used" THEN "stale" ELSE m
AfterRow(m, p) == IF m = "swallowed" THEN "used"
                  ELSE IF m = "stale" /\ p.shown # parser.shown THEN "set" ELSE m

Marks == parser' = Marked(parser) /\ mark' = AfterMark(mark) /\ UNCHANGED input
\* one frame into the parser, behind a gap or not
Parse(f, gap) ==
    LET before == IF gap THEN Marked(parser) ELSE parser
        m == IF gap THEN AfterMark(mark) ELSE mark
    IN IF f.kind = "row"
       THEN /\ parser' = WithRow(before, f)
            /\ mark' = AfterRow(m, parser')
            /\ input' = Qualified(parser', f)
       ELSE parser' = before /\ mark' = m /\ UNCHANGED input
-----------------------------------------------------------------------------
(* process(): staging                                                      *)

LongComplete == long.count # 0 /\ Cardinality(long.parts) = long.count
LongFrame(l) == [(CHOOSE f \in l.parts : f.part = 1) EXCEPT !.of = 1, !.seq = l.seq]
Flushed(l, gap) == <<[f |-> LongFrame(l), gap |-> gap]>>

BeginPass ==
    /\ pass = Idle
    /\ pass' = [at |-> "stage", blocked |-> FALSE, left |-> Budget]
    /\ IF LongComplete /\ rx = << >>
       THEN /\ rx' = Flushed(long, long.gap \/ flags.pending)
            /\ long' = NoLong /\ flags' = [flags EXCEPT !.pending = FALSE]
       ELSE UNCHANGED staging
    /\ UNCHANGED <<radio, callback, queue, session, input, parser, lost, mark>>

\* ingressWouldBeDiscontinuous
Jumps(seq) == flags.last # 0 /\ seq # flags.last /\ seq # flags.last + 1
\* acceptIngressSequence
Kept(seq) == IF Jumps(seq) /\ ~LongComplete THEN NoLong ELSE long

DropStale ==
    /\ pass.at = "stage" /\ queue # << >> /\ ~Live(Head(queue).gen)
    /\ queue' = Tail(queue)
    /\ UNCHANGED <<radio, callback, session, input, staging, pass, parser, lost, mark>>

\* appendLongRxChunk
WithChunk(l, f, gap) ==
    LET alone(g) == [count |-> f.of, parts |-> {f}, seq |-> f.seq, gap |-> g, end |-> 0]
    IN IF l.count = 0 THEN alone(gap)
       ELSE IF l.count # f.of \/ \E x \in l.parts : x.part = f.part THEN alone(TRUE)
       ELSE [l EXCEPT !.parts = @ \cup {f}, !.gap = @ \/ gap]

Acceptable(f) == f.part = 1 \/ ~(flags.start \/ Jumps(f.seq))

StageLong ==
    /\ pass.at = "stage" /\ queue # << >>
    /\ LET f == Head(queue)
           gap == Jumps(f.seq) \/ flags.pending
           l == WithChunk(Kept(f.seq), f, gap)
           whole == Cardinality(l.parts) = l.count
           oneFrame == Cardinality({x.t : x \in l.parts}) = 1
       IN /\ Live(f.gen) /\ f.ch = "long" /\ ~LongComplete
          /\ queue' = Tail(queue)
          /\ \/ /\ ~Acceptable(f)
                /\ long' = Kept(f.seq) /\ UNCHANGED <<rx, mark>>
                /\ flags' = [start |-> TRUE, pending |-> TRUE, last |-> f.seq]
             \/ /\ Acceptable(f)
                /\ flags' = [start |-> FALSE, pending |-> whole /\ ~oneFrame, last |-> f.seq]
                /\ rx' = IF whole /\ oneFrame /\ rx = << >> THEN Flushed(l, l.gap) ELSE rx
                /\ long' = IF ~whole THEN l
                           ELSE IF oneFrame /\ rx # << >> THEN [l EXCEPT !.end = Len(rx)]
                           ELSE NoLong           \* flushed, or its lengths do not fit
                /\ mark' = IF gap /\ ~whole THEN Swallowed(mark) ELSE mark
    /\ UNCHANGED <<radio, callback, session, input, pass, parser, lost>>

StageShort ==
    /\ pass.at = "stage" /\ queue # << >> /\ Len(rx) < Room
    /\ LET f == Head(queue)
       IN /\ Live(f.gen) /\ f.ch = "short"
          /\ rx' = Append(rx, [f |-> f, gap |-> Jumps(f.seq) \/ flags.pending])
          /\ long' = Kept(f.seq)
          /\ flags' = [start |-> flags.start \/ Jumps(f.seq), pending |-> FALSE, last |-> f.seq]
    /\ queue' = Tail(queue)
    /\ UNCHANGED <<radio, callback, session, input, pass, parser, lost, mark>>

\* the queue is empty, the buffer is full, or a complete long frame is in the way
StageEnds ==
    /\ pass.at = "stage"
    /\ \/ /\ queue = << >> /\ pass' = [pass EXCEPT !.at = "parse"]
       \/ /\ queue # << >> /\ Live(Head(queue).gen)
          /\ \/ /\ Head(queue).ch = "long" /\ LongComplete
                /\ pass' = [pass EXCEPT !.at = "parse", !.blocked = TRUE]
             \/ /\ Head(queue).ch = "short" /\ Len(rx) >= Room
                /\ pass' = [pass EXCEPT !.at = "parse"]
    /\ UNCHANGED <<radio, callback, queue, session, input, staging, parser, lost, mark>>
-----------------------------------------------------------------------------
(* process(): parsing                                                      *)

DispatchLong == LongComplete /\ long.end = 0
Drop(n) == /\ rx' = SubSeq(rx, n + 1, Len(rx))
           /\ long' = [long EXCEPT !.end = IF @ > n THEN @ - n ELSE 0]
           /\ UNCHANGED flags
Parses == pass.at = "parse" /\ pass.left > 0
Counted == pass' = [pass EXCEPT !.left = @ - 1]

ParseLong ==
    /\ Parses /\ DispatchLong
    /\ Parse(LongFrame(long), long.gap \/ flags.pending)
    /\ long' = NoLong /\ flags' = [flags EXCEPT !.pending = FALSE] /\ Counted
    /\ UNCHANGED <<radio, callback, queue, session, rx, lost>>

Heads == {k \in 1 .. Len(rx) : rx[k].f.part = 1}
FirstHead == CHOOSE k \in Heads : \A j \in Heads : k <= j
\* no start byte where one is due: on to the next one, past a held long frame if need be
Resync ==
    /\ Parses /\ ~DispatchLong /\ rx # << >> /\ 1 \notin Heads
    /\ LET n == IF Heads = {} THEN Len(rx) ELSE FirstHead - 1
           passed == LongComplete /\ \E k \in long.end + 1 .. n : rx[k].gap
       IN /\ Drop(n) /\ parser' = Marked(parser)
          /\ mark' = IF passed THEN Swallowed(AfterMark(mark)) ELSE AfterMark(mark)
    /\ UNCHANGED <<radio, callback, queue, session, input, pass, lost>>

\* a gap inside the candidate, or a second start where the end is due
Broken(a, b) == b.gap \/ b.f.part = 1

ParseShort ==
    /\ Parses /\ ~DispatchLong /\ 1 \in Heads
    /\ LET a == rx[1]
       IN \/ /\ a.f.of = 1 /\ Parse(a.f, a.gap) /\ Drop(1) /\ Counted
          \/ /\ a.f.of = 2 /\ Len(rx) > 1 /\ Broken(a, rx[2])
             /\ Marks /\ Drop(1) /\ UNCHANGED pass
          \/ /\ a.f.of = 2 /\ Len(rx) > 1 /\ ~Broken(a, rx[2])
             /\ IF [rx[2].f EXCEPT !.part = 1, !.seq = a.f.seq] = a.f
                THEN Parse(a.f, a.gap) ELSE Marks      \* not of one frame: does not parse
             /\ Drop(2) /\ Counted
    /\ UNCHANGED <<radio, callback, queue, session, lost>>

Waiting == /\ pass.left > 0 /\ Len(rx) = 1 /\ rx[1].f.part = 1 /\ rx[1].f.of = 2
           /\ ~DispatchLong
\* mutant: an unfinished short frame is waited for whatever is in its way.
WaitsForTail == FALSE
\* the tail may be queued behind the long frame that waits for it
CircularWait == pass.blocked /\ LongComplete /\ Waiting

EndPass ==
    /\ pass.at = "parse"
    /\ pass.left = 0 \/ (rx = << >> /\ ~DispatchLong) \/ Waiting
    /\ pass' = Idle
    /\ LET marks == \/ CircularWait
                    \/ rx = << >> /\ flags.pending /\ ~LongComplete
           owes == Len(rx) > 0 /\ Waiting /\ rx[1].gap
       IN IF marks \/ owes THEN Marks ELSE UNCHANGED <<parser, mark, input>>
    /\ rx' = IF CircularWait THEN << >> ELSE rx
    /\ long' = IF CircularWait THEN [long EXCEPT !.end = 0] ELSE long
    /\ flags' = IF rx' = << >> /\ ~LongComplete THEN [flags EXCEPT !.pending = FALSE] ELSE flags
    /\ UNCHANGED <<radio, callback, queue, session, lost>>
-----------------------------------------------------------------------------
Process == BeginPass \/ DropStale \/ StageLong \/ StageShort \/ StageEnds
           \/ ParseLong \/ Resync \/ ParseShort \/ EndPass
Next == Refused \/ Send \/ SendsRow \/ SendsTail \/ SendsReply \/ LinkUp \/ LinkDown
        \/ CloseSession \/ OpenSession \/ Process
Spec == Init /\ [][Next]_vars
\* the drive loop runs on
FairSpec == Spec /\ WF_vars(Process)
-----------------------------------------------------------------------------
\* Type correctness; the queue and the staging buffer keep to their sizes.
TypeOK ==
    /\ link \in 0 .. MaxLinks /\ made \in 0 .. MaxLinks /\ stamp \in Nat
    /\ Len(callback) <= 1 /\ Len(queue) <= Depth /\ Len(rx) <= Room
    /\ session \in [open : BOOLEAN, gen : 0 .. MaxLinks]
    /\ input \in [gen : 0 .. MaxLinks, loss : 0 .. stamp, ok : BOOLEAN]
    /\ long.count \in 0 .. 2 /\ Cardinality(long.parts) <= long.count
    /\ long.end \in 0 .. Len(rx) /\ flags.last \in 0 .. stamp
    /\ pass.at \in {"idle", "stage", "parse"} /\ pass.left \in 0 .. Budget
    /\ \A i \in Slots : parser.cache[i].n \in 0 .. 2
    /\ mark \in {"set", "swallowed", "used", "stale"}

\* Nothing of an earlier link is staged or shown: a notification that was still in its
\* callback when its session closed is refused, drained or dropped by its generation
\* (tryOnNotify, openSession, process).
NothingForeign ==
    /\ \A k \in 1 .. Len(rx) : rx[k].f.gen = session.gen
    /\ \A f \in long.parts : f.gen = session.gen

\* A published table consists of rows the detector sent together, whatever the queue
\* dropped in between (the gap handling of process, parseAlertData).  Rows parsed
\* while an unfinished long assembly holds the mark of the loss are excepted.
TablesAreWhole ==
    mark \in {"set", "swallowed"} => Cardinality({r.t : r \in parser.shown}) <= 1

\* The two, with the types.
StreamSafe == TypeOK /\ NothingForeign /\ TablesAreWhole

\* The mute policy trusts the alert input only when the shown table was received
\* whole after the last loss (qualifyV1AlertInput), with the same exception.
TrustNeedsAFreshTable ==
    (input.ok /\ lost # 0 /\ mark \in {"set", "swallowed"}) =>
        parser.shown # {} /\ \A r \in parser.shown : r.seq > lost

\* The comment above qualifyV1AlertInput, without exception: "Gap handling above clears every partial table
\* before post-loss rows enter the parser."
ClearedBeforeRows ==
    /\ Cardinality({r.t : r \in parser.shown}) <= 1
    /\ (input.ok /\ lost # 0) => parser.shown # {} /\ \A r \in parser.shown : r.seq > lost

\* What was queued is taken from the queue: a complete long frame and an unfinished
\* short one never wait for each other (process, the circular wait).
QueueDrains == (queue # << >>) ~> (queue = << >>)
=============================================================================
