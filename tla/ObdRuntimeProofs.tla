--------------------------- MODULE ObdRuntimeProofs ---------------------------
(***************************************************************************)
(* The OBD session, for any adapters, bounds and contexts: SessionSafe,    *)
(* SessionSteps, and that it uses the transport as the fence of ObdFence.  *)
(*                                                                         *)
(* None of this is inductive.  What the states share is the order of a     *)
(* request (queued, running, answered: Orders), that a link is lost once   *)
(* and nobody reconnects before that is known (LinksOnce), which states    *)
(* own a link (Stages), which adapter a state is after (Targets) and is on *)
(* (Peers), and where a pending command's write is (CommandsHeld).         *)
(*                                                                         *)
(* A helper of ObdRuntime maps a session x to a session y; its lemma       *)
(* (...Is) says which of the fields that matter it sets and keeps.  The    *)
(* lemma of a state's update (...Fine) says that y is good if x was.       *)
(***************************************************************************)
EXTENDS ObdRuntime, TLAPS

Fields == { "enabled", "st", "entered", "saved", "target", "fromCand", "cand",
            "manual", "preempt", "scanReq", "found", "scan", "attempts", "healed",
            "lost", "wasWarm", "warm", "coldUsed", "step", "cmd", "data", "errs",
            "cuts", "backoffs", "v1AtIdle", "op", "mine", "queued", "dest",
            "ready", "fence", "fresh" }
Adapter == Address \cup { NoAddress }
CommandType == [ on : BOOLEAN, pending : BOOLEAN, retries : 0..Retries, alt : BOOLEAN ]
ResultType == [ op : TransportOps \cup { None }, ok : BOOLEAN ]

Rec(x) == x = [ fld \in Fields |-> x[fld] ]

\* A session, but for the bound on its connection attempts.
Plain(x) ==
    /\ Rec(x)
    /\ x.enabled \in BOOLEAN /\ x.st \in States /\ x.entered \in BOOLEAN
    /\ x.lost \in BOOLEAN /\ x.scanReq \in BOOLEAN
    /\ x.saved \in Adapter /\ x.target \in Adapter /\ x.fromCand \in BOOLEAN
    /\ x.cand \in Adapter /\ x.manual \in BOOLEAN /\ x.attempts \in Nat
    /\ x.healed \in Adapter
    /\ x.op \in TransportOps \cup { None } /\ x.queued \in TransportOps \cup { None }
    /\ x.mine \in BOOLEAN /\ x.dest \in Adapter /\ x.ready \in ResultType
    /\ x.fence \in BOOLEAN /\ x.fresh \in BOOLEAN
    /\ x.preempt \in BOOLEAN /\ x.found \in Adapter /\ x.scan \in BOOLEAN
    /\ x.wasWarm \in BOOLEAN /\ x.warm \in BOOLEAN /\ x.coldUsed \in BOOLEAN
    /\ x.step \in Nat /\ x.cmd \in CommandType /\ x.data \in Responses \cup { None }
    /\ x.errs \in 0..CutErrors /\ x.cuts \in BOOLEAN /\ x.backoffs \in 0..IdleBackoffs
    /\ x.v1AtIdle \in BOOLEAN

(* What a helper keeps of the session.                                     *)
SamePlace(x, y) ==
    /\ y.enabled = x.enabled /\ y.st = x.st /\ y.entered = x.entered
    /\ y.lost = x.lost /\ y.scanReq = x.scanReq
SameAim(x, y) ==
    /\ y.preempt = x.preempt /\ y.saved = x.saved /\ y.target = x.target
    /\ y.fromCand = x.fromCand /\ y.cand = x.cand /\ y.manual = x.manual
SameTarget(x, y) ==
    SameAim(x, y) /\ y.attempts = x.attempts /\ y.healed = x.healed
SameOrder(x, y) ==
    /\ y.op = x.op /\ y.mine = x.mine /\ y.queued = x.queued /\ y.dest = x.dest
    /\ y.ready = x.ready /\ y.fence = x.fence /\ y.fresh = x.fresh
SameRest(x, y) ==
    /\ y.found = x.found /\ y.scan = x.scan
    /\ y.wasWarm = x.wasWarm /\ y.warm = x.warm /\ y.coldUsed = x.coldUsed
    /\ y.step = x.step /\ y.errs = x.errs
    /\ y.cuts = x.cuts /\ y.backoffs = x.backoffs /\ y.v1AtIdle = x.v1AtIdle
SameCommand(x, y) == y.cmd = x.cmd /\ y.data = x.data

(* What it makes of it.                                                    *)
Cleared(y) ==
    /\ y.preempt = FALSE /\ y.target = NoAddress /\ y.fromCand = FALSE
    /\ y.cand = NoAddress /\ y.manual = FALSE
Closed(y) ==
    /\ y.op = None /\ y.mine = FALSE /\ y.queued = None /\ y.dest = NoAddress
    /\ y.ready = NoResult /\ y.fence = TRUE
Arrived(st, x, y) ==
    /\ y.enabled = x.enabled /\ y.st = st /\ y.entered = TRUE
    /\ y.lost = x.lost /\ y.scanReq = x.scanReq
Moved(st, x, y) ==
    /\ y.enabled = x.enabled /\ y.st = st /\ y.entered = TRUE
    /\ y.lost = FALSE /\ y.scanReq = x.scanReq
Begun(op, x, y) ==
    /\ y.op = op /\ y.queued = op /\ y.mine = FALSE /\ y.ready = NoResult
    /\ y.fence = x.fence /\ y.fresh = FALSE
    /\ y.dest = IF op = "CONNECT" THEN Address0(x) ELSE NoAddress
Taken(x, y) ==
    /\ y.op = x.op /\ y.mine = x.mine /\ y.ready = NoResult
    /\ y.queued = x.queued /\ y.dest = x.dest
    /\ y.fence = x.fence /\ y.fresh = x.fresh
Dropped(x, y) ==
    /\ y.op = None /\ y.mine = FALSE /\ y.ready = NoResult
    /\ y.queued = x.queued /\ y.dest = x.dest
    /\ y.fence = x.fence /\ y.fresh = x.fresh
Quiet(y) == y.cmd = NoCommand /\ y.data = None
-----------------------------------------------------------------------------
(* The inductive invariant.  en says that the state was entered and its    *)
(* update has not run; e that a loss of the link waits to be drained.      *)

\* States that own a link or have just lost it.
Busy == { "DISCOVERING", "AT_INIT", "POLLING", "ERROR_BACKOFF" }

\* The session has handed nothing to the transport that may still act.
Free(x) == x.fence \/ x.fresh

\* A request waits, runs or is answered, and none of these behind a closed
\* fence or on one that has just opened.
Orders(x) ==
    /\ x.queued # None => x.op = x.queued /\ ~x.fence /\ ~x.mine
    /\ x.mine => x.op = run /\ run # None
    /\ x.fence => x.op = None /\ x.ready = NoResult
    /\ x.op # None => x.ready = NoResult
    /\ x.fresh /\ ~x.fence =>
          x.op = None /\ run = None /\ link = "down" /\ ~owes /\ x.ready = NoResult
    /\ x.queued = "CONNECT" =>
          /\ x.st = "CONNECTING" /\ ~x.entered /\ x.ready = NoResult
          /\ link = "down" /\ run = None /\ x.dest = Address0(x)
    /\ x.st = "CONNECTING" => x.op \in { None, "CONNECT" }

\* Between two fences there is one link: once it is lost, or was never made,
\* it is down and no connection waits.
LinksOnce(x, e) ==
    /\ ~Free(x) /\ (x.lost \/ e \/ owes) => link = "down" /\ x.queued # "CONNECT"
    /\ ~x.fence /\ x.ready.op = "CONNECT" /\ ~x.ready.ok => link = "down"
    /\ ~x.fence /\ link = "connecting" =>
          x.st = "CONNECTING" /\ run = "CONNECT" /\ ~x.lost /\ ~e /\ ~owes

\* Which states are free of the transport.
Stages(x, en) ==
    /\ x.st \in Busy => ~Free(x)
    /\ x.st = "CONNECTING" => (en <=> Free(x))
    /\ x.st \in { "WAIT_BOOT", "SCANNING", "ECU_IDLE" } => Free(x)
    /\ x.st = "DISCONNECTED" /\ ~en => Free(x)
    /\ x.st = "IDLE" => Free(x) \/ (link = "down" /\ ~x.scanReq)
    /\ ~x.enabled => Free(x) /\ x.st = "IDLE" /\ ~x.manual
    /\ x.scanReq => x.manual /\ x.st = "IDLE"
    /\ x.st = "SCANNING" => x.manual

\* The target is the candidate of the pairing attempt under way, or the saved
\* adapter; a repaired candidate is the only one with failures counted.
Targets(x) ==
    /\ x.cand # NoAddress => x.manual
    /\ x.fromCand => x.manual /\ x.cand # NoAddress /\ x.target = x.cand
    /\ ~x.fromCand => x.target \in { NoAddress, x.saved }
    /\ x.manual => x.st \in { "IDLE", "SCANNING" } \/ x.fromCand
    /\ x.st \in { "POLLING", "ERROR_BACKOFF", "ECU_IDLE", "WAIT_BOOT" } => ~x.manual
    /\ x.manual /\ x.healed # x.cand => x.attempts = 0
    /\ x.attempts <= MaxFailures

\* The link that was made, or is being made, is to the target.
Peers(x, en) ==
    /\ x.st \in Busy => peer = Address0(x)
    /\ x.st = "CONNECTING" /\ ~en /\ x.queued # "CONNECT" => peer = Address0(x)

\* The write of a pending command is under way or answered.
CommandsHeld(x, en) ==
    x.cmd.pending =>
      /\ x.op = "WRITE" \/ x.ready.op = "WRITE"
      /\ x.enabled /\ ~x.scanReq
      /\ x.st \in { "AT_INIT", "POLLING", "IDLE" } \/ (x.st = "DISCONNECTED" /\ en)

RadioOK ==
    /\ link \in { "down", "connecting", "up" } /\ peer \in Adapter
    /\ run \in TransportOps \cup { None } /\ owes \in BOOLEAN

Good(x, en, e) ==
    /\ Plain(x) /\ RadioOK
    /\ Orders(x) /\ LinksOnce(x, e) /\ Stages(x, en) /\ Targets(x)
    /\ Peers(x, en) /\ CommandsHeld(x, en)

EventType == [ lost : BOOLEAN, found : Adapter, data : Responses \cup { None } ]
SessionInv == Good(s, s.entered, ev.lost)
IInv == SessionInv /\ ev \in EventType

(* What a step of the session does: to the fence, to the transport and to  *)
(* the saved adapter.                                                      *)
Moves(x, y) ==
    \/ y.fence = x.fence /\ (y.queued # None <=> x.queued # None)
    \/ ~x.fence /\ y.fence /\ y.queued = None
    \/ ~x.fence /\ ~y.fence /\ x.queued = None /\ y.queued # None
Asks(x, y) ==
    /\ x.queued = None /\ y.queued = "CONNECT" => x.fresh /\ link = "down"
    /\ x.queued = None /\ y.queued \in TransportOps \ { "CONNECT" } => ~x.fresh
Saves(x, y) ==
    y.saved # x.saved => y.saved = NoAddress \/ (y.st = "POLLING" /\ peer = y.saved)
Steps(x, y) == Moves(x, y) /\ Asks(x, y) /\ Saves(x, y)

\* A step that drained the events ends well.
Fine(x, y) == Good(y, y.entered, FALSE) /\ Steps(x, y)

\* The session as a state's update finds it; just says it has just entered.
Ready(x, just) ==
    /\ Good(x, just, FALSE) /\ x.enabled = TRUE /\ x.fence = FALSE
    /\ x.entered = FALSE /\ just \in BOOLEAN
-----------------------------------------------------------------------------
(* The helpers.                                                            *)

LEMMA NoCommandType ==
  /\ NoCommand \in CommandType /\ NoResult \in ResultType
  /\ NoCommand.pending = FALSE /\ NoResult.op = None
  BY RuntimeAssumption DEF NoCommand, NoResult, CommandType, ResultType

LEMMA DisconnectIs ==
  ASSUME NEW x, NEW y, Plain(x), y = Disconnect(x)
  PROVE  /\ Plain(y) /\ SamePlace(x, y) /\ SameTarget(x, y) /\ SameRest(x, y)
         /\ SameCommand(x, y) /\ Closed(y) /\ y.fresh = x.fresh
<1>1. Rec(y) BY DEF Disconnect, DropTransport, ClearRequest, Plain, Rec
<1>2. /\ SamePlace(x, y) /\ SameTarget(x, y) /\ SameRest(x, y)
      /\ SameCommand(x, y) /\ Closed(y) /\ y.fresh = x.fresh
  BY DEF Disconnect, DropTransport, ClearRequest, Plain, Rec, Fields,
         SamePlace, SameTarget, SameAim, SameRest, SameCommand, Closed
<1> QED
  BY <1>1, <1>2, NoCommandType
  DEF Plain, SamePlace, SameTarget, SameAim, SameRest, SameCommand, Closed,
      Adapter

LEMMA ClearManualIs ==
  ASSUME NEW x, NEW y, Plain(x), y = ClearManual(x)
  PROVE  /\ Plain(y) /\ SamePlace(x, y) /\ SameOrder(x, y) /\ SameCommand(x, y)
         /\ y.saved = x.saved /\ Cleared(y) /\ y.attempts = x.attempts
         /\ y.healed = x.healed /\ SameRest(x, y)
<1>1. Rec(y) BY DEF ClearManual, Plain, Rec
<1>2. /\ SamePlace(x, y) /\ SameOrder(x, y) /\ SameCommand(x, y)
      /\ y.saved = x.saved /\ Cleared(y) /\ y.attempts = x.attempts
      /\ y.healed = x.healed /\ SameRest(x, y)
  BY DEF ClearManual, Plain, Rec, Fields, SamePlace, SameOrder, SameCommand,
         Cleared, SameRest
<1> QED
  BY <1>1, <1>2
  DEF Plain, SamePlace, SameOrder, SameCommand, Cleared, SameRest, Adapter

LEMMA QuietedIs ==
  ASSUME NEW x, NEW y, Plain(x), y = Quieted(x)
  PROVE  /\ Plain(y) /\ SamePlace(x, y) /\ SameTarget(x, y) /\ SameRest(x, y)
         /\ SameOrder(x, y) /\ Quiet(y)
<1>1. Rec(y) BY DEF Quieted, Plain, Rec
<1>2. /\ SamePlace(x, y) /\ SameTarget(x, y) /\ SameRest(x, y)
      /\ SameOrder(x, y) /\ Quiet(y)
  BY DEF Quieted, Plain, Rec, Fields, SamePlace, SameTarget, SameAim, SameRest,
         SameOrder, Quiet
<1> QED
  BY <1>1, <1>2, NoCommandType
  DEF Plain, SamePlace, SameTarget, SameAim, SameRest, SameOrder, Quiet,
      Responses

LEMMA TakeIs ==
  ASSUME NEW x, NEW y, Plain(x), y = Take(x)
  PROVE  /\ Plain(y) /\ SamePlace(x, y) /\ SameTarget(x, y) /\ SameRest(x, y)
         /\ SameCommand(x, y) /\ Taken(x, y)
<1>1. Rec(y) BY DEF Take, Plain, Rec
<1>2. /\ SamePlace(x, y) /\ SameTarget(x, y) /\ SameRest(x, y)
      /\ SameCommand(x, y) /\ Taken(x, y)
  BY DEF Take, Plain, Rec, Fields, SamePlace, SameTarget, SameAim, SameRest,
         SameCommand, Taken
<1> QED
  BY <1>1, <1>2, NoCommandType
  DEF Plain, SamePlace, SameTarget, SameAim, SameRest, SameCommand, Taken

LEMMA BeginIs ==
  ASSUME NEW op, NEW x, NEW y, Plain(x), op \in TransportOps, y = Begin(op, x)
  PROVE  /\ Plain(y) /\ SamePlace(x, y) /\ SameTarget(x, y) /\ SameRest(x, y)
         /\ SameCommand(x, y) /\ Begun(op, x, y)
<1>1. Rec(y) BY DEF Begin, Plain, Rec
<1>2. /\ SamePlace(x, y) /\ SameTarget(x, y) /\ SameRest(x, y)
      /\ SameCommand(x, y) /\ Begun(op, x, y)
  BY DEF Begin, Plain, Rec, Fields, SamePlace, SameTarget, SameAim, SameRest,
         SameCommand, Begun, Address0
<1> QED
  BY <1>1, <1>2, NoCommandType
  DEF Plain, SamePlace, SameTarget, SameAim, SameRest, SameCommand, Begun,
      Address0, Adapter

LEMMA ToIs ==
  ASSUME NEW st, NEW x, NEW y, Plain(x), st \in States, st # "POLLING", y = To(st, x)
  PROVE  /\ Plain(y) /\ SameTarget(x, y) /\ SameRest(x, y) /\ SameCommand(x, y)
         /\ SameOrder(x, y) /\ Arrived(st, x, y)
<1>1. Rec(y) BY DEF To, Plain, Rec
<1>2. /\ SameTarget(x, y) /\ SameRest(x, y) /\ SameCommand(x, y)
      /\ SameOrder(x, y) /\ Arrived(st, x, y)
  BY DEF To, Plain, Rec, Fields, SameTarget, SameAim, SameRest, SameCommand,
         SameOrder, Arrived
<1> QED
  BY <1>1, <1>2
  DEF Plain, SameTarget, SameAim, SameRest, SameCommand, SameOrder, Arrived

LEMMA DropTransportIs ==
  ASSUME NEW x, NEW y, Plain(x), y = DropTransport(x)
  PROVE  /\ Plain(y) /\ SamePlace(x, y) /\ SameTarget(x, y) /\ SameRest(x, y)
         /\ SameCommand(x, y) /\ Dropped(x, y)
<1>1. Rec(y) BY DEF DropTransport, ClearRequest, Plain, Rec
<1>2. /\ SamePlace(x, y) /\ SameTarget(x, y) /\ SameRest(x, y)
      /\ SameCommand(x, y) /\ Dropped(x, y)
  BY DEF DropTransport, ClearRequest, Plain, Rec, Fields, SamePlace,
         SameTarget, SameAim, SameRest, SameCommand, Dropped
<1> QED
  BY <1>1, <1>2, NoCommandType
  DEF Plain, SamePlace, SameTarget, SameAim, SameRest, SameCommand, Dropped

LEMMA HealIs ==
  ASSUME NEW x, NEW y, Plain(x), y = Heal(x), CanHeal(x)
  PROVE  /\ Plain(y) /\ Closed(y) /\ Quiet(y) /\ y.fresh = x.fresh
         /\ Moved("DISCONNECTED", x, y)
         /\ SameAim(x, y) /\ y.attempts = x.attempts /\ y.healed = Address0(x)
<1>1. PICK a : a = Disconnect(x) OBVIOUS
<1>2. PICK b : b = Quieted(a) OBVIOUS
<1>3. PICK d : d = [ b EXCEPT !.lost = FALSE, !.wasWarm = FALSE, !.warm = FALSE,
                              !.healed = Address0(x) ]
  OBVIOUS
<1>4. y = To("DISCONNECTED", d) BY <1>1, <1>2, <1>3 DEF Heal
<1>5. /\ Plain(a) /\ SamePlace(x, a) /\ SameTarget(x, a) /\ Closed(a) /\ a.fresh = x.fresh
  BY <1>1, DisconnectIs
<1>6. Plain(b) /\ SamePlace(a, b) /\ SameTarget(a, b) /\ SameOrder(a, b) /\ Quiet(b)
  BY <1>2, <1>5, QuietedIs
<1>7. /\ Rec(d) /\ d.enabled = b.enabled /\ d.st = b.st /\ d.entered = b.entered
      /\ d.lost = FALSE /\ d.scanReq = b.scanReq /\ SameAim(b, d) /\ d.attempts = b.attempts
      /\ d.healed = Address0(x) /\ SameOrder(b, d) /\ SameCommand(b, d)
      /\ d.wasWarm = FALSE /\ d.warm = FALSE /\ d.found = b.found /\ d.scan = b.scan
      /\ d.coldUsed = b.coldUsed /\ d.step = b.step /\ d.errs = b.errs /\ d.cuts = b.cuts
      /\ d.backoffs = b.backoffs /\ d.v1AtIdle = b.v1AtIdle
  <2>1. Rec(d) BY <1>3, <1>6 DEF Plain, Rec
  <2>2. b = [ fld \in Fields |-> b[fld] ] BY <1>3, <1>6 DEF Plain, Rec
  <2> QED BY <1>3, <1>6, <2>1, <2>2 DEF Fields, SameAim, SameOrder, SameCommand
<1>8. Plain(d)
  <2>1. Address0(x) \in Adapter BY DEF Plain, Address0
  <2> QED BY <1>6, <1>7, <2>1 DEF Plain, SameAim, SameOrder, SameCommand
<1>10. "DISCONNECTED" \in States BY DEF States
<1>9. /\ Plain(y) /\ SameTarget(d, y) /\ SameCommand(d, y) /\ SameOrder(d, y)
      /\ Arrived("DISCONNECTED", d, y)
  BY <1>4, <1>8, <1>10, ToIs
<1> QED
  BY <1>5, <1>6, <1>7, <1>9
  DEF SameTarget, SameAim, SameOrder, SameCommand, SamePlace, Closed, Quiet, Arrived, Moved

\* What a failed connection makes of the session: a bond repair, the end of a
\* pairing attempt, the last or another failure of a series.
Repairs(x, y) ==
    /\ x.manual /\ CanHeal(x) /\ Closed(y) /\ y.fresh = x.fresh /\ Moved("DISCONNECTED", x, y)
    /\ SameAim(x, y) /\ y.attempts = x.attempts + 1 /\ y.healed = Address0(x)
GivesUpPairing(x, y) ==
    /\ x.manual /\ SameOrder(x, y) /\ Moved("IDLE", x, y)
    /\ Cleared(y) /\ y.saved = x.saved /\ y.attempts = 0 /\ y.healed = x.healed
FailsLast(x, y) ==
    /\ ~x.manual /\ SameOrder(x, y) /\ Moved("IDLE", x, y)
    /\ SameAim(x, y) /\ y.attempts = 0 /\ y.healed = x.healed
FailsAgain(x, y) ==
    /\ ~x.manual /\ SameOrder(x, y) /\ Moved("DISCONNECTED", x, y)
    /\ SameAim(x, y) /\ y.attempts = x.attempts + 1 /\ y.attempts < MaxFailures
    /\ y.healed = x.healed

LEMMA ConnectFailureIs ==
  ASSUME NEW reason, NEW x, NEW y, Plain(x), y = ConnectFailure(reason, x)
  PROVE  /\ Plain(y) /\ Quiet(y)
         /\ Repairs(x, y) \/ GivesUpPairing(x, y) \/ FailsLast(x, y) \/ FailsAgain(x, y)
<1>1. PICK a : a = Quieted(x) OBVIOUS
<1>2. PICK b : b = [ a EXCEPT !.lost = FALSE, !.attempts = x.attempts + 1 ] OBVIOUS
<1>3. Plain(a) /\ SamePlace(x, a) /\ SameTarget(x, a) /\ SameOrder(x, a) /\ Quiet(a)
  BY <1>1, QuietedIs
<1>4. /\ Rec(b) /\ b.enabled = a.enabled /\ b.st = a.st /\ b.entered = a.entered
      /\ b.lost = FALSE /\ b.scanReq = a.scanReq /\ SameAim(a, b)
      /\ b.attempts = x.attempts + 1 /\ b.healed = a.healed
      /\ SameOrder(a, b) /\ SameCommand(a, b) /\ SameRest(a, b)
  <2>1. Rec(b) BY <1>2, <1>3 DEF Plain, Rec
  <2>2. a = [ fld \in Fields |-> a[fld] ] BY <1>2, <1>3 DEF Plain, Rec
  <2> QED BY <1>2, <1>3, <2>1, <2>2 DEF Fields, SameAim, SameOrder, SameCommand, SameRest
<1>5. Plain(b)
  <2>1. x.attempts + 1 \in Nat BY DEF Plain
  <2> QED BY <1>3, <1>4, <2>1 DEF Plain, SameAim, SameOrder, SameCommand, SameRest
<1>6. Address0(b) = Address0(x) /\ b.healed = x.healed /\ b.manual = x.manual
  BY <1>3, <1>4 DEF SameTarget, SameAim, Address0
<1>7. "DISCONNECTED" \in States /\ "IDLE" \in States BY DEF States
<1>8. CASE x.manual /\ reason \in HealingReasons /\ CanHeal(b)
  <2>1. y = Heal(b) BY <1>1, <1>2, <1>6, <1>8 DEF ConnectFailure
  <2>2. /\ Plain(y) /\ Closed(y) /\ Quiet(y) /\ y.fresh = b.fresh
        /\ Moved("DISCONNECTED", b, y)
        /\ SameAim(b, y) /\ y.attempts = b.attempts /\ y.healed = Address0(b)
    BY <2>1, <1>5, <1>8, HealIs
  <2>3. Repairs(x, y)
    BY <2>2, <1>3, <1>4, <1>6, <1>8
    DEF Repairs, CanHeal, Moved, SameAim, SameTarget, SameOrder, SamePlace
  <2> QED BY <2>2, <2>3
<1>9. CASE x.manual /\ ~(reason \in HealingReasons /\ CanHeal(b))
  <2>1. PICK d : d = [ b EXCEPT !.attempts = 0 ] OBVIOUS
  <2>2. PICK f : f = ClearManual(d) OBVIOUS
  <2>3. y = To("IDLE", f) BY <1>1, <1>2, <1>6, <1>9, <2>1, <2>2 DEF ConnectFailure
  <2>4. /\ Rec(d) /\ SamePlace(b, d) /\ SameAim(b, d) /\ d.attempts = 0 /\ d.healed = b.healed
        /\ SameOrder(b, d) /\ SameCommand(b, d) /\ SameRest(b, d)
    <3>1. Rec(d) BY <2>1, <1>5 DEF Plain, Rec
    <3>2. b = [ fld \in Fields |-> b[fld] ] BY <2>1, <1>5 DEF Plain, Rec
    <3> QED
      BY <2>1, <1>5, <3>1, <3>2 DEF Fields, SamePlace, SameAim, SameOrder, SameCommand, SameRest
  <2>5. Plain(d)
    BY <2>4, <1>5 DEF Plain, SamePlace, SameAim, SameOrder, SameCommand, SameRest
  <2>6. /\ Plain(f) /\ SamePlace(d, f) /\ SameOrder(d, f) /\ SameCommand(d, f)
        /\ f.saved = d.saved /\ Cleared(f) /\ f.attempts = d.attempts /\ f.healed = d.healed
    BY <2>2, <2>5, ClearManualIs
  <2>7. /\ Plain(y) /\ SameTarget(f, y) /\ SameCommand(f, y) /\ SameOrder(f, y)
        /\ Arrived("IDLE", f, y)
    BY <2>3, <2>6, <1>7, ToIs
  <2>8. Quiet(y)
    BY <2>7, <2>6, <2>4, <1>4, <1>3 DEF SameCommand, Quiet
  <2>9. GivesUpPairing(x, y)
    BY <2>7, <2>6, <2>4, <1>3, <1>4, <1>6, <1>9
    DEF GivesUpPairing, Moved, Arrived, SameAim, SameTarget, SameOrder, SamePlace, Cleared
  <2> QED BY <2>7, <2>8, <2>9
<1>10. CASE ~x.manual /\ b.attempts >= MaxFailures
  <2>1. PICK d : d = [ b EXCEPT !.attempts = 0 ] OBVIOUS
  <2>2. y = To("IDLE", d) BY <1>1, <1>2, <1>6, <1>10, <2>1 DEF ConnectFailure
  <2>3. /\ Rec(d) /\ SamePlace(b, d) /\ SameAim(b, d) /\ d.attempts = 0 /\ d.healed = b.healed
        /\ SameOrder(b, d) /\ SameCommand(b, d) /\ SameRest(b, d)
    <3>1. Rec(d) BY <2>1, <1>5 DEF Plain, Rec
    <3>2. b = [ fld \in Fields |-> b[fld] ] BY <2>1, <1>5 DEF Plain, Rec
    <3> QED
      BY <2>1, <1>5, <3>1, <3>2 DEF Fields, SamePlace, SameAim, SameOrder, SameCommand, SameRest
  <2>4. Plain(d)
    BY <2>3, <1>5 DEF Plain, SamePlace, SameAim, SameOrder, SameCommand, SameRest
  <2>5. /\ Plain(y) /\ SameTarget(d, y) /\ SameCommand(d, y) /\ SameOrder(d, y)
        /\ Arrived("IDLE", d, y)
    BY <2>2, <2>4, <1>7, ToIs
  <2>6. Quiet(y)
    BY <2>5, <2>3, <1>4, <1>3 DEF SameCommand, Quiet
  <2>7. FailsLast(x, y)
    BY <2>5, <2>3, <1>3, <1>4, <1>6, <1>10
    DEF FailsLast, Moved, Arrived, SameAim, SameTarget, SameOrder, SamePlace
  <2> QED BY <2>5, <2>6, <2>7
<1>11. CASE ~x.manual /\ ~(b.attempts >= MaxFailures)
  <2>1. y = To("DISCONNECTED", b) BY <1>1, <1>2, <1>6, <1>11 DEF ConnectFailure
  <2>2. /\ Plain(y) /\ SameTarget(b, y) /\ SameCommand(b, y) /\ SameOrder(b, y)
        /\ Arrived("DISCONNECTED", b, y)
    BY <2>1, <1>5, <1>7, ToIs
  <2>3. Quiet(y)
    BY <2>2, <1>4, <1>3 DEF SameCommand, Quiet
  <2>4. b.attempts < MaxFailures BY <1>5, <1>11, RuntimeAssumption DEF Plain
  <2>5. FailsAgain(x, y)
    BY <2>2, <2>4, <1>3, <1>4, <1>6, <1>11
    DEF FailsAgain, Moved, Arrived, SameAim, SameTarget, SameOrder, SamePlace
  <2> QED BY <2>2, <2>3, <2>5
<1> QED BY <1>8, <1>9, <1>10, <1>11

\* What the invariant is about, besides a pending command.
SameCore(x, y) == SamePlace(x, y) /\ SameTarget(x, y) /\ SameOrder(x, y)

LEMMA ClosedFine ==
  ASSUME NEW x, NEW y, Plain(x), Plain(y), RadioOK, Closed(y), ~y.cmd.pending, Targets(y),
         x.fence => x.queued = None,
         y.st \notin Busy, y.st = "CONNECTING" => y.entered,
         ~y.enabled => y.st = "IDLE" /\ ~y.manual,
         y.scanReq => y.manual /\ y.st = "IDLE",
         y.st = "SCANNING" => y.manual,
         y.saved \in { x.saved, NoAddress }
  PROVE  Fine(x, y)
<1>1. Orders(y) BY DEF Orders, Closed, None
<1>2. LinksOnce(y, FALSE) BY DEF LinksOnce, Closed, Free
<1>3. Stages(y, y.entered) BY DEF Stages, Closed, Free, Busy, Plain
<1>4. Peers(y, y.entered) BY DEF Peers
<1>5. CommandsHeld(y, y.entered) BY DEF CommandsHeld
<1>6. Moves(x, y) BY DEF Moves, Closed, Plain
<1>7. Asks(x, y) BY DEF Asks, Closed, None, TransportOps
<1>8. Saves(x, y) BY DEF Saves
<1> QED BY <1>1, <1>2, <1>3, <1>4, <1>5, <1>6, <1>7, <1>8 DEF Fine, Good, Steps

LEMMA CoreFine ==
  ASSUME NEW just, NEW x, NEW y, Ready(x, just), Plain(y), SameCore(x, y),
         y.cmd.pending => x.cmd.pending,
         just = FALSE \/ x.st \notin { "CONNECTING", "DISCONNECTED" }
  PROVE  Fine(x, y)
<1> USE DEF Ready, Good, SameCore, SamePlace, SameTarget, SameAim, SameOrder
<1>1. Orders(y) BY DEF Orders, Address0
<1>2. LinksOnce(y, FALSE) BY DEF LinksOnce, Free
<1>3. Stages(y, y.entered) BY DEF Stages, Free
<1>4. Peers(y, y.entered) BY DEF Peers, Address0
<1>5. CommandsHeld(y, y.entered) BY DEF CommandsHeld
<1>6. Targets(y) BY DEF Targets
<1>7. Moves(x, y) BY DEF Moves
<1>8. Asks(x, y) BY DEF Asks, None, TransportOps
<1>9. Saves(x, y) BY DEF Saves
<1> QED BY <1>1, <1>2, <1>3, <1>4, <1>5, <1>6, <1>7, <1>8, <1>9 DEF Fine, Steps

LEMMA BeginFine ==
  ASSUME NEW just, NEW op, NEW x, NEW y, Ready(x, just), Plain(y),
         SamePlace(x, y), SameTarget(x, y), Begun(op, x, y),
         x.st \in Busy, x.op = None, op \in TransportOps \ { "CONNECT" },
         y.cmd.pending => op = "WRITE" /\ x.st \in { "AT_INIT", "POLLING" }
  PROVE  Fine(x, y)
<1> USE DEF Ready, Good, SamePlace, SameTarget, SameAim, Begun, Busy
<1>0. x.queued = None /\ x.fresh = FALSE BY DEF Orders, Stages, Plain, Free
<1>1. Orders(y) BY DEF Orders, None, TransportOps
<1>2. LinksOnce(y, FALSE) BY <1>0 DEF LinksOnce, Free, NoResult, None
<1>3. Stages(y, y.entered) BY DEF Stages, Free
<1>4. Peers(y, y.entered) BY DEF Peers, Address0
<1>5. CommandsHeld(y, y.entered) BY DEF CommandsHeld, Stages
<1>6. Targets(y) BY DEF Targets
<1>7. Moves(x, y) BY <1>0 DEF Moves, None, TransportOps
<1>8. Asks(x, y) BY <1>0 DEF Asks
<1>9. Saves(x, y) BY DEF Saves
<1> QED BY <1>1, <1>2, <1>3, <1>4, <1>5, <1>6, <1>7, <1>8, <1>9 DEF Fine, Steps

LEMMA FailsFine ==
  ASSUME NEW reason, NEW x, NEW w, NEW y, Plain(x), Plain(w), RadioOK, Targets(w),
         x.fence => x.queued = None, w.saved = x.saved, w.enabled, ~w.scanReq,
         w.st \notin { "IDLE", "SCANNING" }, y = Fails(reason, w)
  PROVE  Fine(x, y)
<1>1. PICK d : d = Disconnect(w) OBVIOUS
<1>2. y = ConnectFailure(reason, d) BY <1>1 DEF Fails
<1>3. /\ Plain(d) /\ SamePlace(w, d) /\ SameTarget(w, d) /\ Closed(d)
  BY <1>1, DisconnectIs
<1>4. /\ Plain(y) /\ Quiet(y)
      /\ Repairs(d, y) \/ GivesUpPairing(d, y) \/ FailsLast(d, y) \/ FailsAgain(d, y)
  BY <1>2, <1>3, ConnectFailureIs
<1>5. Closed(y)
  BY <1>4 , <1>3 DEF Repairs, GivesUpPairing, FailsLast, FailsAgain, SameOrder, Closed
<1>6. ~y.cmd.pending BY <1>4, NoCommandType DEF Quiet
<1>7. Targets(y)
  <2>1. CASE Repairs(d, y)
    BY <2>1, <1>3, RuntimeAssumption
    DEF Repairs, Targets, CanHeal, Address0, SameAim, SameTarget, SamePlace, Moved
  <2>2. CASE GivesUpPairing(d, y)
    BY <2>2, RuntimeAssumption DEF GivesUpPairing, Targets, Cleared, Moved
  <2>3. CASE FailsLast(d, y)
    BY <2>3, <1>3, RuntimeAssumption
    DEF FailsLast, Targets, SameAim, SameTarget, SamePlace, Moved
  <2>4. CASE FailsAgain(d, y)
    BY <2>4, <1>3, <1>4, RuntimeAssumption
    DEF FailsAgain, Targets, SameAim, SameTarget, SamePlace, Moved, Plain
  <2> QED BY <2>1, <2>2, <2>3, <2>4, <1>4
<1>8. /\ y.st \in { "DISCONNECTED", "IDLE" } /\ y.enabled /\ ~y.scanReq /\ y.saved = x.saved
  BY <1>4, <1>3
  DEF Repairs, GivesUpPairing, FailsLast, FailsAgain, Moved, SameAim, SameTarget, SamePlace
<1> QED BY <1>4, <1>5, <1>6, <1>7, <1>8, ClosedFine DEF Busy

-----------------------------------------------------------------------------
(* The update of each state.                                               *)

LEMMA Stated == \A st \in { "IDLE", "WAIT_BOOT", "SCANNING", "CONNECTING", "DISCOVERING",
            "AT_INIT", "POLLING", "ERROR_BACKOFF", "DISCONNECTED", "ECU_IDLE" } : st \in States
  BY DEF States

LEMMA StartScanFine ==
  ASSUME NEW c, NEW w, NEW x, NEW y, Good(w, w.entered, FALSE), Moves(x, w), Asks(x, w),
         w.saved = x.saved,
         w.enabled, w.scanReq, ~IsConnected, y = StartScan(w)
  PROVE  Fine(x, y)
<1>1. PICK d : d = [ w EXCEPT !.scanReq = FALSE, !.scan = TRUE ] OBVIOUS
<1>2. y = To("SCANNING", d) BY <1>1 DEF StartScan
<1>3. /\ Rec(d) /\ d.enabled = w.enabled /\ d.st = w.st /\ d.entered = w.entered
      /\ d.lost = w.lost /\ d.scanReq = FALSE /\ SameTarget(w, d) /\ SameOrder(w, d)
      /\ SameCommand(w, d) /\ d.scan = TRUE /\ d.found = w.found
      /\ d.wasWarm = w.wasWarm /\ d.warm = w.warm /\ d.coldUsed = w.coldUsed
      /\ d.step = w.step /\ d.errs = w.errs /\ d.cuts = w.cuts
      /\ d.backoffs = w.backoffs /\ d.v1AtIdle = w.v1AtIdle
  <2>1. Rec(d) BY <1>1 DEF Good, Plain, Rec
  <2>2. w = [ fld \in Fields |-> w[fld] ] BY <1>1 DEF Good, Plain, Rec
  <2> QED BY <1>1, <2>1, <2>2 DEF Fields, SameTarget, SameAim, SameOrder, SameCommand
<1>4. Plain(d) BY <1>3 DEF Good, Plain, SameTarget, SameAim, SameOrder, SameCommand
<1>5. /\ Plain(y) /\ SameTarget(d, y) /\ SameCommand(d, y) /\ SameOrder(d, y)
      /\ Arrived("SCANNING", d, y)
  BY <1>2, <1>4, Stated, ToIs
<1>6. /\ Plain(y) /\ SameTarget(w, y) /\ SameOrder(w, y) /\ y.cmd = w.cmd
      /\ y.enabled /\ y.st = "SCANNING" /\ y.entered /\ y.lost = w.lost /\ y.scanReq = FALSE
  BY <1>5, <1>3 DEF SameTarget, SameAim, SameOrder, SameCommand, Arrived
<1> USE <1>6 DEF Good, SameTarget, SameAim, SameOrder
<1>7. w.manual /\ w.st = "IDLE" /\ Free(w) /\ Free(y) BY DEF Stages, Free
<1>8. Orders(y) BY <1>7 DEF Orders, Address0
<1>9. LinksOnce(y, FALSE) BY <1>7 DEF LinksOnce, Free
<1>10. Stages(y, y.entered) BY <1>7 DEF Stages, Busy
<1>11. Peers(y, y.entered) BY DEF Peers, Busy
<1>12. CommandsHeld(y, y.entered) BY DEF CommandsHeld
<1>13. Targets(y) BY <1>7 DEF Targets
<1>14. Steps(x, y) BY DEF Steps, Moves, Asks, Saves
<1> QED BY <1>8, <1>9, <1>10, <1>11, <1>12, <1>13, <1>14 DEF Fine

LEMMA InIdleFine ==
  ASSUME NEW just, NEW x, NEW y, NEW c, Ready(x, just), x.st = "IDLE", y = InIdle(x, c)
  PROVE  Fine(x, y)
<1>1. ~IsConnected
  BY DEF Ready, Good, Stages, Free, Orders, IsConnected
<1>2. CASE x.scanReq /\ y = StartScan(x)
  <2>1. Good(x, x.entered, FALSE) /\ Moves(x, x) /\ Asks(x, x) /\ x.enabled
    BY DEF Ready, Good, Stages, Peers, CommandsHeld, Busy, Moves, Asks, None, TransportOps
  <2> QED BY <2>1, <1>1, <1>2, StartScanFine
<1>3. CASE y = x
  BY <1>3, CoreFine
  DEF SameCore, SamePlace, SameTarget, SameAim, SameOrder, Ready, Good
<1> QED BY <1>1, <1>2, <1>3 DEF InIdle, MayScan

LEMMA SavedIs ==
  ASSUME NEW x, NEW y, Plain(x), y = Saved(x)
  PROVE  /\ Plain(y) /\ SamePlace(x, y) /\ SameOrder(x, y) /\ SameRest(x, y)
         /\ SameCommand(x, y)
         /\ y.preempt = x.preempt /\ y.saved = x.saved /\ y.target = x.saved
         /\ ~y.fromCand /\ y.cand = x.cand /\ y.manual = x.manual
         /\ y.attempts = x.attempts /\ y.healed = x.healed
<1>1. Rec(y) BY DEF Saved, Plain, Rec
<1>2. /\ SamePlace(x, y) /\ SameOrder(x, y) /\ SameRest(x, y) /\ SameCommand(x, y)
      /\ y.preempt = x.preempt /\ y.saved = x.saved /\ y.target = x.saved
      /\ y.fromCand = FALSE /\ y.cand = x.cand /\ y.manual = x.manual
      /\ y.attempts = x.attempts /\ y.healed = x.healed
  BY DEF Saved, Plain, Rec, Fields, SamePlace, SameOrder, SameRest, SameCommand
<1>3. Plain(y) BY <1>1, <1>2 DEF Plain, SamePlace, SameOrder, SameRest, SameCommand
<1> QED BY <1>2, <1>3

LEMMA CandidateIs ==
  ASSUME NEW x, NEW y, Plain(x), y = Candidate(x)
  PROVE  /\ Plain(y) /\ SamePlace(x, y) /\ SameOrder(x, y) /\ SameRest(x, y)
         /\ SameCommand(x, y)
         /\ y.preempt = x.preempt /\ y.saved = x.saved /\ y.target = x.cand
         /\ y.fromCand /\ y.cand = x.cand /\ y.manual = x.manual
         /\ y.attempts = x.attempts /\ y.healed = x.healed
<1>1. Rec(y) BY DEF Candidate, Plain, Rec
<1>2. /\ SamePlace(x, y) /\ SameOrder(x, y) /\ SameRest(x, y) /\ SameCommand(x, y)
      /\ y.preempt = x.preempt /\ y.saved = x.saved /\ y.target = x.cand
      /\ y.fromCand = TRUE /\ y.cand = x.cand /\ y.manual = x.manual
      /\ y.attempts = x.attempts /\ y.healed = x.healed
  BY DEF Candidate, Plain, Rec, Fields, SamePlace, SameOrder, SameRest, SameCommand
<1>3. Plain(y) BY <1>1, <1>2 DEF Plain, SamePlace, SameOrder, SameRest, SameCommand
<1> QED BY <1>2, <1>3

\* A new connection is begun from a state without a link.
LEMMA ConnectingFine ==
  ASSUME NEW x, NEW d, NEW y, Plain(x), RadioOK, Plain(d), Orders(x), Free(d), SameOrder(x, d),
         x.op = None, d.enabled, ~d.scanReq, Targets(d), d.manual => d.fromCand, ~d.cmd.pending,
         d.saved = x.saved, y = To("CONNECTING", d),
         x.fence \/ (x.fresh /\ link = "down")
  PROVE  Fine(x, y)
<1>1. /\ Plain(y) /\ SameTarget(d, y) /\ SameCommand(d, y) /\ SameOrder(d, y)
      /\ Arrived("CONNECTING", d, y)
  BY Stated, ToIs
<1>2. x.queued = None BY DEF Orders
<1> USE <1>1 DEF SameTarget, SameAim, SameOrder, SameCommand, Arrived
<1>3. Orders(y) BY <1>2 DEF Orders, None
<1>4. LinksOnce(y, FALSE) BY DEF LinksOnce, Free
<1>5. Stages(y, y.entered) BY DEF Stages, Busy, Free
<1>6. Peers(y, y.entered) BY DEF Peers, Busy
<1>7. CommandsHeld(y, y.entered) BY DEF CommandsHeld
<1>8. Targets(y) BY DEF Targets
<1>9. Steps(x, y) BY <1>2 DEF Steps, Moves, Asks, Saves, None, TransportOps
<1> QED BY <1>3, <1>4, <1>5, <1>6, <1>7, <1>8, <1>9 DEF Fine, Good

LEMMA InWaitBootFine ==
  ASSUME NEW just, NEW x, NEW y, NEW c, Ready(x, just), x.st = "WAIT_BOOT", y = InWaitBoot(x, c)
  PROVE  Fine(x, y)
<1>1. CASE y = x
  BY <1>1, CoreFine
  DEF SameCore, SamePlace, SameTarget, SameAim, SameOrder, Ready, Good
<1>2. CASE y = To("CONNECTING", Saved(x))
  <2>1. PICK d : d = Saved(x) OBVIOUS
  <2>2. /\ Plain(d) /\ SamePlace(x, d) /\ SameOrder(x, d) /\ SameRest(x, d) /\ SameCommand(x, d)
         /\ d.saved = x.saved /\ d.target = x.saved
         /\ ~d.fromCand /\ d.cand = x.cand /\ d.manual = x.manual
         /\ d.attempts = x.attempts /\ d.healed = x.healed
    BY <2>1, SavedIs DEF Ready, Good
  <2>3. /\ x.fresh /\ x.op = None /\ link = "down" /\ ~x.manual /\ ~x.scanReq /\ ~x.cmd.pending
    BY DEF Ready, Good, Stages, Free, Orders, Targets, CommandsHeld
  <2>4. Targets(d) BY <2>2, <2>3 DEF Ready, Good, Targets, SamePlace
  <2>5. Free(d) /\ d.enabled /\ ~d.scanReq /\ ~d.manual /\ ~d.cmd.pending
    BY <2>2, <2>3 DEF Ready, Free, SameOrder, SamePlace, SameCommand
  <2> QED BY <1>2, <2>1, <2>2, <2>3, <2>4, <2>5, ConnectingFine DEF Ready, Good
<1> QED BY <1>1, <1>2 DEF InWaitBoot

LEMMA InScanningFine ==
  ASSUME NEW just, NEW x, NEW y, NEW c, Ready(x, just), x.st = "SCANNING", y = InScanning(x, c)
  PROVE  Fine(x, y)
<1>1. /\ x.fresh /\ x.op = None /\ link = "down" /\ x.manual /\ ~x.scanReq /\ ~x.cmd.pending
      /\ x.queued = None /\ ~owes /\ run = None /\ x.ready = NoResult
  BY DEF Ready, Good, Stages, Free, Orders, Targets, CommandsHeld
<1>2. CASE y = x
  BY <1>2, CoreFine
  DEF SameCore, SamePlace, SameTarget, SameAim, SameOrder, Ready, Good
<1>3. CASE /\ x.found # NoAddress
           /\ y = To("CONNECTING",
                     Candidate([ [ x EXCEPT !.found = NoAddress, !.attempts = 0,
                                            !.wasWarm = FALSE ]
                                  EXCEPT !.cand = x.found, !.preempt = FALSE ]))
  <2>1. PICK a : a = [ x EXCEPT !.found = NoAddress, !.attempts = 0, !.wasWarm = FALSE ] OBVIOUS
  <2>2. PICK b : b = [ a EXCEPT !.cand = x.found, !.preempt = FALSE ] OBVIOUS
  <2>3. PICK d : d = Candidate(b) OBVIOUS
  <2>4. /\ Rec(a) /\ SamePlace(x, a) /\ SameAim(x, a) /\ a.attempts = 0 /\ a.healed = x.healed
        /\ SameOrder(x, a) /\ SameCommand(x, a) /\ a.found = NoAddress /\ a.scan = x.scan
        /\ a.wasWarm = FALSE /\ a.warm = x.warm /\ a.coldUsed = x.coldUsed
        /\ a.step = x.step /\ a.errs = x.errs /\ a.cuts = x.cuts
        /\ a.backoffs = x.backoffs /\ a.v1AtIdle = x.v1AtIdle
    <3>1. Rec(a) BY <2>1 DEF Ready, Good, Plain, Rec
    <3>2. x = [ fld \in Fields |-> x[fld] ] BY <2>1 DEF Ready, Good, Plain, Rec
    <3> QED BY <2>1, <3>1, <3>2 DEF Fields, SamePlace, SameAim, SameOrder, SameCommand
  <2>5. Plain(a)
    <3>1. Plain(x) /\ NoAddress \in Adapter /\ 0 \in Nat BY DEF Ready, Good, Adapter
    <3> QED BY <2>4, <3>1 DEF Plain, SamePlace, SameAim, SameOrder, SameCommand
  <2>6. /\ Rec(b) /\ SamePlace(a, b) /\ b.preempt = FALSE /\ b.saved = a.saved
        /\ b.target = a.target /\ b.fromCand = a.fromCand /\ b.cand = x.found
        /\ b.manual = a.manual /\ b.attempts = a.attempts /\ b.healed = a.healed
        /\ SameOrder(a, b) /\ SameCommand(a, b) /\ SameRest(a, b)
    <3>1. Rec(b) BY <2>2, <2>5 DEF Plain, Rec
    <3>2. a = [ fld \in Fields |-> a[fld] ] BY <2>2, <2>5 DEF Plain, Rec
    <3> QED BY <2>2, <2>5, <3>1, <3>2 DEF Fields, SamePlace, SameOrder, SameCommand, SameRest
  <2>7. Plain(b)
    <3>1. x.found \in Adapter BY DEF Ready, Good, Plain
    <3> QED BY <2>5, <2>6, <3>1 DEF Plain, SamePlace, SameOrder, SameCommand, SameRest
  <2>8. /\ Plain(d) /\ SamePlace(b, d) /\ SameOrder(b, d) /\ SameRest(b, d) /\ SameCommand(b, d)
         /\ d.saved = b.saved /\ d.target = b.cand
         /\ d.fromCand /\ d.cand = b.cand /\ d.manual = b.manual
         /\ d.attempts = b.attempts /\ d.healed = b.healed
    BY <2>3, <2>7, CandidateIs
  <2>9. /\ d.st = "SCANNING" /\ d.enabled /\ ~d.scanReq /\ d.manual /\ d.saved = x.saved
        /\ ~d.cmd.pending /\ Free(d) /\ SameOrder(x, d) /\ d.cand = x.found /\ d.attempts = 0
    BY <2>8, <2>6, <2>4, <1>1 DEF Ready, SamePlace, SameOrder, SameAim, SameCommand, Free
  <2>10. Targets(d) BY <2>9, <2>8, <2>6, <1>3, RuntimeAssumption DEF Targets
  <2>11. y = To("CONNECTING", d) BY <1>3, <2>1, <2>2, <2>3
  <2> QED BY <1>1, <2>8, <2>9, <2>10, <2>11, ConnectingFine DEF Ready, Good
<1>4. CASE y = To("IDLE", ClearManual(x))
  <2>1. PICK d : d = ClearManual(x) OBVIOUS
  <2>2. /\ Plain(d) /\ SamePlace(x, d) /\ SameOrder(x, d) /\ SameCommand(x, d)
        /\ d.saved = x.saved /\ Cleared(d) /\ d.attempts = x.attempts /\ d.healed = x.healed
    BY <2>1, ClearManualIs DEF Ready, Good
  <2>3. /\ Plain(y) /\ SameTarget(d, y) /\ SameCommand(d, y) /\ SameOrder(d, y)
        /\ Arrived("IDLE", d, y)
    BY <1>4, <2>1, <2>2, Stated, ToIs
  <2>4. /\ Plain(y) /\ SameOrder(x, y) /\ ~y.cmd.pending /\ y.saved = x.saved
        /\ y.target = NoAddress /\ ~y.fromCand /\ y.cand = NoAddress /\ ~y.manual
        /\ y.attempts = x.attempts /\ y.enabled /\ y.st = "IDLE" /\ ~y.scanReq
        /\ y.lost = x.lost
    BY <1>1, <2>2, <2>3
    DEF Ready, SameOrder, SameCommand, Cleared, SameTarget, SameAim, Arrived, SamePlace
  <2>a. Free(x) /\ ~x.fence /\ Free(y) BY <1>1, <2>4 DEF Ready, SameOrder, Free
  <2>5. Orders(y) BY <2>4, <1>1 DEF Ready, Good, Orders, SameOrder, None
  <2>6. LinksOnce(y, FALSE) BY <2>4, <2>a, <1>1 DEF LinksOnce, SameOrder, NoResult, None
  <2>7. Stages(y, y.entered) BY <2>4, <2>a DEF Stages, Busy
  <2>8. Peers(y, y.entered) BY <2>4 DEF Peers, Busy
  <2>9. CommandsHeld(y, y.entered) BY <2>4 DEF CommandsHeld
  <2>10. Targets(y) BY <2>4 DEF Ready, Good, Targets
  <2>11. Steps(x, y) BY <2>4, <1>1 DEF Steps, Moves, Asks, Saves, SameOrder, None, TransportOps
  <2> QED BY <2>4, <2>5, <2>6, <2>7, <2>8, <2>9, <2>10, <2>11 DEF Fine, Good, Ready
<1> QED BY <1>1, <1>2, <1>3, <1>4 DEF InScanning

\* A connection that failed before it was up: its link is down.
LEMMA FailsOpenFine ==
  ASSUME NEW just, NEW reason, NEW x, NEW w, NEW y, Ready(x, just), x.st = "CONNECTING",
         Plain(w), SamePlace(x, w), SameTarget(x, w), w.op = x.op, w.mine = x.mine,
         w.queued = x.queued, w.dest = x.dest, w.fence = x.fence, w.fresh = x.fresh,
         w.ready \in { x.ready, NoResult }, w.cmd = x.cmd,
         link = "down", x.queued = None, y = ConnectFailure(reason, w)
  PROVE  Fine(x, y)
<1>1. /\ Plain(y) /\ Quiet(y)
      /\ Repairs(w, y) \/ GivesUpPairing(w, y) \/ FailsLast(w, y) \/ FailsAgain(w, y)
  BY ConnectFailureIs
<1>2. ~y.cmd.pending BY <1>1, NoCommandType DEF Quiet
<1>3. Targets(x) /\ RadioOK /\ Plain(x) BY DEF Ready, Good
<1>4. /\ y.st \in { "DISCONNECTED", "IDLE" } /\ y.enabled /\ y.scanReq = x.scanReq
      /\ y.saved = x.saved
      /\ y.entered
  BY <1>1, <1>3
  DEF Repairs, GivesUpPairing, FailsLast, FailsAgain, Moved, SameAim, SameTarget, SamePlace,
      Ready
<1>5. ~x.scanReq BY DEF Ready, Good, Stages
<1>6. Targets(y)
  <2>1. CASE Repairs(w, y)
    BY <2>1, <1>3, RuntimeAssumption
    DEF Repairs, Targets, CanHeal, Address0, SameAim, SameTarget, SamePlace, Moved
  <2>2. CASE GivesUpPairing(w, y)
    BY <2>2, RuntimeAssumption DEF GivesUpPairing, Targets, Cleared, Moved
  <2>3. CASE FailsLast(w, y)
    BY <2>3, <1>3, RuntimeAssumption
    DEF FailsLast, Targets, SameAim, SameTarget, SamePlace, Moved
  <2>4. CASE FailsAgain(w, y)
    BY <2>4, <1>3, <1>1, RuntimeAssumption
    DEF FailsAgain, Targets, SameAim, SameTarget, SamePlace, Moved, Plain
  <2> QED BY <2>1, <2>2, <2>3, <2>4, <1>1
<1>7. CASE Closed(y)
  BY <1>1, <1>2, <1>3, <1>4, <1>5, <1>6, <1>7, ClosedFine DEF Busy
<1>8. CASE SameOrder(w, y)
  <2> USE <1>8 DEF SameOrder
  <2>1. Orders(y) BY <1>4 DEF Ready, Good, Orders, None, SamePlace
  <2>2. y.lost = FALSE /\ ~y.fence
    BY <1>1 DEF Moved, Repairs, GivesUpPairing, FailsLast, FailsAgain, Closed, Ready
  <2>3. LinksOnce(y, FALSE) BY <2>2 DEF LinksOnce, None
  <2>4. Stages(y, y.entered) BY <1>4, <1>5 DEF Stages, Busy
  <2>5. Peers(y, y.entered) BY <1>4 DEF Peers, Busy
  <2>6. CommandsHeld(y, y.entered) BY <1>2 DEF CommandsHeld
  <2>7. Steps(x, y) BY <1>4 DEF Steps, Moves, Asks, Saves, None, TransportOps
  <2> QED BY <1>1, <1>3, <1>6, <2>1, <2>3, <2>4, <2>5, <2>6, <2>7 DEF Fine, Good
<1> QED BY <1>1, <1>7, <1>8 DEF Repairs, GivesUpPairing, FailsLast, FailsAgain

LEMMA LeavesFine ==
  ASSUME NEW just, NEW x, NEW y, Ready(x, just), Plain(y), SameOrder(x, y),
         y.enabled, y.st \in { "IDLE", "DISCONNECTED" }, y.entered, y.lost => x.lost,
         ~y.scanReq, y.st = "IDLE" => link = "down", x.queued # "CONNECT", link # "connecting",
         Targets(y), y.saved = x.saved, y.cmd.pending => x.cmd.pending
  PROVE  Fine(x, y)
<1> USE DEF Ready, Good, SameOrder
<1>1. Orders(y) BY DEF Orders
<1>2. LinksOnce(y, FALSE) BY DEF LinksOnce, Free
<1>3. Stages(y, y.entered) BY DEF Stages, Busy
<1>4. Peers(y, y.entered) BY DEF Peers, Busy
<1>5. CommandsHeld(y, y.entered) BY DEF CommandsHeld
<1>6. Steps(x, y) BY DEF Steps, Moves, Asks, Saves, None, TransportOps
<1> QED BY <1>1, <1>2, <1>3, <1>4, <1>5, <1>6 DEF Fine

LEMMA SetupLostFine ==
  ASSUME NEW just, NEW x, NEW y, Ready(x, just), x.lost, x.st \in { "DISCOVERING", "AT_INIT" },
         y = SetupLost(x)
  PROVE  Fine(x, y)
<1>1. PICK a : a = [ x EXCEPT !.lost = FALSE ] OBVIOUS
<1>2. /\ Rec(a) /\ a.enabled = x.enabled /\ a.st = x.st /\ a.entered = x.entered
      /\ a.lost = FALSE /\ a.scanReq = x.scanReq /\ SameTarget(x, a)
      /\ SameOrder(x, a) /\ SameCommand(x, a) /\ SameRest(x, a)
  <2>1. Rec(a) BY <1>1 DEF Ready, Good, Plain, Rec
  <2>2. x = [ fld \in Fields |-> x[fld] ] BY <1>1 DEF Ready, Good, Plain, Rec
  <2> QED BY <1>1, <2>1, <2>2 DEF Fields, SameTarget, SameAim, SameOrder, SameCommand, SameRest
<1>3. Plain(x) /\ Targets(x) /\ RadioOK BY DEF Ready, Good
<1>4. Plain(a)
  BY <1>2, <1>3 DEF Plain, SameTarget, SameAim, SameOrder, SameCommand, SameRest
<1>5. link = "down" /\ x.queued # "CONNECT" /\ ~x.scanReq /\ ~x.fence /\ x.enabled
  BY DEF Ready, Good, LinksOnce, Stages, Busy
<1>6. CASE CanHeal(a) /\ y = Heal(a)
  <2>1. /\ Plain(y) /\ Closed(y) /\ Quiet(y) /\ y.fresh = a.fresh
         /\ Moved("DISCONNECTED", a, y)
         /\ SameAim(a, y) /\ y.attempts = a.attempts /\ y.healed = Address0(a)
    BY <1>6, <1>4, HealIs
  <2>2. ~y.cmd.pending BY <2>1, NoCommandType DEF Quiet
  <2>3. Targets(y)
    BY <2>1, <1>2, <1>3 DEF Targets, Moved, SameAim, SameTarget, Address0
  <2>4. y.enabled /\ ~y.scanReq /\ y.st = "DISCONNECTED" /\ y.saved = x.saved
    BY <2>1, <1>2, <1>5 DEF Moved, SameAim, SameTarget
  <2> QED BY <2>1, <2>2, <2>3, <2>4, <1>3, <1>5, ClosedFine DEF Busy
<1>7. CASE y = To("IDLE", ClearManual(a))
  <2>1. PICK d : d = ClearManual(a) OBVIOUS
  <2>2. /\ Plain(d) /\ SamePlace(a, d) /\ SameOrder(a, d) /\ SameCommand(a, d)
        /\ d.saved = a.saved /\ Cleared(d) /\ d.attempts = a.attempts /\ d.healed = a.healed
    BY <2>1, <1>4, ClearManualIs
  <2>3. /\ Plain(y) /\ SameTarget(d, y) /\ SameCommand(d, y) /\ SameOrder(d, y)
        /\ Arrived("IDLE", d, y)
    BY <1>7, <2>1, <2>2, Stated, ToIs
  <2>4. SameOrder(x, y) /\ y.cmd = x.cmd /\ y.saved = x.saved /\ y.attempts = x.attempts
    BY <2>3, <2>2, <1>2 DEF SameOrder, SameCommand, SameTarget, SameAim
  <2>5. y.enabled /\ y.st = "IDLE" /\ y.entered /\ ~y.lost /\ ~y.scanReq
    BY <2>3, <2>2, <1>2, <1>5 DEF Arrived, SamePlace
  <2>6. Targets(y)
    BY <2>3, <2>2, <2>4, <2>5, <1>3 DEF SameTarget, SameAim, Cleared, Targets
  <2> QED BY <2>3, <2>4, <2>5, <2>6, <1>5, LeavesFine
<1>8. CASE ~a.manual /\ y = To("DISCONNECTED", a)
  <2>1. /\ Plain(y) /\ SameTarget(a, y) /\ SameCommand(a, y) /\ SameOrder(a, y)
        /\ Arrived("DISCONNECTED", a, y)
    BY <1>8, <1>4, Stated, ToIs
  <2>2. SameOrder(x, y) /\ y.cmd = x.cmd /\ y.saved = x.saved
    BY <2>1, <1>2 DEF SameOrder, SameCommand, SameTarget, SameAim
  <2>3. y.enabled /\ y.st = "DISCONNECTED" /\ y.entered /\ ~y.lost /\ ~y.scanReq
    BY <2>1, <1>2, <1>5 DEF Arrived
  <2>4. Targets(y)
    BY <2>1, <2>3, <1>2, <1>3, <1>8 DEF SameTarget, SameAim, Targets
  <2> QED BY <2>1, <2>2, <2>3, <2>4, <1>5, LeavesFine
<1> QED BY <1>1, <1>6, <1>7, <1>8 DEF SetupLost

LEMMA InConnectingFine ==
  ASSUME NEW just, NEW x, NEW y, NEW c, Ready(x, just), x.st = "CONNECTING",
         y = InConnecting(x, c, just)
  PROVE  Fine(x, y)
<1>1. PICK v : v = IF x.ready.op = "CONNECT" THEN Take(x) ELSE x OBVIOUS
<1>2. PICK z : z = IF just THEN Begin("CONNECT", v) ELSE v OBVIOUS
<1>3. Plain(x) /\ Targets(x) /\ RadioOK BY DEF Ready, Good
<1>4. /\ Plain(v) /\ SamePlace(x, v) /\ SameTarget(x, v) /\ SameCommand(x, v)
      /\ v.op = x.op /\ v.mine = x.mine /\ v.queued = x.queued /\ v.dest = x.dest
      /\ v.fence = x.fence /\ v.fresh = x.fresh
      /\ v.ready = IF x.ready.op = "CONNECT" THEN NoResult ELSE x.ready
  <2>1. CASE x.ready.op = "CONNECT"
    BY <2>1, <1>1, <1>3, TakeIs DEF Taken
  <2>2. CASE x.ready.op # "CONNECT"
    BY <2>2, <1>1, <1>3 DEF SamePlace, SameTarget, SameAim, SameCommand
  <2> QED BY <2>1, <2>2
<1>5. ~x.scanReq /\ ~x.cmd.pending /\ (just <=> x.fresh)
  BY DEF Ready, Good, Stages, CommandsHeld, Free
<1>6. x.op \in { None, "CONNECT" } /\ (x.queued # None => x.queued = "CONNECT")
  BY DEF Ready, Good, Orders
<1>7. just => /\ x.op = None /\ x.queued = None /\ run = None /\ link = "down" /\ ~owes
              /\ x.ready = NoResult /\ CanBegin(v)
  BY <1>4, <1>5 DEF Ready, Good, Orders, CanBegin
<1>8. CASE x.lost /\ y = ConnectFailure("CONNECT_START", x)
  <2>1. link = "down" /\ x.queued = None
    BY <1>8, <1>5, <1>6, <1>7 DEF Ready, Good, LinksOnce, Free
  <2> QED BY <2>1, <1>3, <1>8, FailsOpenFine DEF SamePlace, SameTarget, SameAim
<1>9. CASE x.ready.op = "CONNECT" /\ ~x.ready.ok /\ y = ConnectFailure("CONNECT_START", v)
  <2>1. link = "down" /\ x.queued = None
    BY <1>9, <1>6 DEF Ready, Good, LinksOnce, Orders, NoResult, None
  <2> QED BY <2>1, <1>4, <1>9, FailsOpenFine DEF SameCommand
<1>10. CASE ~x.lost /\ just /\ ~CanBegin(v)
  BY <1>10, <1>7
<1>11. CASE /\ ~x.lost /\ IsConnected
            /\ y = To("DISCOVERING",
                      [ (IF z.op = "CONNECT" \/ z.ready.op = "CONNECT"
                         THEN DropTransport(z) ELSE z) EXCEPT !.attempts = 0 ])
  <2>1. ~just /\ z = v BY <1>11, <1>2, <1>7 DEF IsConnected, Ready
  <2>2. PICK u : u = IF z.op = "CONNECT" \/ z.ready.op = "CONNECT" THEN DropTransport(z) ELSE z
    OBVIOUS
  <2>3. PICK d : d = [ u EXCEPT !.attempts = 0 ] OBVIOUS
  <2>4. x.queued = None BY <1>6, <1>11 DEF Ready, Good, Orders, IsConnected
  <2>5. x.op = None => x.mine = FALSE BY DEF Ready, Good, Orders, Plain
  <2>6. /\ Plain(u) /\ SamePlace(v, u) /\ SameTarget(v, u) /\ SameCommand(v, u)
        /\ u.op = None /\ u.mine = FALSE /\ u.queued = None /\ u.fence = x.fence
        /\ u.fresh = x.fresh /\ u.ready.op # "CONNECT"
    <3>1. CASE z.op = "CONNECT" \/ z.ready.op = "CONNECT"
      <4>1. u = DropTransport(v) BY <3>1, <2>1, <2>2
      <4>2. Plain(u) /\ SamePlace(v, u) /\ SameTarget(v, u) /\ SameCommand(v, u) /\ Dropped(v, u)
        BY <4>1, <1>4, DropTransportIs
      <4> QED BY <4>2, <2>4, <1>4 DEF Dropped, NoResult, None
    <3>2. CASE ~(z.op = "CONNECT" \/ z.ready.op = "CONNECT")
      BY <3>2, <2>1, <2>2, <2>4, <2>5, <1>4, <1>6
      DEF SamePlace, SameTarget, SameAim, SameCommand
    <3> QED BY <3>1, <3>2
  <2>7. /\ Rec(d) /\ SamePlace(u, d) /\ SameAim(u, d) /\ d.attempts = 0 /\ d.healed = u.healed
        /\ SameOrder(u, d) /\ SameCommand(u, d) /\ SameRest(u, d)
    <3>1. Rec(d) BY <2>3, <2>6 DEF Plain, Rec
    <3>2. u = [ fld \in Fields |-> u[fld] ] BY <2>3, <2>6 DEF Plain, Rec
    <3> QED
      BY <2>3, <2>6, <3>1, <3>2 DEF Fields, SamePlace, SameAim, SameOrder, SameCommand, SameRest
  <2>8. Plain(d)
    BY <2>6, <2>7 DEF Plain, SamePlace, SameAim, SameOrder, SameCommand, SameRest
  <2>9. /\ Plain(y) /\ SameTarget(d, y) /\ SameCommand(d, y) /\ SameOrder(d, y)
        /\ Arrived("DISCOVERING", d, y)
    BY <1>11, <2>2, <2>3, <2>8, Stated, ToIs
  <2>10. /\ y.op = None /\ y.mine = FALSE /\ y.queued = None /\ y.fence = FALSE
         /\ y.fresh = FALSE /\ y.ready.op # "CONNECT"
    BY <2>9, <2>7, <2>6, <2>1, <1>5, <1>3 DEF SameOrder, Ready, Plain
  <2>11. /\ y.enabled /\ y.st = "DISCOVERING" /\ y.entered /\ ~y.lost /\ ~y.scanReq
         /\ ~y.cmd.pending
    BY <2>9, <2>7, <2>6, <1>4, <1>5, <1>11 DEF Arrived, SamePlace, SameCommand, Ready
  <2>12. SameAim(x, y) /\ y.attempts = 0
    BY <2>9, <2>7, <2>6, <1>4 DEF SameAim, SameTarget
  <2>13. Orders(y) BY <2>10, <2>11 DEF Orders, None
  <2>14. LinksOnce(y, FALSE)
    BY <2>10, <2>11, <2>1, <1>5, <1>11 DEF LinksOnce, IsConnected, Ready, Good, Free
  <2>15. Stages(y, y.entered) BY <2>10, <2>11 DEF Stages, Free
  <2>16. Peers(y, y.entered)
    BY <2>12, <2>11, <2>4, <2>1 DEF Peers, Ready, Good, SameAim, Address0, None
  <2>17. CommandsHeld(y, y.entered) BY <2>11 DEF CommandsHeld
  <2>18. Targets(y) BY <2>11, <2>12, <1>3, RuntimeAssumption DEF Targets, SameAim
  <2>19. Steps(x, y)
    BY <2>10, <2>4, <2>12 DEF Steps, Moves, Asks, Saves, SameAim, Ready, None, TransportOps
  <2> QED BY <2>9, <1>3, <2>13, <2>14, <2>15, <2>16, <2>17, <2>18, <2>19 DEF Fine, Good
<1>12. /\ Plain(z) /\ SamePlace(x, z) /\ SameTarget(x, z) /\ SameCommand(x, z)
  <2>1. CASE just
    <3>1. "CONNECT" \in TransportOps BY DEF TransportOps
    <3>2. z = Begin("CONNECT", v) BY <2>1, <1>2
    <3>3. Plain(z) /\ SamePlace(v, z) /\ SameTarget(v, z) /\ SameCommand(v, z)
      BY <3>1, <3>2, <1>4, BeginIs
    <3> QED BY <3>3, <1>4 DEF SamePlace, SameTarget, SameAim, SameCommand
  <2>2. CASE ~just
    BY <2>2, <1>2, <1>4
  <2> QED BY <2>1, <2>2
<1>13. CASE y = ConnectFailure("CONNECT_TIMEOUT", Disconnect(z))
  <2>1. y = Fails("CONNECT_TIMEOUT", z) BY <1>13 DEF Fails
  <2>2. Targets(z) BY <1>12, <1>3 DEF Targets, SameTarget, SameAim, SamePlace
  <2>3. /\ z.saved = x.saved /\ z.enabled /\ ~z.scanReq /\ z.st = "CONNECTING"
    BY <1>12, <1>5 DEF SameTarget, SameAim, SamePlace, Ready
  <2> QED BY <2>1, <2>2, <2>3, <1>3, <1>12, FailsFine DEF Ready
<1>14. CASE y = z /\ ~just /\ ~x.lost
  <2>1. z = v BY <1>14, <1>2
  <2> USE <1>4, <1>14, <2>1 DEF Ready, Good, SamePlace, SameTarget, SameAim, SameCommand
  <2>2. Orders(y) BY DEF Orders, Address0, NoResult, None
  <2>3. LinksOnce(y, FALSE) BY DEF LinksOnce, Free, NoResult, None
  <2>4. Stages(y, y.entered) BY DEF Stages, Free
  <2>5. Peers(y, y.entered) BY DEF Peers, Address0
  <2>6. CommandsHeld(y, y.entered) BY <1>5 DEF CommandsHeld
  <2>7. Targets(y) BY DEF Targets
  <2>8. Steps(x, y) BY DEF Steps, Moves, Asks, Saves, None, TransportOps
  <2> QED BY <2>2, <2>3, <2>4, <2>5, <2>6, <2>7, <2>8 DEF Fine
<1>15. CASE y = z /\ just /\ ~x.lost
  <2>1. "CONNECT" \in TransportOps BY DEF TransportOps
  <2>2. z = Begin("CONNECT", v) BY <1>15, <1>2
  <2>3. Begun("CONNECT", v, z) BY <2>1, <2>2, <1>4, BeginIs
  <2>4. /\ z.op = "CONNECT" /\ z.queued = "CONNECT" /\ ~z.mine /\ z.ready = NoResult
        /\ z.fence = FALSE /\ z.fresh = FALSE /\ z.dest = Address0(z)
    BY <2>3, <1>4, <1>12 DEF Begun, Ready, Address0, SameTarget, SameAim
  <2>5. /\ link = "down" /\ run = None /\ ~owes /\ x.fresh /\ x.queued = None BY <1>15, <1>5, <1>7
  <2>6. /\ z.st = "CONNECTING" /\ z.entered = FALSE /\ z.enabled /\ ~z.scanReq /\ ~z.lost
        /\ ~z.cmd.pending
    BY <1>12, <1>5, <1>15 DEF SamePlace, Ready, SameCommand
  <2>7. Orders(z) BY <2>4, <2>5, <2>6 DEF Orders
  <2>8. LinksOnce(z, FALSE) BY <2>4, <2>5, <2>6 DEF LinksOnce, NoResult, None
  <2>9. Stages(z, z.entered) BY <2>4, <2>6 DEF Stages, Free, Busy
  <2>10. Peers(z, z.entered) BY <2>4, <2>6 DEF Peers, Busy
  <2>11. CommandsHeld(z, z.entered) BY <2>6 DEF CommandsHeld
  <2>12. Targets(z) BY <1>12, <1>3 DEF Targets, SameTarget, SameAim, SamePlace
  <2>13. Steps(x, z)
    BY <2>4, <2>5, <1>12
    DEF Steps, Moves, Asks, Saves, SameTarget, SameAim, Ready, None, TransportOps
  <2> QED BY <1>15, <1>3, <1>12, <2>7, <2>8, <2>9, <2>10, <2>11, <2>12, <2>13 DEF Fine, Good
<1>16. just \in BOOLEAN BY DEF Ready
<1> QED
  BY <1>1, <1>2, <1>8, <1>9, <1>10, <1>11, <1>13, <1>14, <1>15, <1>16 DEF InConnecting

\* A result is taken, or the command dropped, without more.
LEMMA ReadyTaken ==
  ASSUME NEW just, NEW x, NEW w, Ready(x, just), Plain(w), SamePlace(x, w), SameTarget(x, w),
         w.op = x.op, w.mine = x.mine, w.queued = x.queued, w.dest = x.dest,
         w.fence = x.fence, w.fresh = x.fresh, w.ready \in { x.ready, NoResult }, ~w.cmd.pending
  PROVE  Ready(w, just)
<1> USE DEF Ready, Good, SamePlace, SameTarget, SameAim
<1>1. Orders(w) BY DEF Orders, Address0
<1>2. LinksOnce(w, FALSE) BY DEF LinksOnce, Free, NoResult, None
<1>3. Stages(w, just) BY DEF Stages, Free
<1>4. Peers(w, just) BY DEF Peers, Address0
<1>5. CommandsHeld(w, just) BY DEF CommandsHeld
<1>6. Targets(w) BY DEF Targets
<1> QED BY <1>1, <1>2, <1>3, <1>4, <1>5, <1>6

LEMMA FineFrom ==
  ASSUME NEW x, NEW w, NEW y, Fine(w, y), w.queued = x.queued, w.fence = x.fence,
         w.fresh = x.fresh, w.saved = x.saved
  PROVE  Fine(x, y)
  BY DEF Fine, Steps, Moves, Asks, Saves

LEMMA StaysFine ==
  ASSUME NEW just, NEW x, Ready(x, just),
         just = FALSE \/ x.st \notin { "CONNECTING", "DISCONNECTED" }
  PROVE  Fine(x, x)
  BY CoreFine DEF SameCore, SamePlace, SameTarget, SameAim, SameOrder, Ready, Good

LEMMA TakenFine ==
  ASSUME NEW just, NEW x, NEW w, Ready(x, just), Plain(w), SamePlace(x, w), SameTarget(x, w),
         w.op = x.op, w.mine = x.mine, w.queued = x.queued, w.dest = x.dest,
         w.fence = x.fence, w.fresh = x.fresh, w.ready \in { x.ready, NoResult },
         ~w.cmd.pending,
         x.st \in Busy
  PROVE  Fine(x, w)
<1>1. Ready(w, just) BY ReadyTaken
<1>2. w.st \notin { "CONNECTING", "DISCONNECTED" } BY DEF SamePlace, Busy
<1>3. Fine(w, w) BY <1>1, <1>2, StaysFine
<1> QED BY <1>3, FineFrom DEF SameTarget, SameAim

LEMMA WriteFine ==
  ASSUME NEW just, NEW x, NEW w, NEW y, Ready(x, just), Plain(w), SamePlace(x, w),
         SameTarget(x, w),
         w.fence = x.fence, x.st \in { "AT_INIT", "POLLING" }, x.op = None, y = Write(w)
  PROVE  Fine(x, y) /\ y.op = "WRITE" /\ y.ready = NoResult
<1>1. PICK d : d = [ w EXCEPT !.data = None, !.cmd.pending = TRUE ] OBVIOUS
<1>2. y = Begin("WRITE", d) BY <1>1 DEF Write
<1>3. /\ Rec(d) /\ SamePlace(w, d) /\ SameTarget(w, d) /\ SameOrder(w, d) /\ SameRest(w, d)
      /\ d.data = None /\ d.cmd = [ w.cmd EXCEPT !.pending = TRUE ]
  <2>1. Rec(d) BY <1>1 DEF Plain, Rec
  <2>2. w = [ fld \in Fields |-> w[fld] ] BY <1>1 DEF Plain, Rec
  <2> QED BY <1>1, <2>1, <2>2 DEF Fields, SamePlace, SameTarget, SameAim, SameOrder, SameRest
<1>4. d.cmd \in CommandType
  BY <1>3 DEF Plain, CommandType
<1>5. Plain(d)
  BY <1>3, <1>4 DEF Plain, SamePlace, SameTarget, SameAim, SameOrder, SameRest
<1>6. "WRITE" \in TransportOps \ { "CONNECT" } BY DEF TransportOps
<1>7. /\ Plain(y) /\ SamePlace(d, y) /\ SameTarget(d, y) /\ Begun("WRITE", d, y)
  BY <1>2, <1>5, <1>6, BeginIs
<1>8. SamePlace(x, y) /\ SameTarget(x, y)
  BY <1>3, <1>7 DEF SamePlace, SameTarget, SameAim
<1>9. Begun("WRITE", x, y)
  BY <1>3, <1>7 DEF Begun, SameOrder
<1>10. Fine(x, y) BY <1>6, <1>7, <1>8, <1>9, BeginFine DEF Busy
<1> QED BY <1>10, <1>9 DEF Begun

LEMMA StartCommandFine ==
  ASSUME NEW just, NEW x, NEW w, NEW y, Ready(x, just), Plain(w), SamePlace(x, w),
         SameTarget(x, w),
         w.fence = x.fence, x.st \in { "AT_INIT", "POLLING" }, x.op = None, y = StartCommand(w)
  PROVE  Fine(x, y) /\ y.op = "WRITE" /\ y.ready = NoResult
<1>1. PICK k : k = [ NoCommand EXCEPT !.on = TRUE, !.retries = Retries ] OBVIOUS
<1>2. PICK d : d = [ w EXCEPT !.cmd = k ] OBVIOUS
<1>3. y = Write(d) BY <1>1, <1>2 DEF StartCommand
<1>4. k \in CommandType
  <2>1. k = [ on |-> TRUE, pending |-> FALSE, retries |-> Retries, alt |-> FALSE ]
    BY <1>1 DEF NoCommand
  <2>2. Retries \in 0..Retries BY RuntimeAssumption
  <2> QED BY <2>1, <2>2 DEF CommandType
<1>5. /\ Rec(d) /\ SamePlace(w, d) /\ SameTarget(w, d) /\ SameOrder(w, d) /\ SameRest(w, d)
      /\ d.data = w.data /\ d.cmd = k
  <2>1. Rec(d) BY <1>2 DEF Plain, Rec
  <2>2. w = [ fld \in Fields |-> w[fld] ] BY <1>2 DEF Plain, Rec
  <2> QED BY <1>2, <2>1, <2>2 DEF Fields, SamePlace, SameTarget, SameAim, SameOrder, SameRest
<1>6. Plain(d)
  BY <1>4, <1>5 DEF Plain, SamePlace, SameTarget, SameAim, SameOrder, SameRest
<1>7. SamePlace(x, d) /\ SameTarget(x, d) /\ d.fence = x.fence
  BY <1>5 DEF SamePlace, SameTarget, SameAim, SameOrder
<1> QED BY <1>3, <1>6, <1>7, WriteFine

LEMMA RetryFine ==
  ASSUME NEW just, NEW x, NEW w, NEW y, Ready(x, just), Plain(w), SamePlace(x, w),
         SameTarget(x, w),
         w.fence = x.fence, x.st \in { "AT_INIT", "POLLING" }, x.op = None, w.cmd.retries > 0,
         y \in { RetryCommand(w), RetryAlternate(w) }
  PROVE  Fine(x, y)
<1>1. PICK r : r = w.cmd.retries - 1 OBVIOUS
<1>2. PICK d : /\ y = Write(d)
               /\ \E k : d = [ w EXCEPT !.cmd = k ] /\ k \in CommandType
  <2>1. /\ [ w.cmd EXCEPT !.retries = r ] \in CommandType
        /\ [ w.cmd EXCEPT !.retries = r, !.alt = TRUE ] \in CommandType
    <3>1. w.cmd \in CommandType BY DEF Plain
    <3>2. r \in 0..Retries BY <1>1, <3>1, RuntimeAssumption DEF CommandType
    <3>3. PICK k \in CommandType : k = w.cmd BY <3>1
    <3>4. /\ [ k EXCEPT !.retries = r ] \in CommandType
          /\ [ k EXCEPT !.retries = r, !.alt = TRUE ] \in CommandType
      BY <3>2 DEF CommandType
    <3> QED BY <3>3, <3>4
  <2>2. CASE y = RetryCommand(w)
    <3>1. PICK d : d = [ w EXCEPT !.cmd.retries = w.cmd.retries - 1 ] OBVIOUS
    <3>2. y = Write(d) BY <2>2, <3>1 DEF RetryCommand
    <3>3. d = [ w EXCEPT !.cmd = [ w.cmd EXCEPT !.retries = r ] ] BY <1>1, <3>1
    <3> QED BY <2>1, <3>2, <3>3
  <2>3. CASE y = RetryAlternate(w)
    <3>1. PICK d : d = [ w EXCEPT !.cmd.retries = w.cmd.retries - 1, !.cmd.alt = TRUE ] OBVIOUS
    <3>2. y = Write(d) BY <2>3, <3>1 DEF RetryAlternate
    <3>3. d = [ w EXCEPT !.cmd = [ w.cmd EXCEPT !.retries = r, !.alt = TRUE ] ]
      BY <1>1, <3>1 DEF Plain, Rec, Fields
    <3> QED BY <2>1, <3>2, <3>3
  <2> QED BY <2>2, <2>3
<1>3. PICK k : d = [ w EXCEPT !.cmd = k ] /\ k \in CommandType BY <1>2
<1>5. /\ Rec(d) /\ SamePlace(w, d) /\ SameTarget(w, d) /\ SameOrder(w, d) /\ SameRest(w, d)
      /\ d.data = w.data /\ d.cmd = k
  <2>1. Rec(d) BY <1>3 DEF Plain, Rec
  <2>2. w = [ fld \in Fields |-> w[fld] ] BY <1>3 DEF Plain, Rec
  <2> QED BY <1>3, <2>1, <2>2 DEF Fields, SamePlace, SameTarget, SameAim, SameOrder, SameRest
<1>6. Plain(d)
  BY <1>3, <1>5 DEF Plain, SamePlace, SameTarget, SameAim, SameOrder, SameRest
<1>7. SamePlace(x, d) /\ SameTarget(x, d) /\ d.fence = x.fence
  BY <1>5 DEF SamePlace, SameTarget, SameAim, SameOrder
<1> QED BY <1>2, <1>6, <1>7, WriteFine

LEMMA ResetInitIs ==
  ASSUME NEW warm, NEW x, NEW y, warm \in BOOLEAN, Plain(x), y = ResetInit(warm, x)
  PROVE  Plain(y) /\ SamePlace(x, y) /\ SameTarget(x, y) /\ SameOrder(x, y) /\ Quiet(y)
<1>1. PICK a : a = Quieted(x) OBVIOUS
<1>2. y = [ a EXCEPT !.step = 0, !.warm = warm, !.coldUsed = FALSE ] BY <1>1 DEF ResetInit
<1>3. /\ Plain(a) /\ SamePlace(x, a) /\ SameTarget(x, a) /\ SameRest(x, a)
      /\ SameOrder(x, a) /\ Quiet(a)
  BY <1>1, QuietedIs
<1>4. /\ Rec(y) /\ SamePlace(a, y) /\ SameTarget(a, y) /\ SameOrder(a, y) /\ SameCommand(a, y)
      /\ y.found = a.found /\ y.scan = a.scan
      /\ y.wasWarm = a.wasWarm /\ y.warm = warm /\ y.coldUsed = FALSE
      /\ y.step = 0 /\ y.errs = a.errs /\ y.cuts = a.cuts /\ y.backoffs = a.backoffs
      /\ y.v1AtIdle = a.v1AtIdle
  <2>1. Rec(y) BY <1>2, <1>3 DEF Plain, Rec
  <2>2. a = [ fld \in Fields |-> a[fld] ] BY <1>2, <1>3 DEF Plain, Rec
  <2> QED
    BY <1>2, <1>3, <2>1, <2>2 DEF Fields, SamePlace, SameTarget, SameAim, SameOrder, SameCommand
<1>5. Plain(y)
  <2>1. 0 \in Nat OBVIOUS
  <2> QED BY <1>3, <1>4, <2>1 DEF Plain, SamePlace, SameTarget, SameAim, SameOrder, SameCommand
<1> QED
  BY <1>3, <1>4, <1>5 DEF SamePlace, SameTarget, SameAim, SameOrder, SameCommand, Quiet

LEMMA InDiscoveringFine ==
  ASSUME NEW just, NEW x, NEW y, NEW c, Ready(x, just), x.st = "DISCOVERING",
         y = InDiscovering(x, c)
  PROVE  Fine(x, y)
<1>1. Plain(x) /\ Targets(x) /\ RadioOK BY DEF Ready, Good
<1>2. ~x.scanReq /\ ~x.cmd.pending /\ ~x.fresh /\ x.enabled /\ ~x.fence
  BY DEF Ready, Good, Stages, CommandsHeld, Free, Busy
<1>3. PICK v : v = Take(x) OBVIOUS
<1>4. Plain(v) /\ SamePlace(x, v) /\ SameTarget(x, v) /\ SameCommand(x, v) /\ Taken(x, v)
  BY <1>1, <1>3, TakeIs
<1>5. Targets(v) BY <1>1, <1>4 DEF Targets, SamePlace, SameTarget, SameAim
<1>6. CASE y = x
  BY <1>6, StaysFine
<1>7. CASE x.lost /\ y = SetupLost(x)
  BY <1>7, SetupLostFine
<1>8. CASE \E reason : y \in { Fails(reason, v), Fails(reason, x) }
  <2>1. PICK reason : y \in { Fails(reason, v), Fails(reason, x) } BY <1>8
  <2>2. CASE y = Fails(reason, v)
    <3>1. v.saved = x.saved /\ v.enabled /\ ~v.scanReq /\ v.st = "DISCOVERING"
      BY <1>2, <1>4 DEF SamePlace, SameTarget, SameAim
    <3> QED BY <2>2, <3>1, <1>1, <1>2, <1>4, <1>5, FailsFine
  <2>3. CASE y = Fails(reason, x)
    BY <2>3, <1>1, <1>2, FailsFine
  <2> QED BY <2>1, <2>2, <2>3
<1>9. CASE CanBegin(v) /\ y = Begin("SUBSCRIBE", v)
  <2>1. "SUBSCRIBE" \in TransportOps \ { "CONNECT" } BY DEF TransportOps
  <2>2. /\ Plain(y) /\ SamePlace(v, y) /\ SameTarget(v, y) /\ SameCommand(v, y)
        /\ Begun("SUBSCRIBE", v, y)
    BY <2>1, <1>9, <1>4, BeginIs
  <2>3. Begun("SUBSCRIBE", x, y) /\ SamePlace(x, y) /\ SameTarget(x, y) /\ ~y.cmd.pending /\ x.op = None
    BY <2>2, <1>2, <1>4, <1>9
    DEF Begun, Taken, SamePlace, SameTarget, SameAim, SameCommand, CanBegin
  <2> QED BY <2>1, <2>2, <2>3, BeginFine DEF Busy
<1>10. CASE CanBegin(x) /\ y = Begin("DISCOVER", x)
  <2>1. "DISCOVER" \in TransportOps \ { "CONNECT" } BY DEF TransportOps
  <2>2. /\ Plain(y) /\ SamePlace(x, y) /\ SameTarget(x, y) /\ SameCommand(x, y)
        /\ Begun("DISCOVER", x, y)
    BY <2>1, <1>10, <1>1, BeginIs
  <2>3. ~y.cmd.pending /\ x.op = None
    BY <2>2, <1>2, <1>10 DEF SameCommand, CanBegin
  <2> QED BY <2>1, <2>2, <2>3, BeginFine DEF Busy
<1>11. CASE y = To("AT_INIT", [ ResetInit(v.wasWarm, v) EXCEPT !.wasWarm = TRUE ])
  <2>1. PICK a : a = ResetInit(v.wasWarm, v) OBVIOUS
  <2>2. PICK d : d = [ a EXCEPT !.wasWarm = TRUE ] OBVIOUS
  <2>3. Plain(a) /\ SamePlace(v, a) /\ SameTarget(v, a) /\ SameOrder(v, a) /\ Quiet(a)
    <3>1. v.wasWarm \in BOOLEAN BY <1>4 DEF Plain
    <3> QED BY <2>1, <3>1, <1>4, ResetInitIs
  <2>4. /\ Rec(d) /\ SamePlace(a, d) /\ SameTarget(a, d) /\ SameOrder(a, d) /\ SameCommand(a, d)
        /\ d.found = a.found /\ d.scan = a.scan
        /\ d.wasWarm = TRUE /\ d.warm = a.warm /\ d.coldUsed = a.coldUsed
        /\ d.step = a.step /\ d.errs = a.errs /\ d.cuts = a.cuts /\ d.backoffs = a.backoffs
        /\ d.v1AtIdle = a.v1AtIdle
    <3>1. Rec(d) BY <2>2, <2>3 DEF Plain, Rec
    <3>2. a = [ fld \in Fields |-> a[fld] ] BY <2>2, <2>3 DEF Plain, Rec
    <3> QED
      BY <2>2, <2>3, <3>1, <3>2
      DEF Fields, SamePlace, SameTarget, SameAim, SameOrder, SameCommand
  <2>5. Plain(d)
    BY <2>3, <2>4 DEF Plain, SamePlace, SameTarget, SameAim, SameOrder, SameCommand
  <2>6. /\ Plain(y) /\ SameTarget(d, y) /\ SameCommand(d, y) /\ SameOrder(d, y)
        /\ Arrived("AT_INIT", d, y)
    BY <1>11, <2>1, <2>2, <2>5, Stated, ToIs
  <2>7. /\ SameTarget(x, y) /\ Taken(x, y)
    BY <2>6, <2>4, <2>3, <1>4 DEF SameTarget, SameAim, SameOrder, Taken
  <2>8. /\ ~y.cmd.pending /\ y.enabled /\ y.st = "AT_INIT" /\ y.lost = x.lost /\ ~y.scanReq
    BY <2>6, <2>4, <2>3, <1>4, <1>2, NoCommandType DEF Arrived, SamePlace, SameCommand, Quiet
  <2> USE <2>7, <2>8 DEF Ready, Good, SameTarget, SameAim, Taken
  <2>9. Orders(y) BY DEF Orders, NoResult, None
  <2>10. LinksOnce(y, FALSE) BY DEF LinksOnce, Free, NoResult, None
  <2>11. Stages(y, y.entered) BY <1>2 DEF Stages, Free
  <2>12. Peers(y, y.entered) BY DEF Peers, Address0, Busy
  <2>13. CommandsHeld(y, y.entered) BY DEF CommandsHeld
  <2>14. Targets(y) BY DEF Targets
  <2>15. Steps(x, y) BY DEF Steps, Moves, Asks, Saves, None, TransportOps
  <2> QED BY <2>6, <2>9, <2>10, <2>11, <2>12, <2>13, <2>14, <2>15 DEF Fine
<1> QED BY <1>3, <1>6, <1>7, <1>8, <1>9, <1>10, <1>11 DEF InDiscovering

\* What an update changes that the invariant does not look at.
Kept(x, w) ==
    /\ SamePlace(x, w) /\ SameTarget(x, w) /\ w.op = x.op /\ w.mine = x.mine
    /\ w.queued = x.queued /\ w.dest = x.dest /\ w.fence = x.fence /\ w.fresh = x.fresh
    /\ w.ready \in { x.ready, NoResult }

LEMMA ArrivedIs ==
  ASSUME NEW st, NEW x, NEW y, Plain(x), st \in States,
         y = [ x EXCEPT !.st = st, !.entered = TRUE ]
  PROVE  /\ Plain(y) /\ Arrived(st, x, y) /\ SameTarget(x, y) /\ SameOrder(x, y)
         /\ SameCommand(x, y) /\ SameRest(x, y)
<1>1. Rec(y) BY DEF Plain, Rec
<1>2. /\ Arrived(st, x, y) /\ SameTarget(x, y) /\ SameOrder(x, y)
      /\ SameCommand(x, y) /\ SameRest(x, y)
  BY DEF Plain, Rec, Fields, Arrived, SameTarget, SameAim, SameOrder, SameCommand, SameRest
<1> QED
  BY <1>1, <1>2 DEF Plain, Arrived, SameTarget, SameAim, SameOrder, SameCommand, SameRest

LEMMA ToPollingFine ==
  ASSUME NEW just, NEW x, NEW y, Ready(x, just), x.st \in { "AT_INIT", "ERROR_BACKOFF" },
         ~x.cmd.pending, y = To("POLLING", x)
  PROVE  Fine(x, y)
<1>1. Plain(x) BY DEF Ready, Good
<1>2. x.manual => x.cand # NoAddress /\ x.target = x.cand /\ x.fromCand
  BY DEF Ready, Good, Targets
<1>3. PICK d : d = Commit(x) OBVIOUS
<1>4. y = [ d EXCEPT !.st = "POLLING", !.entered = TRUE ] BY <1>3 DEF To
<1>5. /\ Plain(d) /\ SamePlace(x, d) /\ SameOrder(x, d) /\ SameCommand(x, d) /\ ~d.manual
      /\ d.cand = NoAddress /\ ~d.fromCand /\ d.attempts = x.attempts
      /\ d.saved = Address0(x) \/ d.saved = x.saved
      /\ d.target \in { NoAddress, d.saved } /\ peer = d.saved
  <2>1. CASE ~x.manual
    <3>1. d = x BY <2>1, <1>3 DEF Commit, Commits
    <3>2. /\ x.cand = NoAddress /\ ~x.fromCand /\ x.target \in { NoAddress, x.saved }
          /\ peer = Address0(x)
      BY <2>1 DEF Ready, Good, Targets, Peers, Busy
    <3> QED BY <3>1, <3>2, <2>1, <1>1 DEF SamePlace, SameOrder, SameCommand, Address0
  <2>2. CASE x.manual
    <3>1. PICK a : a = [ x EXCEPT !.saved = x.cand, !.wasWarm = x.wasWarm /\ x.saved = x.cand ]
      OBVIOUS
    <3>2. d = ClearManual(a) BY <2>2, <1>2, <1>3, <3>1 DEF Commit, Commits
    <3>3. PICK warm \in BOOLEAN : warm <=> (x.wasWarm /\ x.saved = x.cand) OBVIOUS
    <3>4. a = [ x EXCEPT !.saved = x.cand, !.wasWarm = warm ] BY <3>1, <3>3
    <3>5. /\ Rec(a) /\ SamePlace(x, a) /\ SameOrder(x, a) /\ SameCommand(x, a)
          /\ a.preempt = x.preempt /\ a.saved = x.cand /\ a.target = x.target
          /\ a.fromCand = x.fromCand /\ a.cand = x.cand /\ a.manual = x.manual
          /\ a.attempts = x.attempts /\ a.healed = x.healed
          /\ a.found = x.found /\ a.scan = x.scan
          /\ a.wasWarm = warm /\ a.warm = x.warm /\ a.coldUsed = x.coldUsed
          /\ a.step = x.step /\ a.errs = x.errs /\ a.cuts = x.cuts
          /\ a.backoffs = x.backoffs /\ a.v1AtIdle = x.v1AtIdle
      <4>1. Rec(a) BY <3>4, <1>1 DEF Plain, Rec
      <4>2. x = [ fld \in Fields |-> x[fld] ] BY <3>4, <1>1 DEF Plain, Rec
      <4> QED BY <3>4, <1>1, <4>1, <4>2 DEF Fields, SamePlace, SameOrder, SameCommand
    <3>6. Plain(a) BY <3>3, <3>5, <1>1 DEF Plain, SamePlace, SameOrder, SameCommand
    <3>7. /\ Plain(d) /\ SamePlace(a, d) /\ SameOrder(a, d) /\ SameCommand(a, d)
          /\ d.saved = a.saved /\ Cleared(d) /\ d.attempts = a.attempts
      BY <3>2, <3>6, ClearManualIs
    <3>8. peer = Address0(x) /\ Address0(x) = x.cand
      BY <1>2, <2>2 DEF Ready, Good, Peers, Busy, Address0
    <3> QED
      BY <3>5, <3>7, <3>8 DEF Cleared, SamePlace, SameOrder, SameCommand
  <2> QED BY <2>1, <2>2
<1>6. /\ Plain(y) /\ Arrived("POLLING", d, y) /\ SameTarget(d, y) /\ SameOrder(d, y)
      /\ SameCommand(d, y)
  BY <1>4, <1>5, Stated, ArrivedIs
<1>8. /\ y.st = "POLLING" /\ y.entered /\ y.enabled /\ ~y.manual /\ y.cand = NoAddress
      /\ ~y.fromCand /\ y.attempts = x.attempts /\ peer = y.saved
      /\ y.target \in { NoAddress, y.saved } /\ SameOrder(x, y) /\ ~y.cmd.pending
      /\ y.lost = x.lost /\ y.scanReq = x.scanReq
  BY <1>5, <1>6
  DEF Arrived, SameTarget, SameAim, SameOrder, SameCommand, Ready, SamePlace
<1> USE <1>8 DEF Ready, Good, SameOrder
<1>9. Orders(y) BY DEF Orders, NoResult, None
<1>10. LinksOnce(y, FALSE) BY DEF LinksOnce, Free
<1>11. Stages(y, y.entered) BY DEF Stages, Free, Busy
<1>12. Peers(y, y.entered) BY DEF Peers, Address0, Busy
<1>13. CommandsHeld(y, y.entered) BY DEF CommandsHeld
<1>14. Targets(y) BY DEF Targets
<1>15. Steps(x, y) BY DEF Steps, Moves, Asks, Saves, None, TransportOps
<1> QED BY <1>6, <1>9, <1>10, <1>11, <1>12, <1>13, <1>14, <1>15 DEF Fine

LEMMA KeptFails ==
  ASSUME NEW just, NEW reason, NEW x, NEW w, NEW y, Ready(x, just),
         x.st \in { "DISCOVERING", "AT_INIT" }, Plain(w), Kept(x, w), y = Fails(reason, w)
  PROVE  Fine(x, y)
<1>1. /\ Plain(x) /\ RadioOK /\ x.fence = FALSE /\ w.saved = x.saved /\ w.enabled /\ ~w.scanReq
      /\ w.st \notin { "IDLE", "SCANNING" }
  BY DEF Ready, Good, Kept, SamePlace, SameTarget, SameAim, Stages
<1>2. Targets(w) BY DEF Ready, Good, Kept, SamePlace, SameTarget, SameAim, Targets
<1> QED BY <1>1, <1>2, FailsFine

LEMMA ExhaustedFine ==
  ASSUME NEW just, NEW reason, NEW x, NEW w, NEW y, Ready(x, just), x.st = "AT_INIT",
         Plain(w), Kept(x, w), ~w.cmd.pending, y = Exhausted(reason, w)
  PROVE  Fine(x, y)
<1>1. CASE CanRetry(w) /\ y = RetryCommand(w)
  <2>1. x.op = None /\ w.cmd.retries > 0 /\ SamePlace(x, w) /\ SameTarget(x, w) /\ w.fence = x.fence
    BY <1>1 DEF CanRetry, CanBegin, Kept
  <2> QED BY <2>1, <1>1, RetryFine
<1>2. CASE y = ResetInit(FALSE, w)
  <2>1. Plain(y) /\ SamePlace(w, y) /\ SameTarget(w, y) /\ SameOrder(w, y) /\ Quiet(y)
    <3>1. PICK no \in BOOLEAN : no = FALSE OBVIOUS
    <3>2. y = ResetInit(no, w) BY <1>2, <3>1
    <3> QED BY <3>2, ResetInitIs
  <2>2. ~y.cmd.pending BY <2>1, NoCommandType DEF Quiet
  <2>3. /\ SamePlace(x, y) /\ SameTarget(x, y) /\ y.op = x.op /\ y.mine = x.mine
        /\ y.queued = x.queued /\ y.dest = x.dest /\ y.fence = x.fence /\ y.fresh = x.fresh
        /\ y.ready \in { x.ready, NoResult }
    BY <2>1 DEF Kept, SamePlace, SameTarget, SameAim, SameOrder
  <2> QED BY <2>1, <2>2, <2>3, TakenFine DEF Busy
<1>3. CASE y = Fails(reason, w)
  BY <1>3, KeptFails
<1> QED BY <1>1, <1>2, <1>3 DEF Exhausted

LEMMA WriteFailsFine ==
  ASSUME NEW just, NEW x, NEW w, NEW y, Ready(x, just), x.st = "AT_INIT",
         Plain(w), Kept(x, w), y = WriteFails(w)
  PROVE  Fine(x, y)
<1>1. CASE CanHeal(w) /\ y = Heal(w)
  <2>1. /\ Plain(y) /\ Closed(y) /\ Quiet(y) /\ Moved("DISCONNECTED", w, y)
         /\ SameAim(w, y) /\ y.attempts = w.attempts /\ y.healed = Address0(w)
    BY <1>1, HealIs
  <2>2. ~y.cmd.pending BY <2>1, NoCommandType DEF Quiet
  <2>3. Targets(y)
    BY <2>1 DEF Ready, Good, Targets, Moved, SameAim, SameTarget, Address0, Kept
  <2>4. /\ y.enabled /\ ~y.scanReq /\ y.st = "DISCONNECTED" /\ y.saved = x.saved
        /\ x.fence = FALSE /\ RadioOK /\ Plain(x)
    BY <2>1 DEF Moved, SameAim, SameTarget, SamePlace, Kept, Ready, Good, Stages
  <2> QED BY <2>1, <2>2, <2>3, <2>4, ClosedFine DEF Busy
<1>2. CASE y = Fails("WRITE", w)
  BY <1>2, KeptFails
<1> QED BY <1>1, <1>2 DEF WriteFails

LEMMA InAtInitFine ==
  ASSUME NEW just, NEW x, NEW y, NEW c, Ready(x, just), x.st = "AT_INIT", y = InAtInit(x, c)
  PROVE  Fine(x, y)
<1>1. Plain(x) BY DEF Ready, Good
<1>2. PICK v : v = Take(x) OBVIOUS
<1>3. Plain(v) /\ SamePlace(x, v) /\ SameTarget(x, v) /\ SameRest(x, v) /\ SameCommand(x, v) /\ Taken(x, v)
  BY <1>1, <1>2, TakeIs
<1>4. Kept(x, v) /\ Kept(x, x)
  BY <1>3 DEF Kept, Taken, SamePlace, SameTarget, SameAim
<1>5. CASE y = x
  BY <1>5, StaysFine
<1>6. CASE x.lost /\ y = SetupLost(x)
  BY <1>6, SetupLostFine
<1>7. CASE y = [ v EXCEPT !.cmd.pending = FALSE ]
  <2>1. /\ Rec(y) /\ SamePlace(v, y) /\ SameTarget(v, y) /\ SameOrder(v, y) /\ SameRest(v, y)
        /\ y.data = v.data /\ y.cmd = [ v.cmd EXCEPT !.pending = FALSE ]
    <3>1. Rec(y) BY <1>7, <1>3 DEF Plain, Rec
    <3>2. v = [ fld \in Fields |-> v[fld] ] BY <1>7, <1>3 DEF Plain, Rec
    <3> QED
      BY <1>7, <1>3, <3>1, <3>2 DEF Fields, SamePlace, SameTarget, SameAim, SameOrder, SameRest
  <2>2. v.cmd \in CommandType BY <1>3 DEF Plain
  <2>3. y.cmd \in CommandType /\ ~y.cmd.pending BY <2>1, <2>2 DEF CommandType
  <2>4. Plain(y)
    BY <2>1, <2>3, <1>3 DEF Plain, SamePlace, SameTarget, SameAim, SameOrder, SameRest
  <2>5. Kept(x, y)
    BY <2>1, <1>4 DEF Kept, SamePlace, SameTarget, SameAim, SameOrder
  <2> QED BY <2>3, <2>4, <2>5, TakenFine DEF Busy, Kept
<1>8. CASE y = WriteFails(v) \/ y = WriteFails(x)
  BY <1>8, <1>1, <1>3, <1>4, WriteFailsFine
<1>9. CASE ~x.cmd.pending /\ y = [ Quieted(x) EXCEPT !.step = x.step + 1 ]
  <2>1. PICK a : a = Quieted(x) OBVIOUS
  <2>2. /\ Plain(a) /\ SamePlace(x, a) /\ SameTarget(x, a) /\ SameRest(x, a)
        /\ SameOrder(x, a) /\ Quiet(a)
    BY <2>1, <1>1, QuietedIs
  <2>3. /\ Rec(y) /\ SamePlace(a, y) /\ SameTarget(a, y) /\ SameOrder(a, y) /\ SameCommand(a, y)
        /\ y.found = a.found /\ y.scan = a.scan
        /\ y.wasWarm = a.wasWarm /\ y.warm = a.warm /\ y.coldUsed = a.coldUsed
        /\ y.step = x.step + 1 /\ y.errs = a.errs /\ y.cuts = a.cuts /\ y.backoffs = a.backoffs
        /\ y.v1AtIdle = a.v1AtIdle
    <3>1. Rec(y) BY <2>1, <2>2, <1>9 DEF Plain, Rec
    <3>2. a = [ fld \in Fields |-> a[fld] ] BY <2>1, <2>2, <1>9 DEF Plain, Rec
    <3> QED BY <2>1, <2>2, <1>9, <3>1, <3>2
      DEF Fields, SamePlace, SameTarget, SameAim, SameOrder, SameCommand
  <2>4. Plain(y)
    <3>1. x.step + 1 \in Nat BY <1>1 DEF Plain
    <3> QED
      BY <2>2, <2>3, <3>1 DEF Plain, SamePlace, SameTarget, SameAim, SameOrder, SameCommand
  <2>5. ~y.cmd.pending BY <2>2, <2>3, NoCommandType DEF Quiet, SameCommand
  <2>6. Kept(x, y)
    BY <2>2, <2>3 DEF Kept, SamePlace, SameTarget, SameAim, SameOrder
  <2> QED BY <2>4, <2>5, <2>6, TakenFine DEF Busy, Kept
<1>10. CASE ~x.cmd.pending /\ y = Exhausted("INIT_RESPONSE", [ x EXCEPT !.data = None ])
  <2>1. PICK a : a = [ x EXCEPT !.data = None ] OBVIOUS
  <2>2. /\ Rec(a) /\ SamePlace(x, a) /\ SameTarget(x, a) /\ SameOrder(x, a) /\ SameRest(x, a)
        /\ a.data = None /\ a.cmd = x.cmd
    <3>1. Rec(a) BY <2>1, <1>1 DEF Plain, Rec
    <3>2. x = [ fld \in Fields |-> x[fld] ] BY <2>1, <1>1 DEF Plain, Rec
    <3> QED
      BY <2>1, <1>1, <3>1, <3>2 DEF Fields, SamePlace, SameTarget, SameAim, SameOrder, SameRest
  <2>3. Plain(a)
    BY <2>2, <1>1 DEF Plain, SamePlace, SameTarget, SameAim, SameOrder, SameRest
  <2>4. Kept(x, a)
    BY <2>2 DEF Kept, SameOrder
  <2> QED BY <1>10, <2>1, <2>2, <2>3, <2>4, ExhaustedFine
<1>11. CASE ~x.cmd.pending /\ y = Exhausted("INIT_TIMEOUT", x)
  BY <1>11, <1>1, <1>4, ExhaustedFine
<1>12. CASE CanAlternate(x) /\ y = RetryAlternate(x)
  <2>1. x.op = None /\ x.cmd.retries > 0 /\ SamePlace(x, x) /\ SameTarget(x, x)
    BY <1>12 DEF CanAlternate, CanRetry, CanBegin, SamePlace, SameTarget, SameAim
  <2> QED BY <2>1, <1>1, <1>12, RetryFine
<1>13. CASE CanBegin(x) /\ y = StartCommand(x)
  <2>1. x.op = None /\ SamePlace(x, x) /\ SameTarget(x, x)
    BY <1>13 DEF CanBegin, SamePlace, SameTarget, SameAim
  <2> QED BY <2>1, <1>1, <1>13, StartCommandFine
<1>14. CASE ~x.cmd.pending /\ y = To("POLLING", [ x EXCEPT !.errs = 0, !.data = None ])
  <2>1. PICK a : a = [ x EXCEPT !.errs = 0, !.data = None ] OBVIOUS
  <2>2. /\ Rec(a) /\ SamePlace(x, a) /\ SameTarget(x, a) /\ SameOrder(x, a)
        /\ a.data = None /\ a.cmd = x.cmd
        /\ a.found = x.found /\ a.scan = x.scan
        /\ a.wasWarm = x.wasWarm /\ a.warm = x.warm /\ a.coldUsed = x.coldUsed
        /\ a.step = x.step /\ a.errs = 0 /\ a.cuts = x.cuts /\ a.backoffs = x.backoffs
        /\ a.v1AtIdle = x.v1AtIdle
    <3>1. Rec(a) BY <2>1, <1>1 DEF Plain, Rec
    <3>2. x = [ fld \in Fields |-> x[fld] ] BY <2>1, <1>1 DEF Plain, Rec
    <3> QED BY <2>1, <1>1, <3>1, <3>2 DEF Fields, SamePlace, SameTarget, SameAim, SameOrder
  <2>3. Plain(a)
    <3>1. 0 \in 0..CutErrors BY RuntimeAssumption
    <3> QED BY <2>2, <1>1, <3>1 DEF Plain, SamePlace, SameTarget, SameAim, SameOrder
  <2>4. Ready(a, just) /\ a.st = "AT_INIT" /\ ~a.cmd.pending
    <3>1. a.ready \in { x.ready, NoResult } BY <2>2 DEF SameOrder
    <3>2. ~a.cmd.pending BY <2>2, <1>14
    <3>3. a.st = "AT_INIT" BY <2>2 DEF SamePlace
    <3> QED BY <2>2, <2>3, <3>1, <3>2, <3>3, ReadyTaken DEF SameOrder
  <2>5. Fine(a, y) BY <2>1, <2>4, <1>14, ToPollingFine
  <2> QED BY <2>2, <2>5, FineFrom DEF SameOrder, SameTarget, SameAim
<1>15. x.data \in Responses \cup { None } BY <1>1 DEF Plain
<1>16. x.cmd.on \in BOOLEAN /\ x.cmd.pending \in BOOLEAN /\ x.lost \in BOOLEAN
  BY <1>1 DEF Plain, CommandType
<1>17. CASE x.lost
  BY <1>17, <1>6 DEF InAtInit
<1>18. CASE ~x.lost /\ x.cmd.pending
  <2>1. \/ y = x
        \/ y = [ Take(x) EXCEPT !.cmd.pending = FALSE ]
        \/ y = WriteFails(Take(x))
    BY <1>18 DEF InAtInit
  <2> QED BY <2>1, <1>2, <1>5, <1>7, <1>8
<1>19. CASE ~x.lost /\ x.cmd.on /\ ~x.cmd.pending
  <2>1. \/ y = [ Quieted(x) EXCEPT !.step = x.step + 1 ]
        \/ y = Exhausted("INIT_RESPONSE", [ x EXCEPT !.data = None ])
        \/ CanAlternate(x) /\ y = RetryAlternate(x)
        \/ y = Exhausted("INIT_TIMEOUT", x)
        \/ y = x
    BY <1>19, <1>15 DEF InAtInit, Responses
  <2> QED BY <2>1, <1>19, <1>5, <1>9, <1>10, <1>11, <1>12
<1>20. CASE ~x.lost /\ ~x.cmd.on /\ ~x.cmd.pending
  <2>1. x.step \in Nat /\ InitLength[x.warm] \in Nat BY <1>1, RuntimeAssumption DEF Plain
  <2>2. \/ y = To("POLLING", [ x EXCEPT !.errs = 0, !.data = None ])
        \/ CanBegin(x) /\ y = StartCommand(x)
        \/ y = WriteFails(x)
        \/ y = x
    BY <1>20, <2>1 DEF InAtInit
  <2> QED BY <2>2, <1>20, <1>5, <1>8, <1>13, <1>14
<1> QED BY <1>17, <1>18, <1>19, <1>20

LEMMA PollErrorFine ==
  ASSUME NEW just, NEW cuts, NEW x, NEW w, NEW y, Ready(x, just), x.st = "POLLING",
         Plain(w), Kept(x, w), cuts \in BOOLEAN, y = PollError(cuts, w)
  PROVE  Fine(x, y) /\ (y.st = "POLLING" => Plain(y) /\ Kept(x, y) /\ ~y.cmd.pending)
<1>1. PICK a : a = Quieted(w) OBVIOUS
<1>2. PICK n : n = IF w.errs < CutErrors THEN w.errs + 1 ELSE CutErrors OBVIOUS
<1>3. PICK d : d = [ a EXCEPT !.cuts = cuts, !.errs = n ] OBVIOUS
<1>4. n \in 0..CutErrors
  <2>1. w.errs \in 0..CutErrors /\ CutErrors \in Nat BY RuntimeAssumption DEF Plain
  <2> QED BY <1>2, <2>1
<1>5. /\ Plain(a) /\ SamePlace(w, a) /\ SameTarget(w, a) /\ SameRest(w, a)
      /\ SameOrder(w, a) /\ Quiet(a)
  BY <1>1, QuietedIs
<1>6. /\ Rec(d) /\ SamePlace(a, d) /\ SameTarget(a, d) /\ SameOrder(a, d) /\ SameCommand(a, d)
      /\ d.found = a.found /\ d.scan = a.scan
      /\ d.wasWarm = a.wasWarm /\ d.warm = a.warm /\ d.coldUsed = a.coldUsed
      /\ d.step = a.step /\ d.errs = n /\ d.cuts = cuts /\ d.backoffs = a.backoffs
      /\ d.v1AtIdle = a.v1AtIdle
  <2>1. Rec(d) BY <1>3, <1>5 DEF Plain, Rec
  <2>2. a = [ fld \in Fields |-> a[fld] ] BY <1>3, <1>5 DEF Plain, Rec
  <2> QED
    BY <1>3, <1>5, <2>1, <2>2 DEF Fields, SamePlace, SameTarget, SameAim, SameOrder, SameCommand
<1>7. Plain(d)
  BY <1>4, <1>5, <1>6 DEF Plain, SamePlace, SameTarget, SameAim, SameOrder, SameCommand
<1>8. Kept(x, d)
  BY <1>5, <1>6 DEF Kept, SamePlace, SameTarget, SameAim, SameOrder
<1>9. ~d.cmd.pending BY <1>5, <1>6, NoCommandType DEF Quiet, SameCommand
<1>10. Ready(d, just) /\ d.st = "POLLING"
  BY <1>7, <1>8, <1>9, ReadyTaken DEF Kept, SamePlace
<1>11. d.queued = x.queued /\ d.fence = x.fence /\ d.fresh = x.fresh /\ d.saved = x.saved
  BY <1>8 DEF Kept, SameTarget, SameAim
<1>12. CASE y = To("DISCONNECTED", d)
  <2>1. /\ Plain(y) /\ SameTarget(d, y) /\ SameCommand(d, y) /\ SameOrder(d, y)
        /\ Arrived("DISCONNECTED", d, y)
    BY <1>12, <1>7, Stated, ToIs
  <2>2. y.enabled /\ y.st = "DISCONNECTED" /\ y.entered /\ y.lost = d.lost /\ ~y.scanReq
    BY <2>1, <1>10 DEF Arrived, Ready, Good, Stages
  <2>3. Targets(y)
    BY <2>1, <2>2, <1>10 DEF Ready, Good, SameTarget, SameAim, Targets
  <2>4. d.queued # "CONNECT" /\ link # "connecting"
    BY <1>10 DEF Ready, Good, Orders, LinksOnce
  <2>5. y.saved = d.saved /\ y.cmd = d.cmd BY <2>1 DEF SameTarget, SameAim, SameCommand
  <2>6. Fine(d, y) BY <2>1, <2>2, <2>3, <2>4, <2>5, <1>10, LeavesFine
  <2> QED BY <2>2, <2>6, <1>11, FineFrom
<1>13. CASE y = To("ERROR_BACKOFF", d)
  <2>1. /\ Plain(y) /\ SameTarget(d, y) /\ SameCommand(d, y) /\ SameOrder(d, y)
        /\ Arrived("ERROR_BACKOFF", d, y)
    BY <1>13, <1>7, Stated, ToIs
  <2>2. y.enabled /\ y.st = "ERROR_BACKOFF" /\ y.entered /\ y.lost = d.lost /\ y.scanReq = d.scanReq
        /\ ~y.cmd.pending
    BY <2>1, <1>9, <1>10 DEF Arrived, Ready, SameCommand
  <2> USE <2>1, <2>2, <1>10 DEF Ready, Good, SameOrder, SameTarget, SameAim
  <2>3. Orders(y) BY DEF Orders, NoResult, None
  <2>4. LinksOnce(y, FALSE) BY DEF LinksOnce, Free
  <2>5. Stages(y, y.entered) BY DEF Stages, Free, Busy
  <2>6. Peers(y, y.entered) BY DEF Peers, Address0, Busy
  <2>7. CommandsHeld(y, y.entered) BY DEF CommandsHeld
  <2>8. Targets(y) BY DEF Targets
  <2>9. Steps(d, y) BY DEF Steps, Moves, Asks, Saves, None, TransportOps
  <2>10. Fine(d, y) BY <2>3, <2>4, <2>5, <2>6, <2>7, <2>8, <2>9 DEF Fine
  <2> QED BY <2>10, <1>11, FineFrom
<1>14. CASE y = d
  <2>1. Fine(x, d) BY <1>7, <1>8, <1>9, TakenFine DEF Busy, Kept
  <2> QED BY <2>1, <1>14, <1>7, <1>8, <1>9
<1> QED BY <1>1, <1>2, <1>3, <1>12, <1>13, <1>14 DEF PollError

LEMMA NextPollFine ==
  ASSUME NEW just, NEW x, NEW w, NEW y, NEW c, Ready(x, just), x.st = "POLLING",
         Plain(w), Kept(x, w), ~w.cmd.pending, y = NextPoll(w, c)
  PROVE  Fine(x, y)
<1>1. CASE ~w.cmd.on /\ c.due /\ CanBegin(w) /\ w.ready = NoResult
  <2>1. PICK v : v = StartCommand(w) OBVIOUS
  <2>2. x.op = None /\ SamePlace(x, w) /\ SameTarget(x, w) /\ w.fence = x.fence
    BY <1>1 DEF CanBegin, Kept
  <2>3. Fine(x, v) /\ v.op = "WRITE" /\ v.ready = NoResult
    BY <2>1, <2>2, StartCommandFine
  <2>4. v.ready.op # "RSSI_READ" /\ ~CanBegin(v)
    BY <2>3, NoCommandType DEF CanBegin, None
  <2>5. y = v BY <2>1, <2>4, <1>1 DEF NextPoll
  <2> QED BY <2>3, <2>5
<1>2. CASE ~(~w.cmd.on /\ c.due /\ CanBegin(w) /\ w.ready = NoResult)
  <2>1. CASE w.ready.op = "RSSI_READ"
    <3>1. y = Take(w) BY <2>1, <1>2, NoCommandType DEF NextPoll, None
    <3>2. Plain(y) /\ SamePlace(w, y) /\ SameTarget(w, y) /\ SameCommand(w, y) /\ Taken(w, y)
      BY <3>1, TakeIs
    <3>3. Kept(x, y) /\ ~y.cmd.pending
      BY <3>2 DEF Kept, SamePlace, SameTarget, SameAim, SameCommand, Taken
    <3> QED BY <3>2, <3>3, TakenFine DEF Busy, Kept
  <2>2. CASE w.ready.op # "RSSI_READ" /\ w.ready = NoResult /\ CanBegin(w) /\ ~w.cmd.pending /\ c.rssiDue
    <3>1. y = Begin("RSSI_READ", w) BY <2>2, <1>2 DEF NextPoll
    <3>2. "RSSI_READ" \in TransportOps \ { "CONNECT" } BY DEF TransportOps
    <3>3. Plain(y) /\ SamePlace(w, y) /\ SameTarget(w, y) /\ SameCommand(w, y) /\ Begun("RSSI_READ", w, y)
      BY <3>1, <3>2, BeginIs
    <3>4. /\ SamePlace(x, y) /\ SameTarget(x, y) /\ Begun("RSSI_READ", x, y) /\ ~y.cmd.pending
          /\ x.op = None
      BY <2>2, <3>3
      DEF Kept, SamePlace, SameTarget, SameAim, SameCommand, Begun, CanBegin
    <3> QED BY <3>2, <3>3, <3>4, BeginFine DEF Busy
  <2>3. CASE w.ready.op # "RSSI_READ" /\ ~(w.ready = NoResult /\ CanBegin(w) /\ ~w.cmd.pending /\ c.rssiDue)
    <3>1. y = w BY <2>3, <1>2 DEF NextPoll
    <3>2. Fine(x, w) BY TakenFine DEF Busy, Kept
    <3> QED BY <3>1, <3>2
  <2> QED BY <2>1, <2>2, <2>3
<1> QED BY <1>1, <1>2

LEMMA CommandSetIs ==
  ASSUME NEW k, NEW x, NEW y, Plain(x), k \in CommandType, y = [ x EXCEPT !.cmd = k ]
  PROVE  /\ Plain(y) /\ y.cmd = k
         /\ SamePlace(x, y) /\ SameTarget(x, y) /\ SameOrder(x, y) /\ SameRest(x, y)
<1>1. Rec(y) BY DEF Plain, Rec
<1>2. /\ SamePlace(x, y) /\ SameTarget(x, y) /\ SameOrder(x, y) /\ SameRest(x, y)
      /\ y.data = x.data /\ y.cmd = k
  BY DEF Plain, Rec, Fields, SamePlace, SameTarget, SameAim, SameOrder, SameRest
<1>3. Plain(y)
  BY <1>1, <1>2 DEF Plain, SamePlace, SameTarget, SameAim, SameOrder, SameRest
<1> QED BY <1>2, <1>3

LEMMA WrittenIs ==
  ASSUME NEW x, NEW y, Plain(x), y = [ x EXCEPT !.cmd.pending = FALSE ]
  PROVE  /\ Plain(y) /\ ~y.cmd.pending
         /\ SamePlace(x, y) /\ SameTarget(x, y) /\ SameOrder(x, y) /\ SameRest(x, y)
<1>1. PICK k : k = [ x.cmd EXCEPT !.pending = FALSE ] OBVIOUS
<1>2. x.cmd \in CommandType BY DEF Plain
<1>3. k \in CommandType /\ ~k.pending BY <1>1, <1>2 DEF CommandType
<1>4. y = [ x EXCEPT !.cmd = k ] BY <1>1
<1> QED BY <1>3, <1>4, CommandSetIs

LEMMA InPollingFine ==
  ASSUME NEW just, NEW x, NEW y, NEW c, Ready(x, just), x.st = "POLLING", y = InPolling(x, c)
  PROVE  Fine(x, y)
<1>1. Plain(x) BY DEF Ready, Good
<1>2. PICK v : v = Take(x) OBVIOUS
<1>3. Plain(v) /\ SamePlace(x, v) /\ SameTarget(x, v) /\ SameRest(x, v) /\ SameCommand(x, v) /\ Taken(x, v)
  BY <1>1, <1>2, TakeIs
<1>4. Kept(x, v) /\ Kept(x, x)
  BY <1>3 DEF Kept, Taken, SamePlace, SameTarget, SameAim
<1>5. CASE x.lost
  <2>1. PICK a : a = Quieted(x) OBVIOUS
  <2>2. PICK d : d = [ a EXCEPT !.lost = FALSE ] OBVIOUS
  <2>3. y = To("DISCONNECTED", d) BY <1>5, <2>1, <2>2 DEF InPolling
  <2>4. /\ Plain(a) /\ SamePlace(x, a) /\ SameTarget(x, a) /\ SameRest(x, a)
        /\ SameOrder(x, a) /\ Quiet(a)
    BY <1>1, <2>1, QuietedIs
  <2>5. /\ Rec(d) /\ d.enabled = a.enabled /\ d.st = a.st /\ d.entered = a.entered
        /\ d.lost = FALSE /\ d.scanReq = a.scanReq /\ SameTarget(a, d)
        /\ SameOrder(a, d) /\ SameCommand(a, d) /\ SameRest(a, d)
    <3>1. Rec(d) BY <2>2, <2>4 DEF Plain, Rec
    <3>2. a = [ fld \in Fields |-> a[fld] ] BY <2>2, <2>4 DEF Plain, Rec
    <3> QED
      BY <2>2, <2>4, <3>1, <3>2
      DEF Fields, SameTarget, SameAim, SameOrder, SameCommand, SameRest
  <2>6. Plain(d)
    BY <2>4, <2>5 DEF Plain, SameTarget, SameAim, SameOrder, SameCommand, SameRest
  <2>7. /\ Plain(y) /\ SameTarget(d, y) /\ SameCommand(d, y) /\ SameOrder(d, y)
        /\ Arrived("DISCONNECTED", d, y)
    BY <2>3, <2>6, Stated, ToIs
  <2>8. /\ y.enabled /\ y.st = "DISCONNECTED" /\ y.entered /\ ~y.lost /\ ~y.scanReq
        /\ ~y.cmd.pending
    BY <2>7, <2>5, <2>4, NoCommandType
    DEF Arrived, SamePlace, Ready, Good, Stages, SameCommand, Quiet
  <2>9. SameOrder(x, y) /\ SameTarget(x, y)
    BY <2>7, <2>5, <2>4 DEF SameOrder, SameTarget, SameAim
  <2>10. Targets(y)
    BY <2>9, <2>8 DEF Ready, Good, SameTarget, SameAim, Targets
  <2>11. x.queued # "CONNECT" /\ link # "connecting" /\ y.saved = x.saved
    BY <2>9 DEF Ready, Good, Orders, LinksOnce, SameTarget, SameAim
  <2> QED BY <2>7, <2>8, <2>9, <2>10, <2>11, LeavesFine
<1>6. CASE ~x.lost /\ x.cmd.pending
  <2>1. CASE y = x BY <2>1, StaysFine
  <2>2. CASE y = [ v EXCEPT !.cmd.pending = FALSE ]
    <3>1. /\ Plain(y) /\ ~y.cmd.pending
          /\ SamePlace(v, y) /\ SameTarget(v, y) /\ SameOrder(v, y)
      BY <2>2, <1>3, WrittenIs
    <3>2. Kept(x, y)
      BY <3>1, <1>4 DEF Kept, SamePlace, SameTarget, SameAim, SameOrder
    <3> QED BY <3>1, <3>2, TakenFine DEF Busy, Kept
  <2>3. CASE y = PollError(TRUE, v)
    <3>1. PICK yes \in BOOLEAN : yes = TRUE OBVIOUS
    <3>2. y = PollError(yes, v) BY <2>3, <3>1
    <3> QED BY <3>2, <1>3, <1>4, PollErrorFine
  <2>4. \/ y = x
        \/ y = [ Take(x) EXCEPT !.cmd.pending = FALSE ]
        \/ y = PollError(TRUE, Take(x))
    BY <1>6 DEF InPolling
  <2> QED BY <2>1, <2>2, <2>3, <2>4, <1>2
<1>7. CASE ~x.lost /\ x.cmd.on /\ ~x.cmd.pending /\ x.data \in { "good", "bad", "overflow" }
  <2>1. PICK r : r = Reply(x) OBVIOUS
  <2>2. \/ r.st = "POLLING" /\ y = NextPoll(r, c)
        \/ r.st # "POLLING" /\ y = r
    <3>1. x.data \notin { None, "partial" } BY <1>7 DEF None
    <3> HIDE DEF Reply, NextPoll
    <3> QED BY <1>7, <2>1, <3>1 DEF InPolling
  <2>3. Fine(x, r) /\ (r.st = "POLLING" => Plain(r) /\ Kept(x, r) /\ ~r.cmd.pending)
    <3>1. CASE x.data = "good"
      <4>1. PICK a : a = Quieted(x) OBVIOUS
      <4>2. r = [ a EXCEPT !.errs = 0, !.backoffs = 0 ] BY <2>1, <3>1, <4>1 DEF Reply
      <4>3. /\ Plain(a) /\ SamePlace(x, a) /\ SameTarget(x, a) /\ SameRest(x, a)
            /\ SameOrder(x, a) /\ Quiet(a)
        BY <1>1, <4>1, QuietedIs
      <4>4. /\ Rec(r) /\ SamePlace(a, r) /\ SameTarget(a, r) /\ SameOrder(a, r)
            /\ SameCommand(a, r)
            /\ r.found = a.found /\ r.scan = a.scan
            /\ r.wasWarm = a.wasWarm /\ r.warm = a.warm /\ r.coldUsed = a.coldUsed
            /\ r.step = a.step /\ r.errs = 0 /\ r.cuts = a.cuts /\ r.backoffs = 0
            /\ r.v1AtIdle = a.v1AtIdle
        <5>1. Rec(r) BY <4>2, <4>3 DEF Plain, Rec
        <5>2. a = [ fld \in Fields |-> a[fld] ] BY <4>2, <4>3 DEF Plain, Rec
        <5> QED BY <4>2, <4>3, <5>1, <5>2
          DEF Fields, SamePlace, SameTarget, SameAim, SameOrder, SameCommand
      <4>5. Plain(r)
        <5>1. 0 \in 0..CutErrors /\ 0 \in 0..IdleBackoffs BY RuntimeAssumption
        <5> QED
          BY <4>3, <4>4, <5>1 DEF Plain, SamePlace, SameTarget, SameAim, SameOrder, SameCommand
      <4>6. Kept(x, r) /\ ~r.cmd.pending
        BY <4>3, <4>4, NoCommandType
        DEF Kept, SamePlace, SameTarget, SameAim, SameOrder, SameCommand, Quiet
      <4>7. Fine(x, r) BY <4>5, <4>6, TakenFine DEF Busy, Kept
      <4> QED BY <4>5, <4>6, <4>7
    <3>2. CASE x.data # "good"
      <4>1. PICK cuts \in BOOLEAN : cuts = (x.data = "overflow") OBVIOUS
      <4>2. r = PollError(cuts, x) BY <2>1, <3>2, <4>1 DEF Reply
      <4> QED BY <4>2, <1>1, <1>4, PollErrorFine
    <3> QED BY <3>1, <3>2
  <2> QED BY <2>2, <2>3, NextPollFine
<1>8. CASE ~x.lost /\ x.cmd.on /\ ~x.cmd.pending /\ x.data \in { None, "partial" } /\ c.due
  <2>1. CASE CanAlternate(x) /\ y = RetryAlternate(x)
    <3>1. x.op = None /\ x.cmd.retries > 0 /\ SamePlace(x, x) /\ SameTarget(x, x)
      BY <2>1 DEF CanAlternate, CanRetry, CanBegin, SamePlace, SameTarget, SameAim
    <3> QED BY <3>1, <1>1, <2>1, RetryFine
  <2>2. CASE y = PollError(FALSE, x)
    <3>1. PICK no \in BOOLEAN : no = FALSE OBVIOUS
    <3>2. y = PollError(no, x) BY <2>2, <3>1
    <3> QED BY <3>2, <1>1, <1>4, PollErrorFine
  <2>3. \/ CanAlternate(x) /\ y = RetryAlternate(x)
        \/ y = PollError(FALSE, x)
    BY <1>8 DEF InPolling, None
  <2> QED BY <2>1, <2>2, <2>3
<1>9. CASE ~x.cmd.pending /\ y = NextPoll(x, c)
  BY <1>9, <1>1, <1>4, NextPollFine
<1>10. x.cmd.pending \in BOOLEAN BY <1>1 DEF Plain, CommandType
<1>11. ~x.lost /\ ~x.cmd.pending
         /\ ~(x.cmd.on /\ x.data \in { "good", "bad", "overflow" })
         /\ ~(x.cmd.on /\ x.data \in { None, "partial" } /\ c.due) => y = NextPoll(x, c)
  BY DEF InPolling
<1> QED BY <1>5, <1>6, <1>7, <1>8, <1>9, <1>11

LEMMA InErrorBackoffFine ==
  ASSUME NEW just, NEW x, NEW y, NEW c, Ready(x, just), x.st = "ERROR_BACKOFF",
         c \in ContextType,
         y = InErrorBackoff(x, c)
  PROVE  Fine(x, y)
<1>1. Plain(x) /\ Targets(x) /\ RadioOK BY DEF Ready, Good
<1>2. ~x.manual /\ ~x.cmd.pending /\ ~x.fence /\ ~x.scanReq /\ x.enabled
  BY DEF Ready, Good, Targets, CommandsHeld, Stages
<1>3. PICK n : n = IF x.backoffs < IdleBackoffs THEN x.backoffs + 1 ELSE IdleBackoffs OBVIOUS
<1>4. PICK m : m = IF x.cuts THEN x.errs ELSE 0 OBVIOUS
<1>5. PICK b : b = [ x EXCEPT !.backoffs = n, !.errs = m ] OBVIOUS
<1>6. n \in 0..IdleBackoffs /\ m \in 0..CutErrors
  <2>1. x.backoffs \in 0..IdleBackoffs /\ x.errs \in 0..CutErrors BY <1>1 DEF Plain
  <2> QED BY <2>1, <1>3, <1>4, RuntimeAssumption
<1>7. /\ Rec(b) /\ SamePlace(x, b) /\ SameTarget(x, b) /\ SameOrder(x, b) /\ SameCommand(x, b)
      /\ b.found = x.found /\ b.scan = x.scan
      /\ b.wasWarm = x.wasWarm /\ b.warm = x.warm /\ b.coldUsed = x.coldUsed
      /\ b.step = x.step /\ b.errs = m /\ b.cuts = x.cuts /\ b.backoffs = n
      /\ b.v1AtIdle = x.v1AtIdle
  <2>1. Rec(b) BY <1>5, <1>1 DEF Plain, Rec
  <2>2. x = [ fld \in Fields |-> x[fld] ] BY <1>5, <1>1 DEF Plain, Rec
  <2> QED
    BY <1>5, <1>1, <2>1, <2>2 DEF Fields, SamePlace, SameTarget, SameAim, SameOrder, SameCommand
<1>8. Plain(b)
  BY <1>1, <1>6, <1>7 DEF Plain, SamePlace, SameTarget, SameAim, SameOrder, SameCommand
<1>9. CASE y = x BY <1>9, StaysFine
<1>10. CASE y = To("DISCONNECTED", Disconnect(x))
  <2>1. PICK d : d = Disconnect(x) OBVIOUS
  <2>2. /\ Plain(d) /\ SamePlace(x, d) /\ SameTarget(x, d) /\ SameCommand(x, d) /\ Closed(d)
    BY <2>1, <1>1, DisconnectIs
  <2>3. /\ Plain(y) /\ SameTarget(d, y) /\ SameCommand(d, y) /\ SameOrder(d, y)
        /\ Arrived("DISCONNECTED", d, y)
    BY <1>10, <2>1, <2>2, Stated, ToIs
  <2>4. Closed(y) BY <2>2, <2>3 DEF Closed, SameOrder
  <2>5. /\ y.st = "DISCONNECTED" /\ y.entered /\ y.enabled /\ ~y.scanReq /\ ~y.manual
        /\ ~y.cmd.pending /\ y.saved = x.saved
    BY <1>2, <2>2, <2>3 DEF Arrived, SamePlace, SameTarget, SameAim, SameCommand
  <2>6. Targets(y)
    BY <1>1, <1>2, <2>2, <2>3, <2>5 DEF Targets, SameTarget, SameAim
  <2> QED BY <1>1, <1>2, <2>3, <2>4, <2>5, <2>6, ClosedFine DEF Busy
<1>11. CASE y = To("ECU_IDLE", Disconnect([ b EXCEPT !.v1AtIdle = c.v1 ]))
  <2>1. PICK a : a = [ b EXCEPT !.v1AtIdle = c.v1 ] OBVIOUS
  <2>2. PICK d : d = Disconnect(a) OBVIOUS
  <2>3. c.v1 \in BOOLEAN BY DEF ContextType
  <2>4. /\ Rec(a) /\ SamePlace(b, a) /\ SameTarget(b, a) /\ SameOrder(b, a) /\ SameCommand(b, a)
        /\ a.found = b.found /\ a.scan = b.scan
        /\ a.wasWarm = b.wasWarm /\ a.warm = b.warm /\ a.coldUsed = b.coldUsed
        /\ a.step = b.step /\ a.errs = b.errs /\ a.cuts = b.cuts /\ a.backoffs = b.backoffs
        /\ a.v1AtIdle = c.v1
    <3>1. Rec(a) BY <2>1, <1>8 DEF Plain, Rec
    <3>2. b = [ fld \in Fields |-> b[fld] ] BY <2>1, <1>8 DEF Plain, Rec
    <3> QED
      BY <2>1, <1>8, <3>1, <3>2
      DEF Fields, SamePlace, SameTarget, SameAim, SameOrder, SameCommand
  <2>5. Plain(a)
    BY <1>8, <2>3, <2>4 DEF Plain, SamePlace, SameTarget, SameAim, SameOrder, SameCommand
  <2>6. /\ Plain(d) /\ SamePlace(a, d) /\ SameTarget(a, d) /\ SameCommand(a, d) /\ Closed(d)
    BY <2>2, <2>5, DisconnectIs
  <2>7. /\ Plain(y) /\ SameTarget(d, y) /\ SameCommand(d, y) /\ SameOrder(d, y)
        /\ Arrived("ECU_IDLE", d, y)
    BY <1>11, <2>1, <2>2, <2>6, Stated, ToIs
  <2>8. Closed(y) BY <2>6, <2>7 DEF Closed, SameOrder
  <2>9. SameTarget(x, y) /\ y.cmd = x.cmd
    BY <1>7, <2>4, <2>6, <2>7 DEF SameTarget, SameAim, SameCommand
  <2>10. /\ y.st = "ECU_IDLE" /\ y.entered /\ y.enabled /\ ~y.scanReq /\ ~y.manual
         /\ ~y.cmd.pending /\ y.saved = x.saved
    BY <1>2, <1>7, <2>4, <2>6, <2>7, <2>9 DEF Arrived, SamePlace, SameTarget, SameAim
  <2>11. Targets(y)
    BY <1>1, <1>2, <2>9, <2>10 DEF Targets, SameTarget, SameAim
  <2> QED BY <1>1, <1>2, <2>7, <2>8, <2>10, <2>11, ClosedFine DEF Busy
<1>12. CASE y = To("POLLING", b)
  <2>1. Ready(b, just) /\ b.st = "ERROR_BACKOFF" /\ ~b.cmd.pending
    BY <1>2, <1>7, <1>8, ReadyTaken DEF SameOrder, SameCommand, SamePlace
  <2>2. Fine(b, y) BY <2>1, <1>12, ToPollingFine
  <2> QED BY <2>2, <1>7, FineFrom DEF SameOrder, SameTarget, SameAim
<1>13. \/ y = x
       \/ y = To("DISCONNECTED", Disconnect(x))
       \/ y = To("ECU_IDLE", Disconnect([ b EXCEPT !.v1AtIdle = c.v1 ]))
       \/ y = To("POLLING", b)
  BY <1>3, <1>4, <1>5 DEF InErrorBackoff
<1> QED BY <1>9, <1>10, <1>11, <1>12, <1>13

LEMMA RetryTargetIs ==
  ASSUME NEW x, NEW d, Plain(x), Targets(x), x.st = "DISCONNECTED", d = RetryTarget(x)
  PROVE  /\ Plain(d) /\ SamePlace(x, d) /\ SameOrder(x, d) /\ SameRest(x, d)
         /\ SameCommand(x, d)
         /\ d.saved = x.saved /\ Targets(d) /\ (d.manual => d.fromCand)
<1>1. x.manual => x.fromCand BY DEF Targets
<1>2. CASE x.fromCand /\ x.cand # NoAddress /\ d = Candidate(x)
  <2>1. /\ Plain(d) /\ SamePlace(x, d) /\ SameOrder(x, d) /\ SameRest(x, d) /\ SameCommand(x, d)
        /\ d.saved = x.saved /\ d.target = x.cand
        /\ d.fromCand /\ d.cand = x.cand /\ d.manual = x.manual
        /\ d.attempts = x.attempts /\ d.healed = x.healed
    BY <1>2, CandidateIs
  <2>2. Targets(d) BY <1>2, <2>1 DEF Targets, SamePlace
  <2> QED BY <2>1, <2>2
<1>3. CASE ~x.fromCand /\ d = Saved(x)
  <2>1. /\ Plain(d) /\ SamePlace(x, d) /\ SameOrder(x, d) /\ SameRest(x, d) /\ SameCommand(x, d)
        /\ d.saved = x.saved /\ d.target = x.saved
        /\ ~d.fromCand /\ d.cand = x.cand /\ d.manual = x.manual
        /\ d.attempts = x.attempts /\ d.healed = x.healed
    BY <1>3, SavedIs
  <2>2. Targets(d) /\ ~d.manual BY <1>1, <1>3, <2>1 DEF Targets, SamePlace
  <2> QED BY <2>1, <2>2
<1>4. CASE d = x
  BY <1>1, <1>4 DEF SamePlace, SameOrder, SameRest, SameCommand
<1>5. x.fromCand => x.cand # NoAddress BY DEF Targets
<1> QED BY <1>2, <1>3, <1>4, <1>5 DEF RetryTarget

LEMMA ClosesFirst ==
  ASSUME NEW x, NEW w, NEW y, Fine(w, y), ~x.fence, w.fence, y.fence, y.queued = None,
         y.saved = x.saved
  PROVE  Fine(x, y)
  BY DEF Fine, Steps, Moves, Asks, Saves, None, TransportOps

LEMMA InDisconnectedFine ==
  ASSUME NEW just, NEW x, NEW y, NEW c, Ready(x, just), x.st = "DISCONNECTED",
         y = InDisconnected(x, c, just)
  PROVE  Fine(x, y)
<1>1. Plain(x) /\ Targets(x) /\ RadioOK /\ Orders(x) BY DEF Ready, Good
<1>2. ~x.scanReq /\ x.enabled /\ ~x.fence /\ just \in BOOLEAN
  BY DEF Ready, Good, Stages
<1>3. CASE just
  <2>1. PICK q : q = Quieted(x) OBVIOUS
  <2>2. PICK w : w = Disconnect(q) OBVIOUS
  <2>3. w = EnterDisconnected(x) BY <2>1, <2>2 DEF EnterDisconnected
  <2>4. /\ Plain(q) /\ SamePlace(x, q) /\ SameTarget(x, q) /\ Quiet(q)
    BY <1>1, <2>1, QuietedIs
  <2>5. /\ Plain(w) /\ SamePlace(q, w) /\ SameTarget(q, w) /\ SameCommand(q, w) /\ Closed(w)
    BY <2>2, <2>4, DisconnectIs
  <2>6. /\ SamePlace(x, w) /\ SameTarget(x, w) /\ ~w.cmd.pending
    BY <2>4, <2>5, NoCommandType DEF SamePlace, SameTarget, SameAim, SameCommand, Quiet
  <2>7. Targets(w) /\ w.st = "DISCONNECTED" /\ w.enabled /\ ~w.scanReq /\ w.saved = x.saved
    BY <1>1, <1>2, <2>6 DEF Targets, SamePlace, SameTarget, SameAim
  <2>8. Fine(x, w)
    BY <1>1, <1>2, <2>5, <2>6, <2>7, ClosedFine DEF Busy
  <2>9. PICK d : d = RetryTarget(w) OBVIOUS
  <2>10. /\ Plain(d) /\ SamePlace(w, d) /\ SameOrder(w, d) /\ SameCommand(w, d)
         /\ d.saved = w.saved /\ Targets(d) /\ (d.manual => d.fromCand)
    BY <2>5, <2>7, <2>9, RetryTargetIs
  <2>11. Closed(d) /\ d.enabled /\ ~d.scanReq /\ ~d.cmd.pending
    BY <2>5, <2>6, <2>7, <2>10 DEF Closed, SamePlace, SameOrder, SameCommand
  <2>12. CASE y = w BY <2>8, <2>12
  <2>13. CASE y = To("CONNECTING", d)
    <3>1. Orders(w) BY <2>8 DEF Fine, Good
    <3>2. Free(d) /\ w.op = None /\ w.fence BY <2>5, <2>11 DEF Free, Closed
    <3>3. Fine(w, y)
      BY <3>1, <3>2, <1>1, <2>5, <2>10, <2>11, <2>13, ConnectingFine
    <3>4. /\ SameTarget(d, y) /\ SameOrder(d, y)
      BY <2>10, <2>13, Stated, ToIs
    <3>5. y.fence /\ y.queued = None /\ y.saved = x.saved
      BY <3>4, <2>7, <2>10, <2>11 DEF SameTarget, SameAim, SameOrder, Closed
    <3> QED BY <3>2, <3>3, <3>5, <1>2, ClosesFirst
  <2>14. CASE y = To("IDLE", d)
    <3>1. /\ Plain(y) /\ SameTarget(d, y) /\ SameCommand(d, y) /\ SameOrder(d, y)
          /\ Arrived("IDLE", d, y)
      BY <2>10, <2>14, Stated, ToIs
    <3>2. Closed(y) BY <3>1, <2>11 DEF Closed, SameOrder
    <3>3. /\ y.st = "IDLE" /\ y.enabled /\ ~y.scanReq /\ ~y.cmd.pending /\ y.saved = x.saved
      BY <3>1, <2>7, <2>10, <2>11 DEF Arrived, SameTarget, SameAim, SameCommand
    <3>4. Targets(y)
      BY <3>1, <3>3, <2>10 DEF Targets, SameTarget, SameAim
    <3> QED BY <3>1, <3>2, <3>3, <3>4, <1>1, <1>2, ClosedFine DEF Busy
  <2>15. ~MayScan(w, c) BY <2>7 DEF MayScan
  <2>16. \/ y = w
         \/ y = To("CONNECTING", d)
         \/ y = To("IDLE", d)
    BY <1>3, <2>3, <2>9, <2>15 DEF InDisconnected
  <2> QED BY <2>12, <2>13, <2>14, <2>16
<1>4. CASE ~just
  <2>1. /\ x.fresh /\ x.op = None /\ x.queued = None /\ link = "down" /\ run = None
        /\ ~x.cmd.pending
    BY <1>2, <1>4 DEF Ready, Good, Stages, Free, Orders, CommandsHeld
  <2>2. PICK d : d = RetryTarget(x) OBVIOUS
  <2>3. /\ Plain(d) /\ SamePlace(x, d) /\ SameOrder(x, d) /\ SameCommand(x, d)
        /\ d.saved = x.saved /\ Targets(d) /\ (d.manual => d.fromCand)
    BY <1>1, <2>2, RetryTargetIs
  <2>4. d.enabled /\ ~d.scanReq /\ ~d.cmd.pending /\ Free(d)
    BY <1>2, <2>1, <2>3 DEF SamePlace, SameOrder, SameCommand, Free
  <2>5. CASE y = x BY <2>5, <1>2, <1>4, StaysFine
  <2>6. CASE y = To("CONNECTING", d)
    BY <1>1, <2>1, <2>3, <2>4, <2>6, ConnectingFine
  <2>7. CASE y = To("IDLE", d)
    <3>1. /\ Plain(y) /\ SameTarget(d, y) /\ SameCommand(d, y) /\ SameOrder(d, y)
          /\ Arrived("IDLE", d, y)
      BY <2>3, <2>7, Stated, ToIs
    <3>2. /\ y.st = "IDLE" /\ y.enabled /\ y.entered /\ ~y.scanReq /\ ~y.cmd.pending
          /\ y.saved = x.saved /\ y.lost = x.lost
      BY <3>1, <2>3, <2>4 DEF Arrived, SameTarget, SameAim, SameCommand, SamePlace
    <3>3. Targets(y) /\ SameOrder(x, y)
      BY <3>1, <3>2, <2>3 DEF Targets, SameTarget, SameAim, SameOrder
    <3>4. x.queued # "CONNECT" /\ link # "connecting" BY <2>1 DEF None
    <3> QED BY <3>1, <3>2, <3>3, <3>4, <2>1, LeavesFine
  <2>8. ~MayScan(x, c) /\ ~IsConnected BY <1>2, <2>1 DEF MayScan, IsConnected
  <2>9. \/ y = x
        \/ y = To("CONNECTING", d)
        \/ y = To("IDLE", d)
    BY <1>4, <2>2, <2>8 DEF InDisconnected
  <2> QED BY <2>5, <2>6, <2>7, <2>9
<1> QED BY <1>2, <1>3, <1>4

LEMMA InEcuIdleFine ==
  ASSUME NEW just, NEW x, NEW y, NEW c, Ready(x, just), x.st = "ECU_IDLE",
         y = InEcuIdle(x, c, just)
  PROVE  Fine(x, y)
<1>1. Plain(x) /\ Targets(x) /\ RadioOK /\ Orders(x) BY DEF Ready, Good
<1>2. /\ x.fresh /\ x.op = None /\ x.queued = None /\ link = "down" /\ run = None /\ ~owes
      /\ x.ready = NoResult /\ ~x.cmd.pending /\ ~x.scanReq /\ ~x.manual /\ x.enabled
      /\ just \in BOOLEAN
  BY DEF Ready, Good, Stages, Free, Orders, CommandsHeld, Targets
<1>3. PICK w : w = IF just THEN Quieted(x) ELSE x OBVIOUS
<1>4. /\ Plain(w) /\ SamePlace(x, w) /\ SameTarget(x, w) /\ SameOrder(x, w) /\ ~w.cmd.pending
  <2>1. CASE just
    <3>1. w = Quieted(x) BY <1>3, <2>1
    <3>2. /\ Plain(w) /\ SamePlace(x, w) /\ SameTarget(x, w) /\ SameOrder(x, w) /\ Quiet(w)
      BY <3>1, <1>1, QuietedIs
    <3> QED BY <3>2, NoCommandType DEF Quiet
  <2>2. CASE ~just
    BY <2>2, <1>1, <1>2, <1>3 DEF SamePlace, SameTarget, SameAim, SameOrder
  <2> QED BY <2>1, <2>2, <1>2
<1>5. CASE y = w
  <2>1. Ready(w, just) BY <1>4, ReadyTaken DEF SameOrder
  <2>2. Fine(w, w) BY <2>1, <1>4, StaysFine DEF SamePlace
  <2> QED BY <2>2, <1>5, <1>4, FineFrom DEF SameOrder, SameTarget, SameAim
<1>6. CASE y = To("WAIT_BOOT", [ w EXCEPT !.backoffs = 0 ])
  <2>1. PICK d : d = [ w EXCEPT !.backoffs = 0 ] OBVIOUS
  <2>2. /\ Rec(d) /\ SamePlace(w, d) /\ SameTarget(w, d) /\ SameOrder(w, d) /\ SameCommand(w, d)
        /\ d.found = w.found /\ d.scan = w.scan
        /\ d.wasWarm = w.wasWarm /\ d.warm = w.warm /\ d.coldUsed = w.coldUsed
        /\ d.step = w.step /\ d.errs = w.errs /\ d.cuts = w.cuts /\ d.backoffs = 0
        /\ d.v1AtIdle = w.v1AtIdle
    <3>1. Rec(d) BY <2>1, <1>4 DEF Plain, Rec
    <3>2. w = [ fld \in Fields |-> w[fld] ] BY <2>1, <1>4 DEF Plain, Rec
    <3> QED
      BY <2>1, <1>4, <3>1, <3>2
      DEF Fields, SamePlace, SameTarget, SameAim, SameOrder, SameCommand
  <2>3. Plain(d)
    <3>1. 0 \in 0..IdleBackoffs BY RuntimeAssumption
    <3> QED
      BY <2>2, <1>4, <3>1 DEF Plain, SamePlace, SameTarget, SameAim, SameOrder, SameCommand
  <2>4. /\ Plain(y) /\ SameTarget(d, y) /\ SameCommand(d, y) /\ SameOrder(d, y)
        /\ Arrived("WAIT_BOOT", d, y)
    BY <1>6, <2>1, <2>3, Stated, ToIs
  <2>5. SameTarget(x, y) /\ SameOrder(x, y)
    BY <1>4, <2>2, <2>4 DEF SameTarget, SameAim, SameOrder
  <2>6. /\ y.st = "WAIT_BOOT" /\ y.enabled /\ y.entered /\ ~y.scanReq /\ y.lost = x.lost
        /\ ~y.cmd.pending
    BY <1>2, <1>4, <2>2, <2>4 DEF Arrived, SamePlace, SameCommand
  <2> USE <1>1, <1>2, <2>5, <2>6 DEF SameTarget, SameAim, SameOrder
  <2>7. Orders(y) BY DEF Orders, None, NoResult
  <2>8. LinksOnce(y, FALSE) BY DEF LinksOnce, Free
  <2>9. Stages(y, y.entered) BY DEF Stages, Busy, Free
  <2>10. Peers(y, y.entered) BY DEF Peers, Busy
  <2>11. CommandsHeld(y, y.entered) BY DEF CommandsHeld
  <2>12. Targets(y) BY DEF Targets
  <2>13. Steps(x, y) BY DEF Steps, Moves, Asks, Saves, None, TransportOps
  <2> QED BY <2>4, <2>7, <2>8, <2>9, <2>10, <2>11, <2>12, <2>13 DEF Fine, Good
<1>7. CASE y = To("CONNECTING", [ Saved(w) EXCEPT !.wasWarm = TRUE ])
  <2>1. PICK a : a = Saved(w) OBVIOUS
  <2>2. PICK d : d = [ a EXCEPT !.wasWarm = TRUE ] OBVIOUS
  <2>3. /\ Plain(a) /\ SamePlace(w, a) /\ SameOrder(w, a) /\ SameRest(w, a) /\ SameCommand(w, a)
        /\ a.saved = w.saved /\ a.target = w.saved
        /\ ~a.fromCand /\ a.cand = w.cand /\ a.manual = w.manual
        /\ a.attempts = w.attempts /\ a.healed = w.healed
    BY <2>1, <1>4, SavedIs
  <2>4. /\ Rec(d) /\ SamePlace(a, d) /\ SameTarget(a, d) /\ SameOrder(a, d) /\ SameCommand(a, d)
        /\ d.found = a.found /\ d.scan = a.scan
        /\ d.wasWarm = TRUE /\ d.warm = a.warm /\ d.coldUsed = a.coldUsed
        /\ d.step = a.step /\ d.errs = a.errs /\ d.cuts = a.cuts /\ d.backoffs = a.backoffs
        /\ d.v1AtIdle = a.v1AtIdle
    <3>1. Rec(d) BY <2>2, <2>3 DEF Plain, Rec
    <3>2. a = [ fld \in Fields |-> a[fld] ] BY <2>2, <2>3 DEF Plain, Rec
    <3> QED
      BY <2>2, <2>3, <3>1, <3>2
      DEF Fields, SamePlace, SameTarget, SameAim, SameOrder, SameCommand
  <2>5. Plain(d)
    BY <2>3, <2>4 DEF Plain, SamePlace, SameTarget, SameAim, SameOrder, SameCommand
  <2>6. /\ d.st = "ECU_IDLE" /\ d.enabled /\ ~d.scanReq /\ ~d.manual /\ ~d.cmd.pending
        /\ d.saved = x.saved /\ d.target = x.saved /\ ~d.fromCand /\ d.cand = x.cand
        /\ d.attempts = x.attempts /\ d.healed = x.healed
    BY <1>2, <1>4, <2>3, <2>4 DEF SamePlace, SameTarget, SameAim, SameCommand
  <2>7. SameOrder(x, d) BY <1>4, <2>3, <2>4 DEF SameOrder
  <2>8. Free(d) BY <1>2, <2>7 DEF Free, SameOrder
  <2>9. Targets(d) BY <1>1, <1>2, <2>6 DEF Targets
  <2> QED BY <1>1, <1>2, <1>7, <2>1, <2>2, <2>5, <2>6, <2>7, <2>8, <2>9, ConnectingFine
<1>8. \/ y = w
      \/ y = To("WAIT_BOOT", [ w EXCEPT !.backoffs = 0 ])
      \/ y = To("CONNECTING", [ Saved(w) EXCEPT !.wasWarm = TRUE ])
  BY <1>3 DEF InEcuIdle
<1> QED BY <1>5, <1>6, <1>7, <1>8

LEMMA InStateFine ==
  ASSUME NEW just, NEW x, NEW y, NEW c, Ready(x, just), c \in ContextType,
         y = InState(x, c, just)
  PROVE  Fine(x, y)
<1>1. x.st \in States BY DEF Ready, Good, Plain
<1>2. CASE x.st = "IDLE"
  <2>1. y = InIdle(x, c) BY <1>2 DEF InState
  <2> QED BY <1>2, <2>1, InIdleFine
<1>3. CASE x.st = "WAIT_BOOT"
  <2>1. y = InWaitBoot(x, c) BY <1>3 DEF InState
  <2> QED BY <1>3, <2>1, InWaitBootFine
<1>4. CASE x.st = "SCANNING"
  <2>1. y = InScanning(x, c) BY <1>4 DEF InState
  <2> QED BY <1>4, <2>1, InScanningFine
<1>5. CASE x.st = "CONNECTING"
  <2>1. y = InConnecting(x, c, just) BY <1>5 DEF InState
  <2> QED BY <1>5, <2>1, InConnectingFine
<1>6. CASE x.st = "DISCOVERING"
  <2>1. y = InDiscovering(x, c) BY <1>6 DEF InState
  <2> QED BY <1>6, <2>1, InDiscoveringFine
<1>7. CASE x.st = "AT_INIT"
  <2>1. y = InAtInit(x, c) BY <1>7 DEF InState
  <2> QED BY <1>7, <2>1, InAtInitFine
<1>8. CASE x.st = "POLLING"
  <2>1. y = InPolling(x, c) BY <1>8 DEF InState
  <2> QED BY <1>8, <2>1, InPollingFine
<1>9. CASE x.st = "ERROR_BACKOFF"
  <2>1. y = InErrorBackoff(x, c) BY <1>9 DEF InState
  <2> QED BY <1>9, <2>1, InErrorBackoffFine
<1>10. CASE x.st = "DISCONNECTED"
  <2>1. y = InDisconnected(x, c, just) BY <1>10 DEF InState
  <2> QED BY <1>10, <2>1, InDisconnectedFine
<1>11. CASE x.st = "ECU_IDLE"
  <2>1. y = InEcuIdle(x, c, just) BY <1>11 DEF InState
  <2> QED BY <1>11, <2>1, InEcuIdleFine
<1> QED
  BY <1>1, <1>2, <1>3, <1>4, <1>5, <1>6, <1>7, <1>8, <1>9, <1>10, <1>11 DEF States

-----------------------------------------------------------------------------
(* The update as a whole, and what ends the session's radio work.          *)

EventsOK(e) ==
    e.lost \in BOOLEAN /\ e.found \in Adapter /\ e.data \in Responses \cup { None }

LEMMA AnyLoss ==
  ASSUME NEW en, NEW e, NEW e2, NEW y, Good(y, en, e), y.fence
  PROVE  Good(y, en, e2)
<1>1. LinksOnce(y, e2)
  BY NoCommandType DEF Good, LinksOnce, Free, None
<1> QED BY <1>1 DEF Good

\* What draining the event queue leaves alone.
Drains(x, y) ==
    /\ y.enabled = x.enabled /\ y.st = x.st /\ y.entered = x.entered
    /\ SameOrder(x, y) /\ SameTarget(x, y)
    /\ y.scan = x.scan /\ y.scanReq = x.scanReq

LEMMA DrainedIs ==
  ASSUME NEW en, NEW e, NEW x, NEW y, e = ev.lost, Good(x, en, e), EventsOK(ev), y = Drained(x)
  PROVE  Good(y, en, FALSE) /\ Drains(x, y)
<1>0. Plain(x) BY DEF Good
<1>1. PICK found \in Adapter :
         found = IF x.st = "SCANNING" /\ ev.found # NoAddress THEN ev.found ELSE x.found
  BY <1>0 DEF Plain, EventsOK
<1>2. PICK data \in Responses \cup { None } :
         data = IF x.st \in { "AT_INIT", "POLLING" } /\ ev.data # None THEN ev.data ELSE x.data
  BY <1>0 DEF Plain, EventsOK
<1>3. PICK lost \in BOOLEAN : lost <=> (x.lost \/ ev.lost) OBVIOUS
<1>4. y = [ x EXCEPT !.found = found, !.lost = lost, !.data = data ]
  <2>1. lost = (x.lost \/ ev.lost) BY <1>3
  <2> QED BY <1>1, <1>2, <2>1 DEF Drained
<1>14. Rec(y) BY <1>4, <1>0 DEF Plain, Rec
<1>5. /\ y.enabled = x.enabled /\ y.st = x.st /\ y.entered = x.entered
      /\ y.lost = lost /\ y.scanReq = x.scanReq /\ SameTarget(x, y) /\ SameOrder(x, y)
      /\ y.found = found /\ y.scan = x.scan
      /\ y.wasWarm = x.wasWarm /\ y.warm = x.warm /\ y.coldUsed = x.coldUsed
      /\ y.step = x.step /\ y.errs = x.errs
      /\ y.cuts = x.cuts /\ y.backoffs = x.backoffs /\ y.v1AtIdle = x.v1AtIdle
      /\ y.cmd = x.cmd /\ y.data = data
  BY <1>4, <1>0 DEF Plain, Rec, Fields, SameTarget, SameAim, SameOrder
<1>6. Plain(y)
  BY <1>0, <1>14, <1>5 DEF Plain, SameTarget, SameAim, SameOrder
<1> USE <1>5 DEF Good, SameTarget, SameAim, SameOrder
<1>7. Orders(y) BY DEF Orders, Address0
<1>8. LinksOnce(y, FALSE)
  <2>1. y.lost => x.lost \/ e BY <1>3
  <2> QED BY <2>1 DEF LinksOnce, Free
<1>9. Stages(y, en) BY DEF Stages, Free
<1>10. Peers(y, en) BY DEF Peers, Address0
<1>11. CommandsHeld(y, en) BY DEF CommandsHeld
<1>12. Targets(y) BY DEF Targets
<1>13. Drains(x, y) BY DEF Drains
<1> QED BY <1>6, <1>7, <1>8, <1>9, <1>10, <1>11, <1>12, <1>13

LEMMA LeftEntryIs ==
  ASSUME NEW x, NEW y, Good(x, x.entered, FALSE), y = [ x EXCEPT !.entered = FALSE ]
  PROVE  /\ Good(y, x.entered, FALSE) /\ y.entered = FALSE /\ y.enabled = x.enabled
         /\ y.st = x.st
         /\ y.lost = x.lost /\ y.scanReq = x.scanReq /\ SameTarget(x, y)
         /\ SameOrder(x, y) /\ SameCommand(x, y) /\ SameRest(x, y)
<1>0. Plain(x) BY DEF Good
<1>1. /\ Rec(y) /\ y.entered = FALSE /\ y.enabled = x.enabled /\ y.st = x.st
      /\ y.lost = x.lost /\ y.scanReq = x.scanReq /\ SameTarget(x, y)
      /\ SameOrder(x, y) /\ SameCommand(x, y) /\ SameRest(x, y)
  <2>1. Rec(y) BY <1>0 DEF Plain, Rec
  <2>2. x = [ fld \in Fields |-> x[fld] ] BY <1>0 DEF Plain, Rec
  <2> QED BY <1>0, <2>1, <2>2 DEF Fields, SameTarget, SameAim, SameOrder, SameCommand, SameRest
<1>2. Plain(y)
  BY <1>0, <1>1 DEF Plain, SameTarget, SameAim, SameOrder, SameCommand, SameRest
<1> USE <1>1 DEF Good, SameTarget, SameAim, SameOrder, SameCommand
<1>3. Orders(y) BY DEF Orders, Address0
<1>4. LinksOnce(y, FALSE) BY DEF LinksOnce, Free
<1>5. Stages(y, x.entered) BY DEF Stages, Free
<1>6. Peers(y, x.entered) BY DEF Peers, Address0
<1>7. CommandsHeld(y, x.entered) BY DEF CommandsHeld
<1>8. Targets(y) BY DEF Targets
<1> QED BY <1>1, <1>2, <1>3, <1>4, <1>5, <1>6, <1>7, <1>8

LEMMA CutSessionIs ==
  ASSUME NEW x, NEW y, Plain(x), y = CutSession(x)
  PROVE  /\ Plain(y) /\ Closed(y) /\ ~y.cmd.pending /\ y.enabled = x.enabled /\ y.st = x.st
         /\ y.entered = x.entered /\ ~y.lost /\ y.scanReq = x.scanReq /\ SameTarget(x, y)
         /\ SameRest(x, y)
<1>1. PICK a : a = Disconnect(x) OBVIOUS
<1>2. PICK b : b = Quieted(a) OBVIOUS
<1>3. y = [ b EXCEPT !.lost = FALSE ] BY <1>1, <1>2 DEF CutSession
<1>4. /\ Plain(a) /\ SamePlace(x, a) /\ SameTarget(x, a) /\ SameRest(x, a) /\ SameCommand(x, a)
      /\ Closed(a)
  BY <1>1, DisconnectIs
<1>5. /\ Plain(b) /\ SamePlace(a, b) /\ SameTarget(a, b) /\ SameRest(a, b)
      /\ SameOrder(a, b) /\ Quiet(b)
  BY <1>2, <1>4, QuietedIs
<1>6. /\ Rec(y) /\ y.enabled = b.enabled /\ y.st = b.st /\ y.entered = b.entered
      /\ y.lost = FALSE /\ y.scanReq = b.scanReq /\ SameTarget(b, y)
      /\ SameOrder(b, y) /\ SameCommand(b, y) /\ SameRest(b, y)
  <2>1. Rec(y) BY <1>3, <1>5 DEF Plain, Rec
  <2>2. b = [ fld \in Fields |-> b[fld] ] BY <1>3, <1>5 DEF Plain, Rec
  <2> QED
    BY <1>3, <1>5, <2>1, <2>2 DEF Fields, SameTarget, SameAim, SameOrder, SameCommand, SameRest
<1>7. Plain(y)
  BY <1>5, <1>6 DEF Plain, SameTarget, SameAim, SameOrder, SameCommand, SameRest
<1>8. Closed(y) /\ ~y.cmd.pending
  BY <1>4, <1>5, <1>6, NoCommandType DEF Closed, SameOrder, SameCommand, Quiet
<1> QED
  BY <1>4, <1>5, <1>6, <1>7, <1>8 DEF SamePlace, SameTarget, SameAim, SameRest

LEMMA ScanEndedIs ==
  ASSUME NEW x, NEW y, Plain(x), y = ScanEnded(x)
  PROVE  /\ Plain(y) /\ ~y.scan /\ ~y.scanReq /\ y.found = NoAddress /\ ~y.manual
         /\ y.enabled = x.enabled /\ y.st = x.st /\ y.entered = x.entered /\ y.lost = x.lost
         /\ SameOrder(x, y) /\ SameCommand(x, y) /\ y.saved = x.saved
         /\ y.attempts = x.attempts /\ y.healed = x.healed
         /\ (x.manual => Cleared(y)) /\ (~x.manual => SameTarget(x, y))
<1>1. PICK a : a = [ x EXCEPT !.scan = FALSE, !.scanReq = FALSE, !.found = NoAddress ] OBVIOUS
<1>2. /\ Rec(a) /\ a.enabled = x.enabled /\ a.st = x.st /\ a.entered = x.entered
      /\ a.lost = x.lost /\ a.scanReq = FALSE /\ SameTarget(x, a)
      /\ SameOrder(x, a) /\ SameCommand(x, a) /\ a.scan = FALSE /\ a.found = NoAddress
      /\ a.wasWarm = x.wasWarm /\ a.warm = x.warm /\ a.coldUsed = x.coldUsed
      /\ a.step = x.step /\ a.errs = x.errs
      /\ a.cuts = x.cuts /\ a.backoffs = x.backoffs /\ a.v1AtIdle = x.v1AtIdle
  <2>1. Rec(a) BY <1>1 DEF Plain, Rec
  <2>2. x = [ fld \in Fields |-> x[fld] ] BY <1>1 DEF Plain, Rec
  <2> QED BY <1>1, <2>1, <2>2 DEF Fields, SameTarget, SameAim, SameOrder, SameCommand
<1>3. Plain(a)
  BY <1>2 DEF Plain, SameTarget, SameAim, SameOrder, SameCommand, Adapter
<1>4. a.manual = x.manual /\ x.manual \in BOOLEAN
  BY <1>2 DEF SameTarget, SameAim, Plain
<1>5. CASE x.manual
  <2>1. y = ClearManual(a) BY <1>1, <1>4, <1>5 DEF ScanEnded
  <2>2. /\ Plain(y) /\ SamePlace(a, y) /\ SameOrder(a, y) /\ SameCommand(a, y)
        /\ y.saved = a.saved /\ Cleared(y) /\ y.attempts = a.attempts /\ y.healed = a.healed
        /\ SameRest(a, y)
    BY <2>1, <1>3, ClearManualIs
  <2>3. /\ y.enabled = x.enabled /\ y.st = x.st /\ y.entered = x.entered /\ y.lost = x.lost
        /\ ~y.scanReq
    BY <1>2, <2>2 DEF SamePlace
  <2>4. SameOrder(x, y) /\ SameCommand(x, y) BY <1>2, <2>2 DEF SameOrder, SameCommand
  <2>5. ~y.scan /\ y.found = NoAddress BY <1>2, <2>2 DEF SameRest
  <2>6. /\ y.saved = x.saved /\ y.attempts = x.attempts /\ y.healed = x.healed /\ ~y.manual
    BY <1>2, <2>2 DEF SameTarget, SameAim, Cleared
  <2> QED BY <1>5, <2>2, <2>3, <2>4, <2>5, <2>6
<1>6. CASE ~x.manual
  <2>1. y = a BY <1>1, <1>4, <1>6 DEF ScanEnded
  <2>2. /\ y.enabled = x.enabled /\ y.st = x.st /\ y.entered = x.entered /\ y.lost = x.lost
        /\ ~y.scanReq /\ ~y.scan /\ y.found = NoAddress /\ ~y.manual
    BY <1>2, <1>4, <1>6, <2>1
  <2>3. SameOrder(x, y) /\ SameCommand(x, y) /\ SameTarget(x, y) /\ Plain(y)
    BY <1>2, <1>3, <2>1
  <2>4. y.saved = x.saved /\ y.attempts = x.attempts /\ y.healed = x.healed
    BY <2>3 DEF SameTarget, SameAim
  <2> QED BY <1>6, <2>2, <2>3, <2>4
<1> QED BY <1>4, <1>5, <1>6

Stopped(x, z) ==
    /\ ~z.scan /\ ~z.scanReq /\ ~z.manual /\ z.enabled = x.enabled /\ z.saved = x.saved
    /\ z.attempts = x.attempts /\ z.healed = x.healed /\ z.cmd = x.cmd
    /\ (x.manual => Cleared(z)) /\ (~x.manual => SameTarget(x, z))
LeftAlone(x, z) ==
    /\ x.st # "SCANNING" /\ z.st = x.st /\ z.entered = x.entered /\ z.lost = x.lost
    /\ SameOrder(x, z)
ScanLeft(x, z) ==
    x.st = "SCANNING" /\ z.st = "IDLE" /\ z.entered /\ ~z.lost /\ Dropped(x, z)

LEMMA StoppedScanIs ==
  ASSUME NEW x, NEW z, Plain(x), z = StoppedScan(x)
  PROVE  Plain(z) /\ Stopped(x, z) /\ (LeftAlone(x, z) \/ ScanLeft(x, z))
<1>1. PICK a : a = ScanEnded(x) OBVIOUS
<1>2. /\ Plain(a) /\ ~a.scan /\ ~a.scanReq /\ a.found = NoAddress /\ ~a.manual
      /\ a.enabled = x.enabled /\ a.st = x.st /\ a.entered = x.entered /\ a.lost = x.lost
      /\ SameOrder(x, a) /\ SameCommand(x, a) /\ a.saved = x.saved
      /\ a.attempts = x.attempts /\ a.healed = x.healed
      /\ (x.manual => Cleared(a)) /\ (~x.manual => SameTarget(x, a))
  BY <1>1, ScanEndedIs
<1>3. CASE x.st # "SCANNING"
  <2>1. z = a BY <1>1, <1>2, <1>3 DEF StoppedScan
  <2> QED BY <1>2, <1>3, <2>1 DEF Stopped, LeftAlone, SameCommand
<1>4. CASE x.st = "SCANNING"
  <2>1. PICK b : b = DropTransport(a) OBVIOUS
  <2>2. PICK d : d = [ b EXCEPT !.lost = FALSE ] OBVIOUS
  <2>3. z = To("IDLE", d) BY <1>1, <1>2, <1>4, <2>1, <2>2 DEF StoppedScan
  <2>4. /\ Plain(b) /\ SamePlace(a, b) /\ SameTarget(a, b) /\ SameRest(a, b)
        /\ SameCommand(a, b)
        /\ Dropped(a, b)
    BY <1>2, <2>1, DropTransportIs
  <2>5. /\ Rec(d) /\ d.enabled = b.enabled /\ d.st = b.st /\ d.entered = b.entered
        /\ d.lost = FALSE /\ d.scanReq = b.scanReq /\ SameTarget(b, d)
        /\ SameOrder(b, d) /\ SameCommand(b, d) /\ SameRest(b, d)
    <3>1. Rec(d) BY <2>2, <2>4 DEF Plain, Rec
    <3>2. b = [ fld \in Fields |-> b[fld] ] BY <2>2, <2>4 DEF Plain, Rec
    <3> QED
      BY <2>2, <2>4, <3>1, <3>2
      DEF Fields, SameTarget, SameAim, SameOrder, SameCommand, SameRest
  <2>6. Plain(d)
    BY <2>4, <2>5 DEF Plain, SameTarget, SameAim, SameOrder, SameCommand, SameRest
  <2>7. /\ Plain(z) /\ SameTarget(d, z) /\ SameRest(d, z) /\ SameCommand(d, z)
        /\ SameOrder(d, z)
        /\ Arrived("IDLE", d, z)
    BY <2>3, <2>6, Stated, ToIs
  <2>8. SameTarget(a, z)
    BY <2>4, <2>5, <2>7 DEF SameTarget, SameAim
  <2>9. x.manual => Cleared(z) BY <1>2, <2>8 DEF Cleared, SameTarget, SameAim
  <2>10. ~x.manual => SameTarget(x, z) BY <1>2, <2>8 DEF SameTarget, SameAim
  <2>11. /\ ~z.scan /\ ~z.scanReq /\ z.enabled = x.enabled /\ z.cmd = x.cmd
    BY <1>2, <2>4, <2>5, <2>7 DEF SameRest, Arrived, SamePlace, SameCommand
  <2>12. ~z.manual /\ z.saved = x.saved /\ z.attempts = x.attempts /\ z.healed = x.healed
    BY <1>2, <2>8 DEF SameTarget, SameAim
  <2>13. Dropped(x, z)
    BY <1>2, <2>4, <2>5, <2>7 DEF Dropped, SameOrder
  <2>14. z.st = "IDLE" /\ z.entered /\ ~z.lost BY <2>5, <2>7 DEF Arrived
  <2> QED
    BY <1>4, <2>7, <2>9, <2>10, <2>11, <2>12, <2>13, <2>14 DEF Stopped, ScanLeft
<1> QED BY <1>3, <1>4

LEMMA StoppedTargets ==
  ASSUME NEW x, NEW z, Plain(x), Targets(x), Stopped(x, z)
  PROVE  /\ z.cand = NoAddress /\ ~z.fromCand /\ z.target \in { NoAddress, z.saved }
         /\ z.attempts <= MaxFailures
<1>1. CASE x.manual BY <1>1 DEF Stopped, Cleared, Targets
<1>2. CASE ~x.manual BY <1>2 DEF Stopped, SameTarget, SameAim, Targets
<1> QED BY <1>1, <1>2

LEMMA CancelledFine ==
  ASSUME NEW x, NEW z, NEW y, Plain(x), RadioOK, Targets(x), x.fence => x.queued = None,
         Plain(z), Stopped(x, z), CancelActs(z), y = Cancelled(z)
  PROVE  Fine(x, y) /\ y.st \in { "IDLE", "DISCONNECTED" } /\ ~y.manual /\ ~y.scan
<1>1. PICK a : a = CutSession(z) OBVIOUS
<1>2. /\ Plain(a) /\ Closed(a) /\ ~a.cmd.pending /\ a.enabled = z.enabled
      /\ a.scanReq = z.scanReq /\ SameTarget(z, a) /\ SameRest(z, a)
  BY <1>1, CutSessionIs
<1>3. ~a.manual BY <1>2 DEF SameTarget, SameAim, Stopped
<1>4. PICK st \in { "DISCONNECTED", "IDLE" } :
         st = IF a.enabled /\ a.saved # NoAddress THEN "DISCONNECTED" ELSE "IDLE"
  OBVIOUS
<1>5. y = To(st, a) BY <1>1, <1>3, <1>4 DEF Cancelled
<1>6. /\ Plain(y) /\ SameTarget(a, y) /\ SameRest(a, y) /\ SameCommand(a, y) /\ SameOrder(a, y)
      /\ Arrived(st, a, y)
  <2>1. st \in States /\ st # "POLLING" BY <1>4 DEF States
  <2> QED BY <2>1, <1>2, <1>5, ToIs
<1>7. Closed(y) BY <1>2, <1>6 DEF Closed, SameOrder
<1>8. /\ y.enabled = z.enabled /\ y.st = st /\ y.entered /\ ~y.scanReq /\ ~y.cmd.pending
  BY <1>2, <1>6 DEF Arrived, SameCommand, Stopped
<1>9. SameTarget(z, y) BY <1>2, <1>6 DEF SameTarget, SameAim
<1>10. ~y.manual /\ y.saved = x.saved BY <1>9 DEF SameTarget, SameAim, Stopped
<1>11. Targets(y)
  BY <1>4, <1>8, <1>9, <1>10, StoppedTargets DEF Targets, SameTarget, SameAim
<1>12. ~y.enabled => y.st = "IDLE" BY <1>2, <1>4, <1>8
<1>13. ~y.scan BY <1>2, <1>6 DEF SameRest, Stopped
<1>14. Fine(x, y)
  BY <1>4, <1>6, <1>7, <1>8, <1>10, <1>11, <1>12, ClosedFine DEF Busy
<1> QED BY <1>4, <1>8, <1>10, <1>13, <1>14

LEMMA StoppedFine ==
  ASSUME NEW e, NEW x, NEW z, Good(x, x.entered, e), Plain(z), Stopped(x, z),
         LeftAlone(x, z) \/ ScanLeft(x, z), ~CancelActs(z)
  PROVE  Good(z, z.entered, e) /\ Steps(x, z) /\ z.st \notin SetupStates \cup { "SCANNING" }
<1>1. link # "up" /\ z.st \notin SetupStates /\ z.op \notin SetupOps
  BY DEF CancelActs, SettingUp, IsConnected
<1>2. /\ z.cand = NoAddress /\ ~z.fromCand /\ z.target \in { NoAddress, z.saved }
      /\ z.attempts <= MaxFailures
  BY StoppedTargets DEF Good
<1>3. Targets(z) BY <1>2 DEF Targets, Stopped
<1>4. Steps(x, z)
  <2>1. z.queued = x.queued /\ z.fence = x.fence /\ z.saved = x.saved
    BY DEF LeftAlone, ScanLeft, Dropped, SameOrder, Stopped
  <2> QED BY <2>1 DEF Steps, Moves, Asks, Saves, None, TransportOps
<1>5. CASE LeftAlone(x, z)
  <2> USE <1>5 DEF LeftAlone, SameOrder, Good
  <2>1. x.queued # "CONNECT"
    BY <1>1 DEF Orders, SetupOps, None
  <2>2. Orders(z) BY <1>1, <2>1 DEF Orders, SetupStates
  <2>3. LinksOnce(z, e) BY <1>1 DEF LinksOnce, Free, SetupStates
  <2>4. Stages(z, z.entered) BY <1>1 DEF Stages, Free, Stopped, SetupStates
  <2>5. Peers(z, z.entered)
    <3>1. z.st \in Busy => z.st \in { "POLLING", "ERROR_BACKOFF" }
      BY <1>1 DEF Busy, SetupStates
    <3>2. z.st \in Busy => ~x.manual BY <3>1 DEF Targets
    <3>3. z.st \in Busy => Address0(z) = Address0(x)
      BY <3>2 DEF Stopped, SameTarget, SameAim, Address0
    <3> QED BY <1>1, <3>3 DEF Peers, SetupStates
  <2>6. CommandsHeld(z, z.entered) BY DEF CommandsHeld, Stopped
  <2> QED BY <1>1, <1>3, <1>4, <2>2, <2>3, <2>4, <2>5, <2>6
<1>6. CASE ScanLeft(x, z)
  <2> USE <1>6 DEF ScanLeft, Dropped, Good
  <2>1. Free(x) /\ x.queued = None /\ x.op = None /\ ~x.mine /\ ~x.cmd.pending /\ x.ready = NoResult
    BY DEF Stages, Orders, Free, CommandsHeld, None
  <2>2. Orders(z) BY <2>1 DEF Orders, Free
  <2>3. LinksOnce(z, e) BY <2>1, <1>1 DEF LinksOnce, Free
  <2>4. Stages(z, z.entered) BY <2>1 DEF Stages, Free, Stopped, Busy
  <2>5. Peers(z, z.entered) BY DEF Peers, Busy
  <2>6. CommandsHeld(z, z.entered) BY <2>1 DEF CommandsHeld, Stopped
  <2> QED BY <1>1, <1>3, <1>4, <2>2, <2>3, <2>4, <2>5, <2>6
<1> QED BY <1>5, <1>6

\* What a phone leaves of the session.
Yielded(y) == /\ y.st \notin SetupStates \cup { "SCANNING" } /\ ~y.manual /\ ~y.scan

LEMMA EndedFine ==
  ASSUME NEW e, NEW x, NEW y, Good(x, x.entered, e), y = Ended(x)
  PROVE  /\ EndCutsLink(x) => Fine(x, y) /\ y.st \in { "IDLE", "DISCONNECTED" }
         /\ ~EndCutsLink(x) => Good(y, y.entered, e) /\ Steps(x, y)
         /\ Yielded(y)
         /\ ~EndCutsLink(x) => y.enabled = x.enabled /\ y.fence = x.fence
                                 /\ y.queued = x.queued /\ y.saved = x.saved
                                 /\ y.fresh = x.fresh
<1>1. PICK z : z = StoppedScan(x) OBVIOUS
<1>2. y = Cancelled(z) BY <1>1 DEF Ended
<1>3. /\ Plain(x) /\ RadioOK /\ Targets(x) /\ (x.fence => x.queued = None)
  BY DEF Good, Orders
<1>4. Plain(z) /\ Stopped(x, z) /\ (LeftAlone(x, z) \/ ScanLeft(x, z))
  BY <1>1, <1>3, StoppedScanIs
<1>5. CASE CancelActs(z)
  <2>1. Fine(x, y) /\ y.st \in { "IDLE", "DISCONNECTED" } /\ ~y.manual /\ ~y.scan
    BY <1>2, <1>3, <1>4, <1>5, CancelledFine
  <2>2. EndCutsLink(x) BY <1>1, <1>5 DEF EndCutsLink
  <2> QED BY <2>1, <2>2 DEF Yielded, SetupStates
<1>6. CASE ~CancelActs(z)
  <2>1. y = z BY <1>2, <1>6 DEF Cancelled
  <2>2. Good(z, z.entered, e) /\ Steps(x, z) /\ z.st \notin SetupStates \cup { "SCANNING" }
    BY <1>4, <1>6, StoppedFine
  <2>3. ~EndCutsLink(x) BY <1>1, <1>6 DEF EndCutsLink
  <2>4. /\ z.enabled = x.enabled /\ z.fence = x.fence /\ z.queued = x.queued
        /\ z.saved = x.saved /\ z.fresh = x.fresh
    BY <1>4 DEF Stopped, LeftAlone, ScanLeft, SameOrder, Dropped
  <2> QED BY <2>1, <2>2, <2>3, <2>4, <1>4 DEF Yielded, Stopped
<1> QED BY <1>5, <1>6

LEMMA ReconciledFine ==
  ASSUME NEW just, NEW x, NEW y, Ready(x, just), y = Reconciled(x)
  PROVE  Fine(x, y) /\ y.st = "IDLE" /\ ~y.manual /\ ~y.scan
<1>0. Plain(x) /\ RadioOK /\ Targets(x) /\ ~x.fence BY DEF Ready, Good
<1>1. PICK a : a = ScanEnded(x) OBVIOUS
<1>2. /\ Plain(a) /\ ~a.scan /\ ~a.scanReq /\ ~a.manual
      /\ a.enabled = x.enabled /\ a.st = x.st /\ a.entered = x.entered /\ a.lost = x.lost
      /\ SameOrder(x, a) /\ SameCommand(x, a) /\ a.saved = x.saved
      /\ a.attempts = x.attempts /\ a.healed = x.healed
      /\ (x.manual => Cleared(a)) /\ (~x.manual => SameTarget(x, a))
  BY <1>0, <1>1, ScanEndedIs
<1>3. Stopped(x, a) BY <1>2 DEF Stopped, SameCommand
<1>4. CASE y = To("IDLE", CutSession(a))
  <2>1. PICK d : d = CutSession(a) OBVIOUS
  <2>2. /\ Plain(d) /\ Closed(d) /\ ~d.cmd.pending /\ d.enabled = a.enabled
        /\ d.scanReq = a.scanReq /\ SameTarget(a, d) /\ SameRest(a, d)
    BY <1>2, <2>1, CutSessionIs
  <2>3. /\ Plain(y) /\ SameTarget(d, y) /\ SameRest(d, y) /\ SameCommand(d, y)
        /\ SameOrder(d, y)
        /\ Arrived("IDLE", d, y)
    BY <1>4, <2>1, <2>2, Stated, ToIs
  <2>4. Closed(y) BY <2>2, <2>3 DEF Closed, SameOrder
  <2>5. y.st = "IDLE" /\ y.enabled = x.enabled /\ ~y.scanReq /\ ~y.cmd.pending
    BY <1>2, <2>2, <2>3 DEF Arrived, SameCommand
  <2>6. SameTarget(a, y) BY <2>2, <2>3 DEF SameTarget, SameAim
  <2>7. ~y.manual /\ y.saved = x.saved /\ ~y.scan
    BY <1>2, <2>2, <2>3, <2>6 DEF SameTarget, SameAim, SameRest
  <2>8. Targets(y)
    BY <1>0, <1>3, <2>5, <2>6, <2>7, StoppedTargets DEF Targets, SameTarget, SameAim
  <2>9. Fine(x, y) BY <1>0, <2>3, <2>4, <2>5, <2>7, <2>8, ClosedFine DEF Busy
  <2> QED BY <2>5, <2>7, <2>9
<1>5. CASE y = a /\ a.st = "IDLE" /\ ~IsConnected
  <2> USE <1>0, <1>2, <1>5 DEF Ready, Good, SameOrder
  <2>1. Targets(y) BY <1>3, StoppedTargets DEF Targets
  <2>2. Orders(y) BY DEF Orders
  <2>3. LinksOnce(y, FALSE) BY DEF LinksOnce, Free
  <2>4. Stages(y, y.entered) BY DEF Stages, Free, Busy
  <2>5. Peers(y, y.entered) BY DEF Peers, Busy
  <2>6. CommandsHeld(y, y.entered) BY DEF CommandsHeld, SameCommand
  <2>7. Steps(x, y) BY DEF Steps, Moves, Asks, Saves, None, TransportOps
  <2>8. Fine(x, y) BY <2>1, <2>2, <2>3, <2>4, <2>5, <2>6, <2>7 DEF Fine
  <2> QED BY <2>8
<1> QED BY <1>1, <1>4, <1>5 DEF Reconciled

LEMMA StillGood ==
  ASSUME NEW e, NEW x, Good(x, x.entered, e)
  PROVE  Steps(x, x)
  BY DEF Steps, Moves, Asks, Saves, None, TransportOps

LEMMA FinePast ==
  ASSUME NEW x, NEW w, NEW y, Fine(w, y), w.queued = x.queued, w.fence = x.fence,
         w.fresh = x.fresh, w.saved = x.saved
  PROVE  Good(y, y.entered, FALSE) /\ Steps(x, y)
  BY FineFrom DEF Fine

LEMMA UpdatedFine ==
  ASSUME NEW c \in ContextType, NEW x, NEW y, Good(x, x.entered, ev.lost), EventsOK(ev),
         y = Updated(x, c)
  PROVE  /\ x.enabled => Good(y, y.entered, FALSE)
         /\ ~x.enabled => Good(y, y.entered, ev.lost)
         /\ Steps(x, y)
         /\ c.proxyClient /\ Yielded(x) => Yielded(y) /\ y.st # "POLLING"
<1>0. /\ Plain(x) /\ RadioOK /\ Targets(x) /\ (x.fence => x.queued = None)
      /\ x.enabled \in BOOLEAN /\ c.proxyClient \in BOOLEAN
  BY DEF Good, Orders, Plain, ContextType
<1>1. CASE ~x.enabled
  <2>1. x.st = "IDLE" /\ Free(x) /\ ~x.manual /\ ~x.cmd.pending /\ ~x.scanReq
    BY <1>1 DEF Good, Stages, CommandsHeld
  <2>2. CASE y = x
    BY <2>1, <2>2, <1>1, StillGood DEF Yielded, SetupStates
  <2>3. CASE y = Disconnect(x)
    <3>1. /\ Plain(y) /\ SamePlace(x, y) /\ SameTarget(x, y) /\ SameRest(x, y)
          /\ SameCommand(x, y)
          /\ Closed(y)
      BY <1>0, <2>3, DisconnectIs
    <3>2. Targets(y) /\ y.st = "IDLE" /\ ~y.manual /\ ~y.scanReq /\ ~y.cmd.pending
          /\ y.saved = x.saved
      BY <1>0, <2>1, <3>1 DEF Targets, SamePlace, SameTarget, SameAim, SameCommand
    <3>3. Fine(x, y) BY <1>0, <3>1, <3>2, ClosedFine DEF Busy
    <3>4. Good(y, y.entered, ev.lost)
      <4>1. PICK no \in BOOLEAN : no = FALSE OBVIOUS
      <4>2. PICK en, e : en = y.entered /\ e = ev.lost OBVIOUS
      <4>3. Good(y, en, no) BY <3>3, <4>1, <4>2 DEF Fine
      <4>4. y.fence BY <3>1 DEF Closed
      <4>5. Good(y, en, e) BY <4>3, <4>4, AnyLoss
      <4> QED BY <4>2, <4>5
    <3>5. Yielded(x) => Yielded(y) BY <3>1, <3>2 DEF Yielded, SameRest, SetupStates
    <3> QED BY <1>1, <3>2, <3>3, <3>4, <3>5 DEF Fine
  <2> QED BY <1>1, <2>2, <2>3 DEF Updated
<1>2. CASE x.enabled
  <2>1. PICK w : w = Drained(x) OBVIOUS
  <2>2. /\ Good(w, w.entered, FALSE) /\ w.enabled = x.enabled /\ w.st = x.st
        /\ w.entered = x.entered
        /\ SameOrder(x, w) /\ SameTarget(x, w)
        /\ w.scan = x.scan /\ w.scanReq = x.scanReq
    <3>1. PICK en, e : en = x.entered /\ e = ev.lost OBVIOUS
    <3>2. Good(x, en, e) BY <3>1
    <3>3. Good(w, en, FALSE) /\ Drains(x, w)
      BY <2>1, <3>1, <3>2, DrainedIs
    <3> QED BY <3>1, <3>3 DEF Drains
  <2>3. PICK just : just = w.entered OBVIOUS
  <2>4. PICK v : v = [ w EXCEPT !.entered = FALSE ] OBVIOUS
  <2>5. /\ Good(v, just, FALSE) /\ v.entered = FALSE /\ v.enabled = w.enabled /\ v.st = w.st
        /\ v.lost = w.lost /\ v.scanReq = w.scanReq /\ SameTarget(w, v)
        /\ SameOrder(w, v) /\ SameCommand(w, v) /\ SameRest(w, v)
    BY <2>2, <2>3, <2>4, LeftEntryIs
  <2>6. v.queued = x.queued /\ v.fence = x.fence /\ v.fresh = x.fresh /\ v.saved = x.saved
    BY <2>2, <2>5 DEF SameOrder, SameTarget, SameAim
  <2>7. CASE x.fence /\ y = w
    <3>1. Steps(x, w)
      BY <2>2 DEF Steps, Moves, Asks, Saves, None, TransportOps, SameOrder, SameTarget, SameAim
    <3>2. Yielded(x) => Yielded(w)
      BY <2>2 DEF Yielded, SameTarget, SameAim
    <3>3. w.st # "POLLING"
      BY <2>7, <2>2 DEF Good, Stages, Busy, Free
    <3> QED BY <1>2, <2>2, <2>7, <3>1, <3>2, <3>3
  <2>8. ~x.fence => Ready(v, just)
    BY <1>2, <2>2, <2>3, <2>5, <2>6 DEF Ready, Good, Plain
  <2>9. CASE ~x.fence /\ c.proxyClient /\ y = Reconciled(v)
    <3>1. Fine(v, y) /\ y.st = "IDLE" /\ ~y.manual /\ ~y.scan
      BY <2>8, <2>9, ReconciledFine
    <3>2. Good(y, y.entered, FALSE) /\ Steps(x, y) BY <2>6, <3>1, FinePast
    <3> QED BY <1>2, <3>1, <3>2 DEF Yielded, SetupStates
  <2>10. CASE ~x.fence /\ ~c.proxyClient /\ y = InState(v, c, just)
    <3>1. Fine(v, y) BY <2>8, <2>10, InStateFine
    <3> QED BY <1>2, <2>6, <2>10, <3>1, FinePast
  <2>11. \/ x.fence /\ y = w
         \/ ~x.fence /\ c.proxyClient /\ y = Reconciled(v)
         \/ ~x.fence /\ ~c.proxyClient /\ y = InState(v, c, just)
    <3>1. w.fence = x.fence BY <2>2 DEF SameOrder
    <3> QED BY <1>0, <1>2, <2>1, <2>3, <2>4, <3>1 DEF Updated
  <2> QED BY <2>7, <2>9, <2>10, <2>11
<1> QED BY <1>0, <1>1, <1>2

-----------------------------------------------------------------------------
(* Beginning, pairing, switching off and on, forgetting.                   *)

LEMMA InitSessionIs ==
  ASSUME NEW enabled \in BOOLEAN, NEW saved \in Adapter, NEW e, NEW x,
         x = InitSession(enabled, saved),
         RadioOK, link = "down", run = None, ~owes
  PROVE  Good(x, x.entered, e) /\ x.queued = None /\ ~x.fence
<1>1. Rec(x) BY DEF InitSession, Rec, Fields
<1>2. /\ x.enabled = enabled /\ x.entered = FALSE /\ x.saved = saved
      /\ x.st = IF enabled /\ saved # NoAddress THEN "WAIT_BOOT" ELSE "IDLE"
      /\ x.target = NoAddress /\ x.fromCand = FALSE /\ x.cand = NoAddress
      /\ x.manual = FALSE /\ x.preempt = FALSE /\ x.scanReq = FALSE
      /\ x.found = NoAddress /\ x.scan = FALSE /\ x.attempts = 0 /\ x.healed = NoAddress
      /\ x.lost = FALSE /\ x.wasWarm = FALSE /\ x.warm = FALSE /\ x.coldUsed = FALSE
      /\ x.step = 0 /\ x.cmd = NoCommand /\ x.data = None /\ x.errs = 0 /\ x.cuts = FALSE
      /\ x.backoffs = 0 /\ x.v1AtIdle = FALSE /\ x.op = None /\ x.mine = FALSE
      /\ x.queued = None /\ x.dest = NoAddress /\ x.ready = NoResult /\ x.fence = FALSE
      /\ x.fresh = TRUE
  BY DEF InitSession
<1>3. x.st \in { "WAIT_BOOT", "IDLE" } BY <1>2
<1>4. 0 \in 0..CutErrors /\ 0 \in 0..IdleBackoffs /\ 0 \in Nat /\ 0 <= MaxFailures
  BY RuntimeAssumption
<1>5. Plain(x)
  BY <1>1, <1>2, <1>3, <1>4, NoCommandType, Stated DEF Plain, Adapter
<1>6. Orders(x) BY <1>2, <1>3, NoCommandType DEF Orders, None
<1>7. LinksOnce(x, e) BY <1>2, NoCommandType DEF LinksOnce, Free, None
<1>8. Stages(x, x.entered) BY <1>2, <1>3 DEF Stages, Free, Busy
<1>9. Targets(x) BY <1>2, <1>3, <1>4 DEF Targets
<1>10. Peers(x, x.entered) BY <1>3 DEF Peers, Busy
<1>11. CommandsHeld(x, x.entered) BY <1>2, NoCommandType DEF CommandsHeld
<1> QED BY <1>2, <1>5, <1>6, <1>7, <1>8, <1>9, <1>10, <1>11 DEF Good

\* What pairing, switching off and forgetting have in common: the session is
\* cut and its target and pairing attempt are cleared.
CutClear(x) == ClearManual(CutSession(x))

LEMMA CutClearIs ==
  ASSUME NEW x, NEW y, Plain(x), y = CutClear(x)
  PROVE  /\ Plain(y) /\ Closed(y) /\ ~y.cmd.pending /\ Cleared(y) /\ y.enabled = x.enabled
         /\ ~y.lost /\ y.scanReq = x.scanReq /\ y.saved = x.saved /\ y.attempts = x.attempts
<1>1. PICK a : a = CutSession(x) OBVIOUS
<1>2. y = ClearManual(a) BY <1>1 DEF CutClear
<1>3. /\ Plain(a) /\ Closed(a) /\ ~a.cmd.pending /\ a.enabled = x.enabled
      /\ ~a.lost /\ a.scanReq = x.scanReq /\ SameTarget(x, a)
  BY <1>1, CutSessionIs
<1>4. /\ Plain(y) /\ SamePlace(a, y) /\ SameOrder(a, y) /\ SameCommand(a, y)
      /\ y.saved = a.saved /\ Cleared(y) /\ y.attempts = a.attempts
  BY <1>2, <1>3, ClearManualIs
<1> QED
  BY <1>3, <1>4 DEF SamePlace, SameOrder, SameCommand, SameTarget, SameAim, Closed

\* A pairing attempt is begun from a session that has been cut.
Paired(a, y) ==
    /\ y.scan = FALSE /\ y.found = NoAddress /\ y.attempts = 0
    /\ y.manual = TRUE /\ y.preempt = TRUE /\ y.scanReq = TRUE /\ y.st = "IDLE"
    /\ y.entered = FALSE /\ y.enabled = a.enabled /\ y.lost = a.lost
    /\ y.saved = a.saved /\ y.target = a.target /\ y.fromCand = a.fromCand
    /\ y.cand = a.cand /\ y.healed = a.healed /\ SameOrder(a, y) /\ SameCommand(a, y)
    /\ y.wasWarm = a.wasWarm /\ y.warm = a.warm /\ y.coldUsed = a.coldUsed
    /\ y.step = a.step /\ y.errs = a.errs
    /\ y.cuts = a.cuts /\ y.backoffs = a.backoffs /\ y.v1AtIdle = a.v1AtIdle

LEMMA PairedIs ==
  ASSUME NEW a, NEW y, Plain(a),
         y = [ a EXCEPT !.scan = FALSE, !.found = NoAddress, !.attempts = 0,
                 !.manual = TRUE, !.preempt = TRUE, !.scanReq = TRUE,
                 !.st = "IDLE", !.entered = FALSE ]
  PROVE  Rec(y) /\ Paired(a, y)
<1>1. Rec(y) BY DEF Plain, Rec
<1>2. a = [ fld \in Fields |-> a[fld] ] BY DEF Plain, Rec
<1>3. Paired(a, y) BY <1>2 DEF Fields, Paired, SameOrder, SameCommand
<1> QED BY <1>1, <1>3

LEMMA PairedPlain ==
  ASSUME NEW a, NEW y, Plain(a), Rec(y), Paired(a, y)
  PROVE  Plain(y)
<1>1. "IDLE" \in States /\ 0 \in Nat /\ TRUE \in BOOLEAN /\ FALSE \in BOOLEAN BY DEF States
<1> QED BY <1>1 DEF Plain, Paired, SameOrder, SameCommand, Adapter

LEMMA PairFine ==
  ASSUME NEW e, NEW x, NEW y, Good(x, x.entered, e), x.enabled,
         y = [ CutClear(x) EXCEPT !.scan = FALSE, !.found = NoAddress, !.attempts = 0,
                 !.manual = TRUE, !.preempt = TRUE, !.scanReq = TRUE,
                 !.st = "IDLE", !.entered = FALSE ]
  PROVE  Fine(x, y)
<1>0. Plain(x) /\ RadioOK /\ (x.fence => x.queued = None) BY DEF Good, Orders
<1>1. PICK a : a = CutClear(x) OBVIOUS
<1>2. /\ Plain(a) /\ Closed(a) /\ ~a.cmd.pending /\ Cleared(a) /\ a.enabled = x.enabled
      /\ ~a.lost /\ a.scanReq = x.scanReq /\ a.saved = x.saved
  BY <1>0, <1>1, CutClearIs
<1>3. Rec(y) /\ Paired(a, y) BY <1>1, <1>2, PairedIs
<1>4. 0 \in Nat /\ 0 <= MaxFailures BY RuntimeAssumption
<1>5. Plain(y) BY <1>2, <1>3, PairedPlain
<1> USE DEF Paired
<1>6. Closed(y) /\ ~y.cmd.pending BY <1>2, <1>3 DEF Closed, SameOrder, SameCommand
<1>7. Targets(y) BY <1>2, <1>3, <1>4 DEF Targets, Cleared
<1>8. y.enabled BY <1>2, <1>3
<1> QED BY <1>0, <1>2, <1>3, <1>5, <1>6, <1>7, <1>8, ClosedFine DEF Busy

LEMMA DisableFine ==
  ASSUME NEW e, NEW x, NEW y, Good(x, x.entered, e),
         y = [ CutClear(x) EXCEPT !.enabled = FALSE, !.scan = FALSE, !.scanReq = FALSE,
                 !.found = NoAddress, !.st = "IDLE", !.entered = FALSE ]
  PROVE  Fine(x, y)
<1>0. Plain(x) /\ RadioOK /\ Targets(x) /\ (x.fence => x.queued = None) BY DEF Good, Orders
<1>1. PICK a : a = CutClear(x) OBVIOUS
<1>2. /\ Plain(a) /\ Closed(a) /\ ~a.cmd.pending /\ Cleared(a) /\ a.enabled = x.enabled
      /\ ~a.lost /\ a.scanReq = x.scanReq /\ a.saved = x.saved /\ a.attempts = x.attempts
  BY <1>0, <1>1, CutClearIs
<1>9. Rec(y) BY <1>1, <1>2 DEF Plain, Rec
<1>3. /\ y.scan = FALSE /\ y.found = NoAddress /\ y.attempts = a.attempts
      /\ y.manual = a.manual /\ y.preempt = a.preempt /\ y.scanReq = FALSE /\ y.st = "IDLE"
      /\ y.entered = FALSE /\ y.enabled = FALSE /\ y.lost = a.lost
      /\ y.saved = a.saved /\ y.target = a.target /\ y.fromCand = a.fromCand
      /\ y.cand = a.cand /\ y.healed = a.healed /\ SameOrder(a, y) /\ SameCommand(a, y)
      /\ y.wasWarm = a.wasWarm /\ y.warm = a.warm /\ y.coldUsed = a.coldUsed
      /\ y.step = a.step /\ y.errs = a.errs
      /\ y.cuts = a.cuts /\ y.backoffs = a.backoffs /\ y.v1AtIdle = a.v1AtIdle
  <2>1. a = [ fld \in Fields |-> a[fld] ] BY <1>2 DEF Plain, Rec
  <2> QED BY <1>1, <2>1 DEF Fields, SameOrder, SameCommand
<1>5. Plain(y)
  <2>1. "IDLE" \in States BY DEF States
  <2> QED BY <1>2, <1>9, <1>3, <2>1 DEF Plain, SameOrder, SameCommand, Adapter
<1>6. Closed(y) /\ ~y.cmd.pending BY <1>2, <1>3 DEF Closed, SameOrder, SameCommand
<1>7. Targets(y) BY <1>0, <1>2, <1>3 DEF Targets, Cleared
<1>8. ~y.manual BY <1>2, <1>3 DEF Cleared
<1> QED BY <1>0, <1>2, <1>3, <1>5, <1>6, <1>7, <1>8, ClosedFine DEF Busy

LEMMA ForgetFine ==
  ASSUME NEW e, NEW x, NEW y, Good(x, x.entered, e),
         y = [ CutClear(x) EXCEPT !.saved = NoAddress, !.scan = FALSE, !.scanReq = FALSE,
                 !.found = NoAddress, !.attempts = 0, !.healed = NoAddress,
                 !.st = "IDLE", !.entered = FALSE ]
  PROVE  Fine(x, y)
<1>0. Plain(x) /\ RadioOK /\ (x.fence => x.queued = None) BY DEF Good, Orders
<1>1. PICK a : a = CutClear(x) OBVIOUS
<1>2. /\ Plain(a) /\ Closed(a) /\ ~a.cmd.pending /\ Cleared(a) /\ a.enabled = x.enabled
      /\ ~a.lost /\ a.scanReq = x.scanReq /\ a.saved = x.saved
  BY <1>0, <1>1, CutClearIs
<1>9. Rec(y) BY <1>1, <1>2 DEF Plain, Rec
<1>3. /\ y.scan = FALSE /\ y.found = NoAddress /\ y.attempts = 0
      /\ y.manual = a.manual /\ y.preempt = a.preempt /\ y.scanReq = FALSE /\ y.st = "IDLE"
      /\ y.entered = FALSE /\ y.enabled = a.enabled /\ y.lost = a.lost
      /\ y.saved = NoAddress /\ y.target = a.target /\ y.fromCand = a.fromCand
      /\ y.cand = a.cand /\ y.healed = NoAddress /\ SameOrder(a, y) /\ SameCommand(a, y)
      /\ y.wasWarm = a.wasWarm /\ y.warm = a.warm /\ y.coldUsed = a.coldUsed
      /\ y.step = a.step /\ y.errs = a.errs
      /\ y.cuts = a.cuts /\ y.backoffs = a.backoffs /\ y.v1AtIdle = a.v1AtIdle
  <2>1. a = [ fld \in Fields |-> a[fld] ] BY <1>2 DEF Plain, Rec
  <2> QED BY <1>1, <2>1 DEF Fields, SameOrder, SameCommand
<1>4. 0 \in Nat /\ 0 <= MaxFailures BY RuntimeAssumption
<1>5. Plain(y)
  <2>1. "IDLE" \in States BY DEF States
  <2> QED BY <1>2, <1>9, <1>3, <1>4, <2>1 DEF Plain, SameOrder, SameCommand, Adapter
<1>6. Closed(y) /\ ~y.cmd.pending BY <1>2, <1>3 DEF Closed, SameOrder, SameCommand
<1>7. Targets(y) BY <1>2, <1>3, <1>4 DEF Targets, Cleared
<1>8. ~y.manual BY <1>2, <1>3 DEF Cleared
<1> QED BY <1>0, <1>2, <1>3, <1>5, <1>6, <1>7, <1>8, ClosedFine DEF Busy

\* The session is enabled again in st.
Restarted(st, a, y) ==
    /\ y.enabled = TRUE /\ y.attempts = 0 /\ y.lost = FALSE /\ y.entered = FALSE /\ y.st = st
    /\ y.scanReq = a.scanReq /\ y.saved = a.saved /\ y.target = a.target
    /\ y.fromCand = a.fromCand /\ y.cand = a.cand /\ y.manual = a.manual
    /\ y.preempt = a.preempt /\ y.healed = a.healed /\ SameOrder(a, y) /\ SameCommand(a, y)
    /\ SameRest(a, y)

LEMMA RestartedIs ==
  ASSUME NEW st, NEW a, NEW y, Plain(a),
         y = [ a EXCEPT !.enabled = TRUE, !.attempts = 0, !.lost = FALSE, !.entered = FALSE,
                        !.st = st ]
  PROVE  Rec(y) /\ Restarted(st, a, y)
<1>1. Rec(y) BY DEF Plain, Rec
<1>2. a = [ fld \in Fields |-> a[fld] ] BY DEF Plain, Rec
<1>3. Restarted(st, a, y) BY <1>2 DEF Fields, Restarted, SameOrder, SameCommand, SameRest
<1> QED BY <1>1, <1>3

LEMMA EnableFine ==
  ASSUME NEW e, NEW x, NEW y, Good(x, x.entered, e), ~x.enabled,
         y = [ ClearManual(Quieted(x)) EXCEPT
                 !.enabled = TRUE, !.attempts = 0, !.lost = FALSE, !.entered = FALSE,
                 !.st = IF x.saved # NoAddress THEN "WAIT_BOOT" ELSE "IDLE" ]
  PROVE  Fine(x, y)
<1>0. Plain(x) /\ RadioOK /\ Targets(x) /\ Free(x) /\ x.st = "IDLE" /\ ~x.scanReq
  BY DEF Good, Stages
<1>1. PICK q : q = Quieted(x) OBVIOUS
<1>2. PICK a : a = ClearManual(q) OBVIOUS
<1>3. PICK st : st = IF x.saved # NoAddress THEN "WAIT_BOOT" ELSE "IDLE" OBVIOUS
<1>4. /\ Plain(q) /\ SamePlace(x, q) /\ SameTarget(x, q) /\ SameOrder(x, q) /\ Quiet(q)
  BY <1>0, <1>1, QuietedIs
<1>5. /\ Plain(a) /\ SamePlace(q, a) /\ SameOrder(q, a) /\ SameCommand(q, a)
      /\ a.saved = q.saved /\ Cleared(a)
  BY <1>2, <1>4, ClearManualIs
<1>6. y = [ a EXCEPT !.enabled = TRUE, !.attempts = 0, !.lost = FALSE, !.entered = FALSE,
                     !.st = st ]
  BY <1>1, <1>2, <1>3
<1>7. Rec(y) /\ Restarted(st, a, y) BY <1>5, <1>6, RestartedIs
<1>8. /\ y.enabled = TRUE /\ y.attempts = 0 /\ y.lost = FALSE /\ y.entered = FALSE /\ y.st = st
      /\ y.scanReq = a.scanReq /\ y.saved = a.saved /\ y.target = a.target
      /\ y.fromCand = a.fromCand /\ y.cand = a.cand /\ y.manual = a.manual
      /\ y.preempt = a.preempt /\ y.healed = a.healed /\ SameOrder(a, y) /\ SameCommand(a, y)
      /\ SameRest(a, y)
  BY <1>7 DEF Restarted
<1>9. 0 \in Nat /\ 0 <= MaxFailures /\ st \in { "WAIT_BOOT", "IDLE" } BY <1>3, RuntimeAssumption
<1>10. Plain(y)
  BY <1>5, <1>7, <1>8, <1>9, Stated DEF Plain, SameOrder, SameCommand, SameRest
<1>11. SameOrder(x, y) BY <1>4, <1>5, <1>8 DEF SameOrder
<1>12. ~y.cmd.pending /\ ~y.scanReq /\ ~y.manual /\ y.saved = x.saved
  BY <1>0, <1>4, <1>5, <1>8, NoCommandType
  DEF SameCommand, Quiet, SamePlace, SameTarget, SameAim, Cleared
<1> USE <1>0, <1>8, <1>9, <1>11, <1>12 DEF Good, SameOrder
<1>13. Orders(y) BY DEF Orders
<1>14. LinksOnce(y, FALSE) BY DEF LinksOnce, Free, Orders
<1>15. Stages(y, y.entered) BY DEF Stages, Free, Busy
<1>16. Targets(y) BY <1>5 DEF Targets, Cleared
<1>17. Peers(y, y.entered) BY DEF Peers, Busy
<1>18. CommandsHeld(y, y.entered) BY DEF CommandsHeld
<1>19. Steps(x, y) BY DEF Steps, Moves, Asks, Saves, None, TransportOps
<1> QED BY <1>10, <1>13, <1>14, <1>15, <1>16, <1>17, <1>18, <1>19 DEF Fine

LEMMA TypedSession ==
  ASSUME NEW x, Plain(x), x.attempts <= MaxFailures
  PROVE  x \in SessionType
<1>1. x.attempts \in 0..MaxFailures BY RuntimeAssumption DEF Plain
<1> QED BY <1>1 DEF Plain, Rec, Fields, SessionType, Adapter, CommandType, ResultType

LEMMA EventsTyped == ev \in EventType => EventsOK(ev)
  BY DEF EventType, EventsOK

LEMMA NoEventsTyped == NoEvents \in EventType /\ ~NoEvents.lost
  BY DEF NoEvents, EventType, Adapter

LEMMA Primed ==
  ASSUME NEW y, NEW en, NEW e, y = s', en = y.entered, e = ev'.lost, Good(y, en, e),
         UNCHANGED radio
  PROVE  SessionInv'
<1>1. link' = link /\ peer' = peer /\ run' = run /\ owes' = owes BY DEF radio
<1>2. s' = y /\ (s.entered)' = en /\ (ev.lost)' = e OBVIOUS
<1>3. Plain(s)' BY <1>2 DEF Good, Plain, Rec
<1>4. RadioOK' BY <1>1 DEF Good, RadioOK
<1>5. Orders(s)' BY <1>1, <1>2 DEF Good, Orders, Address0
<1>6. LinksOnce(s, ev.lost)' BY <1>1, <1>2 DEF Good, LinksOnce, Free
<1>7. Stages(s, s.entered)' BY <1>1, <1>2 DEF Good, Stages, Free
<1>8. Targets(s)' BY <1>1, <1>2 DEF Good, Targets
<1>9. Peers(s, s.entered)' BY <1>1, <1>2 DEF Good, Peers, Address0
<1>10. CommandsHeld(s, s.entered)' BY <1>1, <1>2 DEF Good, CommandsHeld
<1> QED
  BY <1>3, <1>4, <1>5, <1>6, <1>7, <1>8, <1>9, <1>10 DEF SessionInv, Good

-----------------------------------------------------------------------------
(* The actions of the session.                                             *)

SessionStepped == IInv' /\ Steps(s, s') /\ UNCHANGED radio

LEMMA GoodStep ==
  ASSUME NEW y, NEW en, NEW e, y = s', en = y.entered, e = ev'.lost, Good(y, en, e),
         Steps(s, y),
         ev' \in EventType, UNCHANGED radio
  PROVE  SessionStepped
<1>1. SessionInv' BY Primed
<1>2. Steps(s, s') OBVIOUS
<1> QED BY <1>1, <1>2 DEF SessionStepped, IInv, EventType

LEMMA FineStep ==
  ASSUME NEW y, y = s', Fine(s, y), ev' = NoEvents, UNCHANGED radio
  PROVE  SessionStepped
<1>1. PICK en, e : en = y.entered /\ e = FALSE OBVIOUS
<1>2. Good(y, en, e) /\ Steps(s, y) BY <1>1 DEF Fine
<1>3. ev' \in EventType /\ e = ev'.lost BY <1>1, NoEventsTyped DEF NoEvents
<1> QED BY <1>1, <1>2, <1>3, GoodStep

LEMMA PairStep == ASSUME IInv, RequestManualPairScan PROVE SessionStepped
<1>1. PICK x, y, e : x = s /\ y = s' /\ e = ev.lost OBVIOUS
<1>2. Good(x, x.entered, e) BY <1>1 DEF IInv, SessionInv
<1>3. /\ x.enabled
      /\ y = [ CutClear(x) EXCEPT !.scan = FALSE, !.found = NoAddress, !.attempts = 0,
                 !.manual = TRUE, !.preempt = TRUE, !.scanReq = TRUE,
                 !.st = "IDLE", !.entered = FALSE ]
      /\ ev' = NoEvents /\ UNCHANGED radio
  BY <1>1 DEF RequestManualPairScan, CutClear
<1>4. Fine(x, y) BY <1>2, <1>3, PairFine
<1> QED BY <1>1, <1>3, <1>4, FineStep

LEMMA DisableStep == ASSUME IInv, Disable PROVE SessionStepped
<1>1. PICK x, y, e : x = s /\ y = s' /\ e = ev.lost OBVIOUS
<1>2. Good(x, x.entered, e) BY <1>1 DEF IInv, SessionInv
<1>3. /\ y = [ CutClear(x) EXCEPT !.enabled = FALSE, !.scan = FALSE, !.scanReq = FALSE,
                 !.found = NoAddress, !.st = "IDLE", !.entered = FALSE ]
      /\ ev' = NoEvents /\ UNCHANGED radio
  BY <1>1 DEF Disable, CutClear
<1>4. Fine(x, y) BY <1>2, <1>3, DisableFine
<1> QED BY <1>1, <1>3, <1>4, FineStep

LEMMA EnableStep == ASSUME IInv, Enable PROVE SessionStepped
<1>1. PICK x, y, e : x = s /\ y = s' /\ e = ev.lost OBVIOUS
<1>2. Good(x, x.entered, e) BY <1>1 DEF IInv, SessionInv
<1>3. /\ ~x.enabled
      /\ y = [ ClearManual(Quieted(x)) EXCEPT
                 !.enabled = TRUE, !.attempts = 0, !.lost = FALSE, !.entered = FALSE,
                 !.st = IF x.saved # NoAddress THEN "WAIT_BOOT" ELSE "IDLE" ]
      /\ ev' = NoEvents /\ UNCHANGED radio
  BY <1>1 DEF Enable
<1>4. Fine(x, y) BY <1>2, <1>3, EnableFine
<1> QED BY <1>1, <1>3, <1>4, FineStep

LEMMA ForgetStep == ASSUME IInv, ForgetDevice PROVE SessionStepped
<1>1. PICK x, y, e : x = s /\ y = s' /\ e = ev.lost OBVIOUS
<1>2. Good(x, x.entered, e) BY <1>1 DEF IInv, SessionInv
<1>3. /\ y = [ CutClear(x) EXCEPT !.saved = NoAddress, !.scan = FALSE, !.scanReq = FALSE,
                 !.found = NoAddress, !.attempts = 0, !.healed = NoAddress,
                 !.st = "IDLE", !.entered = FALSE ]
      /\ ev' = NoEvents /\ UNCHANGED radio
  BY <1>1 DEF ForgetDevice, CutClear
<1>4. Fine(x, y) BY <1>2, <1>3, ForgetFine
<1> QED BY <1>1, <1>3, <1>4, FineStep

LEMMA TeardownStep == ASSUME IInv, EndForTeardown PROVE SessionStepped
<1>1. PICK x, y, e : x = s /\ y = s' /\ e = ev.lost OBVIOUS
<1>2. Good(x, x.entered, e) /\ ev \in EventType BY <1>1 DEF IInv, SessionInv
<1>3. y = Ended(x) /\ UNCHANGED radio BY <1>1 DEF EndForTeardown
<1>4. CASE EndCutsLink(x)
  <2>1. ev' = NoEvents BY <1>1, <1>4 DEF EndForTeardown
  <2>2. Fine(x, y) BY <1>2, <1>3, <1>4, EndedFine
  <2> QED BY <1>1, <1>3, <2>1, <2>2, FineStep
<1>5. CASE ~EndCutsLink(x)
  <2>1. ev' = ev BY <1>1, <1>5 DEF EndForTeardown
  <2>2. Good(y, y.entered, e) /\ Steps(x, y) BY <1>2, <1>3, <1>5, EndedFine
  <2>3. PICK en : en = y.entered OBVIOUS
  <2>4. Good(y, en, e) BY <2>2, <2>3
  <2> QED BY <1>1, <1>2, <1>3, <2>1, <2>2, <2>3, <2>4, GoodStep
<1> QED BY <1>4, <1>5

LEMMA UpdateStep ==
  ASSUME NEW c \in ContextType, NEW w, NEW x, NEW y, x = s, y = s', y = Updated(w, c),
         Good(w, w.entered, ev.lost), ev \in EventType, Steps(x, w), w.enabled = x.enabled,
         w.queued = x.queued, w.fence = x.fence, w.fresh = x.fresh, w.saved = x.saved,
         ev' = IF x.enabled THEN NoEvents ELSE ev, UNCHANGED radio
  PROVE  SessionStepped
<1>1. /\ w.enabled => Good(y, y.entered, FALSE)
      /\ ~w.enabled => Good(y, y.entered, ev.lost)
      /\ Steps(w, y)
  BY EventsTyped, UpdatedFine
<1>2. Steps(x, y) BY <1>1 DEF Steps, Moves, Asks, Saves
<1>3. CASE x.enabled
  <2>1. Fine(x, y) BY <1>1, <1>2, <1>3 DEF Fine
  <2>2. ev' = NoEvents BY <1>3
  <2> QED BY <2>1, <2>2, FineStep
<1>4. CASE ~x.enabled
  <2>1. PICK en, e : en = y.entered /\ e = ev'.lost OBVIOUS
  <2>2. ev' = ev BY <1>4
  <2>3. Good(y, en, e) BY <1>1, <1>4, <2>1, <2>2
  <2> QED BY <1>2, <2>1, <2>2, <2>3, GoodStep
<1> QED BY <1>3, <1>4

LEMMA ProcessStep ==
  ASSUME NEW c \in Contexts, IInv, ProcessObd(c)
  PROVE  SessionStepped /\ (c.proxyClient =>
           s'.st \notin SetupStates \cup { "SCANNING", "POLLING" } /\ ~s'.manual /\ ~s'.scan)
<1>0. c \in ContextType BY ContextsAssumption
<1>1. PICK x, y, e : x = s /\ y = s' /\ e = ev.lost OBVIOUS
<1>2. Good(x, x.entered, e) /\ ev \in EventType BY <1>1 DEF IInv, SessionInv
<1>3. UNCHANGED radio BY DEF ProcessObd
<1>4. CASE c.proxyClient /\ EndCutsLink(x)
  <2>1. y = Ended(x) /\ ev' = NoEvents BY <1>1, <1>4 DEF ProcessObd
  <2>2. Fine(x, y) /\ y.st \in { "IDLE", "DISCONNECTED" } /\ Yielded(y)
    BY <1>2, <1>4, <2>1, EndedFine
  <2>3. SessionStepped BY <1>1, <1>3, <2>1, <2>2, FineStep
  <2> QED BY <1>1, <2>2, <2>3 DEF Yielded
<1>5. CASE c.proxyClient /\ ~EndCutsLink(x)
  <2>1. PICK w : w = Ended(x) OBVIOUS
  <2>2. /\ y = Updated(w, c) /\ ev' = IF x.enabled THEN NoEvents ELSE ev
    BY <1>1, <1>5, <2>1 DEF ProcessObd
  <2>3. /\ Good(w, w.entered, e) /\ Steps(x, w) /\ Yielded(w)
        /\ w.enabled = x.enabled /\ w.fence = x.fence
        /\ w.queued = x.queued /\ w.saved = x.saved /\ w.fresh = x.fresh
    BY <1>2, <1>5, <2>1, EndedFine
  <2>4. Good(w, w.entered, ev.lost) BY <1>1, <2>3
  <2>5. SessionStepped BY <1>0, <1>1, <1>2, <1>3, <2>2, <2>3, <2>4, UpdateStep
  <2>6. Yielded(y) /\ y.st # "POLLING"
    BY <1>0, <1>2, <1>5, <2>2, <2>3, <2>4, EventsTyped, UpdatedFine
  <2> QED BY <1>1, <2>5, <2>6 DEF Yielded
<1>6. CASE ~c.proxyClient
  <2>1. /\ y = Updated(x, c) /\ ev' = IF x.enabled THEN NoEvents ELSE ev
    BY <1>1, <1>6 DEF ProcessObd
  <2>2. Good(x, x.entered, ev.lost) BY <1>1, <1>2
  <2>3. Steps(x, x) BY <2>2, StillGood
  <2>4. SessionStepped BY <1>0, <1>1, <1>2, <1>3, <2>1, <2>2, <2>3, UpdateStep
  <2> QED BY <1>6, <2>4
<1> QED BY <1>4, <1>5, <1>6

LEMMA AdoptStep ==
  ASSUME NEW a \in Address, IInv, AdoptRecovered(a)
  PROVE  IInv' /\ Moves(s, s') /\ Asks(s, s') /\ ~s.enabled /\ UNCHANGED radio
<1>1. PICK y, e, no, yes, none : y = s' /\ e = ev'.lost /\ no = FALSE /\ yes = TRUE /\ none = NoAddress
  OBVIOUS
<1>2. s = InitSession(no, none) /\ y = InitSession(yes, a) /\ UNCHANGED << radio, ev >>
  BY <1>1 DEF AdoptRecovered
<1>3. s.fresh /\ ~s.fence /\ s.queued = None /\ ~s.enabled
  BY <1>1, <1>2 DEF InitSession
<1>4. RadioOK /\ link = "down" /\ run = None /\ ~owes
  BY <1>3 DEF IInv, SessionInv, Good, Orders
<1>5. no \in BOOLEAN /\ yes \in BOOLEAN /\ a \in Adapter /\ none \in Adapter BY <1>1 DEF Adapter
<1>6. Good(y, y.entered, e) /\ y.queued = None /\ ~y.fence
  BY <1>2, <1>4, <1>5, InitSessionIs
<1>7. PICK en : en = y.entered OBVIOUS
<1>8. Good(y, en, e) BY <1>6, <1>7
<1>9. SessionInv' BY <1>1, <1>2, <1>7, <1>8, Primed
<1>10. Moves(s, y) /\ Asks(s, y)
  <2>1. y.fence \in BOOLEAN /\ s.fence \in BOOLEAN
    BY <1>6 DEF IInv, SessionInv, Good, Plain
  <2> QED BY <1>3, <1>6, <2>1 DEF Moves, Asks, None, TransportOps
<1> QED BY <1>1, <1>2, <1>3, <1>9, <1>10 DEF IInv, EventType

-----------------------------------------------------------------------------
(* The transport and the radio.                                            *)

LEMMA Parts ==
  ASSUME IInv
  PROVE  /\ Plain(s) /\ RadioOK /\ Orders(s) /\ LinksOnce(s, ev.lost)
         /\ Stages(s, s.entered) /\ Targets(s) /\ Peers(s, s.entered)
         /\ CommandsHeld(s, s.entered) /\ ev \in EventType
  BY DEF IInv, SessionInv, Good

LEMMA Assemble ==
  ASSUME Plain(s)', RadioOK', Orders(s)', LinksOnce(s, ev.lost)', Stages(s, s.entered)',
         Targets(s)', Peers(s, s.entered)', CommandsHeld(s, s.entered)', ev' \in EventType
  PROVE  IInv'
  BY DEF IInv, SessionInv, Good, EventType

\* What a step of the transport leaves of the session.
SameSession(x, y) ==
    SamePlace(x, y) /\ SameTarget(x, y) /\ SameRest(x, y) /\ SameCommand(x, y)

LEMMA FenceOpensStep == ASSUME IInv, FenceOpens PROVE IInv'
<1>1. PICK x, y : x = s /\ y = s' OBVIOUS
<1>2. Plain(x) BY <1>1, Parts
<1>3. y = [ x EXCEPT !.fence = FALSE, !.fresh = TRUE ]
  BY <1>1 DEF FenceOpens
<1>4. /\ Rec(y) /\ SameSession(x, y) /\ y.fence = FALSE /\ y.fresh = TRUE
      /\ y.op = x.op /\ y.mine = x.mine /\ y.queued = x.queued /\ y.dest = x.dest
      /\ y.ready = x.ready
  <2>1. Rec(y) BY <1>2, <1>3 DEF Plain, Rec
  <2>2. x = [ fld \in Fields |-> x[fld] ] BY <1>2, <1>3 DEF Plain, Rec
  <2> QED BY <1>2, <1>3, <2>1, <2>2
    DEF Fields, SameSession, SamePlace, SameTarget, SameAim, SameRest, SameCommand
<1>5. Plain(y)
  BY <1>2, <1>4
  DEF Plain, SameSession, SamePlace, SameTarget, SameAim, SameRest, SameCommand
<1>6. /\ x.fence /\ run = None /\ link = "down" /\ ~owes
      /\ peer' = NoAddress /\ link' = link /\ run' = run /\ owes' = owes /\ ev' = ev
  BY <1>1 DEF FenceOpens
<1>7. s' = y /\ s = x /\ (s.entered)' = y.entered /\ (ev.lost)' = ev.lost BY <1>1, <1>6
<1>8. /\ RadioOK /\ Orders(x) /\ Stages(x, x.entered) /\ Targets(x)
      /\ CommandsHeld(x, x.entered) /\ ev \in EventType
  BY <1>1, Parts
<1> USE DEF SameSession, SamePlace, SameTarget, SameAim, SameCommand
<1>9. x.op = None /\ x.queued = None /\ x.ready = NoResult /\ ~x.mine
      /\ x.st \notin Busy /\ (x.st = "CONNECTING" => x.entered)
  BY <1>6, <1>8 DEF Orders, Stages, Free, None
<1>10. Plain(s)' BY <1>5, <1>7 DEF Plain, Rec
<1>11. RadioOK' BY <1>6, <1>8 DEF RadioOK, Adapter
<1>12. Orders(s)' BY <1>4, <1>6, <1>7, <1>8, <1>9 DEF Orders, Address0
<1>13. LinksOnce(s, ev.lost)' BY <1>4, <1>6, <1>7, <1>9 DEF LinksOnce, Free
<1>14. Stages(s, s.entered)' BY <1>4, <1>6, <1>7, <1>8 DEF Stages, Free
<1>15. Targets(s)' BY <1>4, <1>7, <1>8 DEF Targets
<1>16. Peers(s, s.entered)' BY <1>4, <1>7, <1>9 DEF Peers
<1>17. CommandsHeld(s, s.entered)' BY <1>4, <1>7, <1>8 DEF CommandsHeld
<1>18. ev' \in EventType BY <1>6, <1>8
<1> QED
  BY <1>10, <1>11, <1>12, <1>13, <1>14, <1>15, <1>16, <1>17, <1>18, Assemble

LEMMA OperationStartsStep == ASSUME IInv, OperationStarts PROVE IInv'
<1>1. PICK x, y : x = s /\ y = s' OBVIOUS
<1>2. Plain(x) BY <1>1, Parts
<1>3. y = [ x EXCEPT !.queued = None, !.mine = TRUE, !.dest = NoAddress ]
  BY <1>1 DEF OperationStarts
<1>4. /\ Rec(y) /\ SameSession(x, y) /\ y.queued = None /\ y.mine = TRUE /\ y.dest = NoAddress
      /\ y.op = x.op /\ y.ready = x.ready /\ y.fence = x.fence /\ y.fresh = x.fresh
  <2>1. Rec(y) BY <1>2, <1>3 DEF Plain, Rec
  <2>2. x = [ fld \in Fields |-> x[fld] ] BY <1>2, <1>3 DEF Plain, Rec
  <2> QED BY <1>2, <1>3, <2>1, <2>2
    DEF Fields, SameSession, SamePlace, SameTarget, SameAim, SameRest, SameCommand
<1>5. Plain(y)
  BY <1>2, <1>4
  DEF Plain, SameSession, SamePlace, SameTarget, SameAim, SameRest, SameCommand, Adapter
<1>6. /\ x.queued # None /\ run = None /\ run' = x.queued /\ owes' = owes /\ ev' = ev
      /\ \/ x.queued = "CONNECT" /\ link = "down" /\ link' = "connecting" /\ peer' = x.dest
         \/ ~(x.queued = "CONNECT" /\ link = "down") /\ link' = link /\ peer' = peer
  BY <1>1 DEF OperationStarts
<1>7. s' = y /\ s = x /\ (s.entered)' = y.entered /\ (ev.lost)' = ev.lost BY <1>1, <1>6
<1>8. /\ RadioOK /\ Orders(x) /\ LinksOnce(x, ev.lost) /\ Stages(x, x.entered) /\ Targets(x)
      /\ Peers(x, x.entered) /\ CommandsHeld(x, x.entered) /\ ev \in EventType
  BY <1>1, Parts
<1> USE DEF SameSession, SamePlace, SameTarget, SameAim, SameCommand
<1>9. /\ x.op = x.queued /\ ~x.fence /\ ~x.fresh /\ x.ready = NoResult
      /\ (x.queued = "CONNECT" => /\ x.st = "CONNECTING" /\ ~x.entered /\ link = "down"
                                  /\ x.dest = Address0(x)
                                  /\ ~x.lost /\ ~ev.lost /\ ~owes)
      /\ (x.queued # "CONNECT" => link # "connecting")
  <2>1. x.op = x.queued /\ ~x.fence /\ x.ready = NoResult BY <1>6, <1>8 DEF Orders
  <2>2. ~x.fresh BY <1>6, <1>8, <2>1 DEF Orders
  <2>3. x.queued = "CONNECT" => /\ x.st = "CONNECTING" /\ ~x.entered /\ link = "down"
                                /\ x.dest = Address0(x)
    BY <1>8 DEF Orders
  <2>4. x.queued = "CONNECT" => ~x.lost /\ ~ev.lost /\ ~owes
    BY <1>8, <2>1, <2>2 DEF LinksOnce, Free
  <2>5. x.queued # "CONNECT" => link # "connecting"
    BY <1>6, <1>8, <2>1 DEF LinksOnce, None
  <2> QED BY <2>1, <2>2, <2>3, <2>4, <2>5
<1>10. Plain(s)' BY <1>5, <1>7 DEF Plain, Rec
<1>11. RadioOK'
  <2>1. x.dest \in Adapter /\ x.queued \in TransportOps \cup { None } BY <1>2 DEF Plain
  <2> QED BY <1>6, <1>8, <2>1 DEF RadioOK
<1>12. Orders(s)' BY <1>4, <1>6, <1>7, <1>8, <1>9 DEF Orders, Address0, None
<1>13. LinksOnce(s, ev.lost)'
  BY <1>4, <1>6, <1>7, <1>8, <1>9, NoCommandType DEF LinksOnce, Free, None
<1>14. Stages(s, s.entered)' BY <1>4, <1>6, <1>7, <1>8, <1>9 DEF Stages, Free
<1>15. Targets(s)' BY <1>4, <1>7, <1>8 DEF Targets
<1>16. Peers(s, s.entered)' BY <1>4, <1>6, <1>7, <1>8, <1>9 DEF Peers, Address0, Busy, None
<1>17. CommandsHeld(s, s.entered)' BY <1>4, <1>7, <1>8 DEF CommandsHeld
<1>18. ev' \in EventType BY <1>6, <1>8
<1> QED
  BY <1>10, <1>11, <1>12, <1>13, <1>14, <1>15, <1>16, <1>17, <1>18, Assemble

\* The result of the session's own operation.
Answered(op, ok, x, y) ==
    /\ y.op = None /\ y.mine = FALSE /\ y.ready = [ op |-> op, ok |-> ok ]
    /\ y.queued = x.queued /\ y.dest = x.dest /\ y.fence = x.fence /\ y.fresh = x.fresh

\* A result is stored with the request cleared.
Stored(r, x, y) ==
    /\ SameSession(x, y) /\ y.op = None /\ y.mine = FALSE /\ y.ready = r
    /\ y.queued = x.queued /\ y.dest = x.dest /\ y.fence = x.fence /\ y.fresh = x.fresh

LEMMA StoredIs ==
  ASSUME NEW r, NEW x, NEW y, Plain(x), r \in ResultType,
         y = [ ClearRequest(x) EXCEPT !.ready = r ]
  PROVE  Plain(y) /\ Stored(r, x, y)
<1>1. Rec(y) BY DEF Plain, Rec, ClearRequest
<1>2. x = [ fld \in Fields |-> x[fld] ] BY DEF Plain, Rec
<1>3. Stored(r, x, y)
  BY <1>2
  DEF Fields, ClearRequest, Stored, SameSession, SamePlace, SameTarget, SameAim, SameRest,
      SameCommand
<1>4. Plain(y)
  BY <1>1, <1>3
  DEF Plain, Stored, SameSession, SamePlace, SameTarget, SameAim, SameRest, SameCommand
<1> QED BY <1>3, <1>4

LEMMA AnsweredIs ==
  ASSUME NEW op, NEW ok, NEW x, NEW y, Plain(x), op \in TransportOps, ok \in BOOLEAN,
         y = [ ClearRequest(x) EXCEPT !.ready = [ op |-> op, ok |-> ok ] ]
  PROVE  Plain(y) /\ SameSession(x, y) /\ Answered(op, ok, x, y)
<1>1. PICK r : r = [ op |-> op, ok |-> ok ] OBVIOUS
<1>2. r \in ResultType BY <1>1 DEF ResultType
<1>3. y = [ ClearRequest(x) EXCEPT !.ready = r ] BY <1>1
<1>4. Plain(y) /\ Stored(r, x, y) BY <1>2, <1>3, StoredIs
<1> QED BY <1>1, <1>4 DEF Stored, Answered

LEMMA OperationEndsStep == ASSUME IInv, NEW ok \in BOOLEAN, OperationEnds(ok) PROVE IInv'
<1>1. PICK x, y : x = s /\ y = s' OBVIOUS
<1>2. Plain(x) BY <1>1, Parts
<1>3. /\ run # None /\ run' = None /\ peer' = peer /\ ev' = ev
      /\ (run = "CONNECT" => (ok <=> link = "up"))
      /\ link' = IF link = "connecting" THEN "down" ELSE link
      /\ owes' \in IF link = "connecting" THEN BOOLEAN ELSE { owes }
  BY <1>1 DEF OperationEnds, IsConnected
<1>4. /\ RadioOK /\ Orders(x) /\ LinksOnce(x, ev.lost) /\ Stages(x, x.entered) /\ Targets(x)
      /\ Peers(x, x.entered) /\ CommandsHeld(x, x.entered) /\ ev \in EventType
  BY <1>1, Parts
<1>5. s' = y /\ s = x /\ (s.entered)' = y.entered /\ (ev.lost)' = ev.lost BY <1>1, <1>3
<1>6. /\ Plain(y) /\ SameSession(x, y)
      /\ y.queued = x.queued /\ y.dest = x.dest /\ y.fence = x.fence /\ y.fresh = x.fresh
      /\ \/ /\ x.mine /\ x.op = run /\ y.op = None /\ ~y.mine /\ y.ready.op = run
            /\ (y.ready.ok <=> ok) /\ y.ready \in ResultType
         \/ ~x.mine /\ y = x
  <2>1. CASE x.mine
    <3>1. y = [ ClearRequest(x) EXCEPT !.ready = [ op |-> run, ok |-> ok ] ]
      BY <1>1, <2>1 DEF OperationEnds
    <3>2. run \in TransportOps /\ x.op = run BY <1>3, <1>4, <2>1 DEF RadioOK, Orders
    <3>3. Plain(y) /\ SameSession(x, y) /\ Answered(run, ok, x, y)
      BY <1>2, <3>1, <3>2, AnsweredIs
    <3>4. y.ready.op = run /\ (y.ready.ok <=> ok)
      BY <3>3 DEF Answered
    <3> QED BY <2>1, <3>2, <3>3, <3>4 DEF Answered, Plain
  <2>2. CASE ~x.mine
    <3>1. y = x BY <1>1, <2>2 DEF OperationEnds
    <3> QED
      BY <1>2, <2>2, <3>1
      DEF SameSession, SamePlace, SameTarget, SameAim, SameRest, SameCommand
  <2> QED BY <2>1, <2>2
<1> USE DEF SameSession, SamePlace, SameTarget, SameAim, SameCommand
<1>7. Plain(s)' BY <1>5, <1>6 DEF Plain, Rec
<1>8. RadioOK' BY <1>3, <1>4 DEF RadioOK
<1>9. x.queued # "CONNECT" /\ (x.mine => x.queued = None /\ ~x.fence)
  <2>1. x.queued # "CONNECT" BY <1>3, <1>4 DEF Orders
  <2>2. x.mine => x.queued = None BY <1>4 DEF Orders
  <2>3. x.mine => ~x.fence BY <1>3, <1>4 DEF Orders
  <2> QED BY <2>1, <2>2, <2>3
<1>10. ~(x.fresh /\ ~x.fence) BY <1>3, <1>4 DEF Orders
<1>11. Orders(s)'
  <2>1. CASE x.mine
    <3>1. y.op = None /\ ~y.mine BY <1>6, <2>1
    <3> QED BY <1>4, <1>5, <1>6, <1>9, <1>10, <2>1, <3>1 DEF Orders, None
  <2>2. CASE ~x.mine
    BY <1>3, <1>4, <1>5, <1>6, <1>9, <1>10, <2>2 DEF Orders, Address0
  <2> QED BY <2>1, <2>2
<1>12. LinksOnce(s, ev.lost)'
  <2>1. link' # "connecting" BY <1>3
  <2>2. ~Free(y) /\ (y.lost \/ ev.lost \/ owes') => link' = "down" /\ y.queued # "CONNECT"
    BY <1>3, <1>4, <1>6, <1>9 DEF LinksOnce, Free
  <2>3. ~y.fence /\ y.ready.op = "CONNECT" /\ ~y.ready.ok => link' = "down"
    <3>1. CASE x.mine
      BY <1>3, <1>4, <1>6, <3>1 DEF RadioOK
    <3>2. CASE ~x.mine
      BY <1>3, <1>4, <1>6, <3>2 DEF LinksOnce
    <3> QED BY <3>1, <3>2
  <2> QED BY <2>1, <2>2, <2>3, <1>5 DEF LinksOnce, Free
<1>13. Stages(s, s.entered)' BY <1>3, <1>4, <1>5, <1>6 DEF Stages, Free
<1>14. Targets(s)' BY <1>4, <1>5, <1>6 DEF Targets
<1>15. Peers(s, s.entered)' BY <1>3, <1>4, <1>5, <1>6 DEF Peers, Address0
<1>16. CommandsHeld(s, s.entered)'
  <2>1. CASE x.mine
    <3>1. x.ready = NoResult BY <1>3, <1>4, <2>1 DEF Orders
    <3>2. y.cmd.pending => run = "WRITE"
      BY <1>4, <1>6, <2>1, <3>1, NoCommandType DEF CommandsHeld, None
    <3>3. y.cmd.pending => y.ready.op = "WRITE" BY <1>6, <2>1, <3>2
    <3> QED BY <1>4, <1>5, <1>6, <3>3 DEF CommandsHeld
  <2>2. CASE ~x.mine
    BY <1>4, <1>5, <1>6, <2>2 DEF CommandsHeld
  <2> QED BY <2>1, <2>2
<1>17. ev' \in EventType BY <1>3, <1>4
<1> QED
  BY <1>7, <1>8, <1>11, <1>12, <1>13, <1>14, <1>15, <1>16, <1>17, Assemble

LEMMA LinkStep == ASSUME IInv, LinkMade \/ LinkLost PROVE IInv'
<1>1. /\ s' = s /\ peer' = peer /\ run' = run /\ ev' = ev
      /\ \/ link = "connecting" /\ link' = "up" /\ owes' = owes
         \/ link = "up" /\ ~owes /\ link' = "down" /\ owes' = TRUE
  BY DEF LinkMade, LinkLost, IsConnected
<1>2. PICK x : x = s OBVIOUS
<1>3. s' = x /\ s = x /\ (s.entered)' = x.entered /\ (ev.lost)' = ev.lost BY <1>1, <1>2
<1>4. /\ Plain(x) /\ RadioOK /\ Orders(x) /\ LinksOnce(x, ev.lost) /\ Stages(x, x.entered)
      /\ Targets(x) /\ Peers(x, x.entered) /\ CommandsHeld(x, x.entered) /\ ev \in EventType
  BY <1>2, Parts
<1>5. Plain(s)' BY <1>3, <1>4 DEF Plain, Rec
<1>6. RadioOK' BY <1>1, <1>4 DEF RadioOK
<1>7. ~(x.fresh /\ ~x.fence) /\ x.queued # "CONNECT"
  BY <1>1, <1>4 DEF Orders
<1>8. Orders(s)' BY <1>1, <1>3, <1>4, <1>7 DEF Orders, Address0
<1>9. LinksOnce(s, ev.lost)' BY <1>1, <1>3, <1>4, <1>7 DEF LinksOnce, Free
<1>10. Stages(s, s.entered)' BY <1>1, <1>3, <1>4, <1>7 DEF Stages, Free
<1>11. Targets(s)' BY <1>3, <1>4 DEF Targets
<1>12. Peers(s, s.entered)' BY <1>1, <1>3, <1>4 DEF Peers, Address0
<1>13. CommandsHeld(s, s.entered)' BY <1>3, <1>4 DEF CommandsHeld
<1>14. ev' \in EventType BY <1>1, <1>4
<1> QED BY <1>5, <1>6, <1>8, <1>9, <1>10, <1>11, <1>12, <1>13, <1>14, Assemble

\* An event is queued, or the scan goes off: what the session relies on stays.
LEMMA EventStep ==
  ASSUME IInv, NEW y, y = s', Plain(y), SamePlace(s, y), SameTarget(s, y), SameOrder(s, y),
         SameCommand(s, y), link' = link, peer' = peer, run' = run,
         \/ owes' = owes /\ ev'.lost = ev.lost
         \/ owes /\ owes' = FALSE /\ ev'.lost = TRUE,
         ev' \in EventType
  PROVE  IInv'
<1>1. PICK x : x = s OBVIOUS
<1>2. s' = y /\ s = x /\ (s.entered)' = y.entered BY <1>1
<1>3. /\ Plain(x) /\ RadioOK /\ Orders(x) /\ LinksOnce(x, ev.lost) /\ Stages(x, x.entered)
      /\ Targets(x) /\ Peers(x, x.entered) /\ CommandsHeld(x, x.entered)
  BY <1>1, Parts
<1> USE <1>1 DEF SamePlace, SameTarget, SameAim, SameOrder, SameCommand
<1>4. Plain(s)' BY <1>2 DEF Plain, Rec
<1>5. RadioOK' BY <1>3 DEF RadioOK
<1>6. Orders(s)' BY <1>2, <1>3 DEF Orders, Address0
<1>7. LinksOnce(s, ev.lost)' BY <1>2, <1>3 DEF LinksOnce, Free
<1>8. Stages(s, s.entered)' BY <1>2, <1>3 DEF Stages, Free
<1>9. Targets(s)' BY <1>2, <1>3 DEF Targets
<1>10. Peers(s, s.entered)' BY <1>2, <1>3 DEF Peers, Address0
<1>11. CommandsHeld(s, s.entered)' BY <1>2, <1>3 DEF CommandsHeld
<1> QED BY <1>4, <1>5, <1>6, <1>7, <1>8, <1>9, <1>10, <1>11, Assemble

LEMMA LossQueuedStep == ASSUME IInv, LossQueued PROVE IInv'
<1>1. /\ owes /\ owes' = FALSE /\ s' = s /\ link' = link /\ peer' = peer /\ run' = run
      /\ ev' = [ ev EXCEPT !.lost = TRUE ]
  BY DEF LossQueued
<1>2. ev' \in EventType /\ ev'.lost = TRUE BY <1>1, Parts DEF EventType
<1>3. PICK y : y = s OBVIOUS
<1>4. /\ Plain(y) /\ SamePlace(s, y) /\ SameTarget(s, y) /\ SameOrder(s, y) /\ SameCommand(s, y)
  BY <1>3, Parts DEF SamePlace, SameTarget, SameAim, SameOrder, SameCommand
<1> QED BY <1>1, <1>2, <1>3, <1>4, EventStep

LEMMA RepliedStep == ASSUME IInv, NEW d \in Responses, Replied(d) PROVE IInv'
<1>1. /\ owes' = owes /\ s' = s /\ link' = link /\ peer' = peer /\ run' = run
      /\ ev' = [ ev EXCEPT !.data = d ]
  BY DEF Replied, radio
<1>2. ev' \in EventType /\ ev'.lost = ev.lost BY <1>1, Parts DEF EventType
<1>3. PICK y : y = s OBVIOUS
<1>4. /\ Plain(y) /\ SamePlace(s, y) /\ SameTarget(s, y) /\ SameOrder(s, y) /\ SameCommand(s, y)
  BY <1>3, Parts DEF SamePlace, SameTarget, SameAim, SameOrder, SameCommand
<1> QED BY <1>1, <1>2, <1>3, <1>4, EventStep

LEMMA ScanOffIs ==
  ASSUME NEW x, NEW y, Plain(x), y = [ x EXCEPT !.scan = FALSE ]
  PROVE  /\ Plain(y) /\ SamePlace(x, y) /\ SameTarget(x, y) /\ SameOrder(x, y)
         /\ SameCommand(x, y)
<1>1. Rec(y) BY DEF Plain, Rec
<1>2. /\ SamePlace(x, y) /\ SameTarget(x, y) /\ SameOrder(x, y) /\ SameCommand(x, y)
      /\ y.found = x.found /\ y.scan = FALSE
      /\ y.wasWarm = x.wasWarm /\ y.warm = x.warm /\ y.coldUsed = x.coldUsed
      /\ y.step = x.step /\ y.errs = x.errs
      /\ y.cuts = x.cuts /\ y.backoffs = x.backoffs /\ y.v1AtIdle = x.v1AtIdle
  BY DEF Plain, Rec, Fields, SamePlace, SameTarget, SameAim, SameOrder, SameCommand
<1>3. Plain(y)
  BY <1>1, <1>2 DEF Plain, SamePlace, SameTarget, SameAim, SameOrder, SameCommand
<1> QED BY <1>2, <1>3

LEMMA ScanStep ==
  ASSUME IInv, ScanEnds \/ (\E a \in Address : DeviceFound(a)) PROVE IInv'
<1>1. /\ owes' = owes /\ link' = link /\ peer' = peer /\ run' = run
      /\ s' = [ s EXCEPT !.scan = FALSE ]
  BY DEF ScanEnds, DeviceFound, radio
<1>2. ev' \in EventType /\ ev'.lost = ev.lost
  BY Parts DEF ScanEnds, DeviceFound, EventType, Adapter
<1>3. PICK x, y : x = s /\ y = s' OBVIOUS
<1>4. /\ Plain(y) /\ SamePlace(x, y) /\ SameTarget(x, y) /\ SameOrder(x, y) /\ SameCommand(x, y)
  BY <1>1, <1>3, Parts, ScanOffIs
<1> QED BY <1>1, <1>2, <1>3, <1>4, EventStep

-----------------------------------------------------------------------------
(* The invariant and what follows from it.                                 *)

SessionAction == (\E c \in Contexts : ProcessObd(c)) \/ Commands

LEMMA SessionActionStep ==
  ASSUME IInv, SessionAction
  PROVE  IInv' /\ Moves(s, s') /\ Asks(s, s') /\ (s.enabled => Saves(s, s')) /\ UNCHANGED radio
<1>1. CASE \E a \in Address : AdoptRecovered(a) BY <1>1, AdoptStep
<1>2. CASE EndForTeardown BY <1>2, TeardownStep DEF SessionStepped, Steps
<1>3. CASE RequestManualPairScan BY <1>3, PairStep DEF SessionStepped, Steps
<1>4. CASE Disable BY <1>4, DisableStep DEF SessionStepped, Steps
<1>5. CASE Enable BY <1>5, EnableStep DEF SessionStepped, Steps
<1>6. CASE ForgetDevice BY <1>6, ForgetStep DEF SessionStepped, Steps
<1>7. CASE \E c \in Contexts : ProcessObd(c) BY <1>7, ProcessStep DEF SessionStepped, Steps
<1> QED BY <1>1, <1>2, <1>3, <1>4, <1>5, <1>6, <1>7 DEF SessionAction, Commands

LEMMA RadioStep == ASSUME IInv, Transport \/ Radio PROVE IInv'
  BY FenceOpensStep, OperationStartsStep, OperationEndsStep, LinkStep, LossQueuedStep,
     RepliedStep, ScanStep
  DEF Transport, Radio

LEMMA StutterStep == ASSUME IInv, UNCHANGED vars PROVE IInv'
<1>1. s' = s /\ link' = link /\ peer' = peer /\ run' = run /\ owes' = owes /\ ev' = ev
  BY DEF vars
<1>2. PICK y : y = s OBVIOUS
<1>3. /\ Plain(y) /\ SamePlace(s, y) /\ SameTarget(s, y) /\ SameOrder(s, y) /\ SameCommand(s, y)
  BY <1>2, Parts DEF SamePlace, SameTarget, SameAim, SameOrder, SameCommand
<1>4. ev' \in EventType /\ ev'.lost = ev.lost BY <1>1, Parts
<1> QED BY <1>1, <1>2, <1>3, <1>4, EventStep

LEMMA InitIInv == Init => IInv
<1> SUFFICES ASSUME Init PROVE IInv
  OBVIOUS
<1>1. PICK en \in BOOLEAN, a \in Adapter : s = InitSession(en, a) BY DEF Init, Adapter
<1>2. link = "down" /\ peer = NoAddress /\ run = None /\ owes = FALSE /\ ev = NoEvents
  BY DEF Init
<1>3. RadioOK BY <1>2 DEF RadioOK, Adapter
<1>4. PICK x, e : x = s /\ e = ev.lost OBVIOUS
<1>5. x = InitSession(en, a) BY <1>1, <1>4
<1>6. Good(x, x.entered, e) BY <1>2, <1>3, <1>5, InitSessionIs
<1> QED BY <1>2, <1>4, <1>6, NoEventsTyped DEF IInv, SessionInv

LEMMA NextIInv == IInv /\ [Next]_vars => IInv'
<1> SUFFICES ASSUME IInv, [Next]_vars PROVE IInv'
  OBVIOUS
<1>1. CASE SessionAction BY <1>1, SessionActionStep
<1>2. CASE Transport \/ Radio BY <1>2, RadioStep
<1>3. CASE UNCHANGED vars BY <1>3, StutterStep
<1> QED BY <1>1, <1>2, <1>3 DEF Next, SessionAction

(* What holds of the session, its transport and the radio after every turn *)
(* of the drive loop, every command and every callback (update,            *)
(* drainBleEventQueue, pumpTransportResults).                              *)
THEOREM Invariant == Spec => []IInv
  BY InitIInv, NextIInv, PTL DEF Spec

LEMMA IInvSafe == IInv => SessionSafe
<1> SUFFICES ASSUME IInv PROVE SessionSafe
  OBVIOUS
<1>1. /\ Plain(s) /\ RadioOK /\ Orders(s) /\ LinksOnce(s, ev.lost)
      /\ Stages(s, s.entered) /\ Targets(s) /\ Peers(s, s.entered)
      /\ CommandsHeld(s, s.entered) /\ ev \in EventType
  BY Parts
<1>2. TypeOK
  <2>1. s \in SessionType BY <1>1, TypedSession DEF Targets
  <2> QED BY <1>1, <2>1 DEF TypeOK, RadioOK, EventType, Adapter
<1>3. PollsTheSavedAdapter
  BY <1>1 DEF PollsTheSavedAdapter, Peers, Targets, Busy, Address0
<1>4. NoOrphanedCommand BY <1>1 DEF NoOrphanedCommand, CommandsHeld
<1>5. NoUnownedLink
  BY <1>1 DEF NoUnownedLink, Stages, Orders, Free
<1> QED BY <1>2, <1>3, <1>4, <1>5 DEF SessionSafe

(* The fields keep their types; what is polled is the saved adapter; a     *)
(* command that waits has its write under way or answered; and no link     *)
(* outlives the session that made it, whichever of failure, cancellation,  *)
(* pairing request, forgetting or phone ended it (updatePolling,           *)
(* startCommand, handleConnectFailure, cancelPendingConnect).              *)
THEOREM SessionSafeAlways == Spec => []SessionSafe
  BY Invariant, IInvSafe, PTL

LEMMA RadioLeaves ==
  ASSUME IInv, Transport \/ Radio
  PROVE  s'.saved = s.saved /\ (s.queued = None => s'.queued = None)
<1>1. PICK x, y : x = s /\ y = s' OBVIOUS
<1>2. x = [ fld \in Fields |-> x[fld] ] BY <1>1, Parts DEF Plain, Rec
<1>3. CASE FenceOpens
  <2>1. y = [ x EXCEPT !.fence = FALSE, !.fresh = TRUE ] BY <1>1, <1>3 DEF FenceOpens
  <2>2. y.saved = x.saved /\ y.queued = x.queued BY <2>1, <1>2 DEF Fields
  <2> QED BY <1>1, <2>2
<1>4. CASE OperationStarts
  <2>1. y = [ x EXCEPT !.queued = None, !.mine = TRUE, !.dest = NoAddress ]
    BY <1>1, <1>4 DEF OperationStarts
  <2>2. y.saved = x.saved /\ y.queued = None BY <2>1, <1>2 DEF Fields
  <2> QED BY <1>1, <2>2
<1>5. CASE \E ok \in BOOLEAN : OperationEnds(ok)
  <2>1. PICK ok \in BOOLEAN : OperationEnds(ok) BY <1>5
  <2>2. CASE ~x.mine
    <3>1. y = x BY <1>1, <2>1, <2>2 DEF OperationEnds
    <3> QED BY <1>1, <3>1
  <2>3. CASE x.mine
    <3>1. PICK r : r = [ op |-> run, ok |-> ok ] OBVIOUS
    <3>2. y = [ ClearRequest(x) EXCEPT !.ready = r ]
      BY <1>1, <2>1, <2>3, <3>1 DEF OperationEnds
    <3>3. y.saved = x.saved /\ y.queued = x.queued
      BY <3>2, <1>2 DEF Fields, ClearRequest
    <3> QED BY <1>1, <3>3
  <2> QED BY <2>2, <2>3
<1>6. CASE Radio
  <2>1. y = x \/ y = [ x EXCEPT !.scan = FALSE ]
    BY <1>1, <1>6
    DEF Radio, LinkMade, LinkLost, LossQueued, ScanEnds, Replied, DeviceFound
  <2>2. y.saved = x.saved /\ y.queued = x.queued BY <2>1, <1>2 DEF Fields
  <2> QED BY <1>1, <2>2
<1> QED BY <1>3, <1>4, <1>5, <1>6 DEF Transport

ConnectsStep ==
    /\ s.queued = None /\ s'.queued = "CONNECT" => s.fresh /\ link = "down"
    /\ s.queued = None /\ s'.queued \in TransportOps \ { "CONNECT" } => ~s.fresh
SavedStep ==
    s.enabled /\ s'.saved # s.saved =>
        s'.saved = NoAddress \/ (s'.st = "POLLING" /\ peer = s'.saved)
PhoneStep ==
    (\E c \in Contexts : c.proxyClient /\ ProcessObd(c)) =>
        /\ s'.st \notin SetupStates \cup { "SCANNING", "POLLING" }
        /\ ~s'.manual /\ ~s'.scan

LEMMA StepsKept == IInv /\ [Next]_vars => [ConnectsStep /\ SavedStep /\ PhoneStep]_vars
<1> SUFFICES ASSUME IInv, Next PROVE ConnectsStep /\ SavedStep /\ PhoneStep
  OBVIOUS
<1>1. PhoneStep BY ProcessStep DEF PhoneStep
<1>2. CASE SessionAction
  <2>1. Asks(s, s') /\ (s.enabled => Saves(s, s')) BY <1>2, SessionActionStep
  <2> QED BY <1>1, <2>1 DEF ConnectsStep, SavedStep, Asks, Saves
<1>3. CASE Transport \/ Radio
  <2>1. s'.saved = s.saved /\ (s.queued = None => s'.queued = None)
    BY <1>3, RadioLeaves
  <2> QED BY <1>1, <2>1 DEF ConnectsStep, SavedStep, TransportOps, None
<1> QED BY <1>2, <1>3 DEF Next, SessionAction

(* The session asks for a connection only on a fence that has just opened, *)
(* saves only an adapter it polls, and leaves the radio to a phone in the  *)
(* turn that sees it (beginTransportRequest, commitManualScanCandidate,    *)
(* reconcileProxyOwnership).                                               *)
THEOREM SessionStepsAlways == Spec => SessionSteps
<1>1. IInv /\ [Next]_vars => /\ [ConnectsStep]_vars /\ [SavedStep]_vars /\ [PhoneStep]_vars
  BY StepsKept
<1> QED
  BY <1>1, Invariant, PTL
  DEF Spec, SessionSteps, ConnectsOnFreshFence, SavedOnlyQualified, PhoneOwnsTheRadio,
      ConnectsStep, SavedStep, PhoneStep

-----------------------------------------------------------------------------
(* The fence.                                                              *)

LEMMA FenceStutters ==
  ASSUME s'.fence = s.fence, s'.queued # None <=> s.queued # None,
         run' # None <=> run # None, link' # "down" <=> link # "down"
  PROVE  UNCHANGED Fence!vars
  BY Zenon DEF Fence!vars

LEMMA FenceSubmit ==
  ASSUME ~s.fence, ~s'.fence, s.queued = None, s'.queued # None, run' = run, link' = link,
         s'.fence = s.fence
  PROVE  Fence!Submit
  BY Zenon DEF Fence!Submit

LEMMA FenceStart ==
  ASSUME ~s.fence, s'.fence = s.fence, s.queued # None, s'.queued = None, run = None,
         run' # None, link' = link \/ link' # "down"
  PROVE  Fence!Start
<1>1. (link' # "down") \in { link # "down", TRUE }
  <2>1. CASE link' = link BY <2>1
  <2>2. CASE link' # "down" BY <2>2
  <2> QED BY <2>1, <2>2
<1> QED BY <1>1, Zenon DEF Fence!Start

LEMMA FenceLinkDown ==
  ASSUME s'.fence = s.fence, s'.queued # None <=> s.queued # None,
         run' # None <=> run # None, link' = "down"
  PROVE  Fence!LinkDown
  BY Zenon DEF Fence!LinkDown

LEMMA FenceFinish ==
  ASSUME s'.fence = s.fence, s'.queued # None <=> s.queued # None,
         run # None, run' = None, link' = link \/ link' = "down"
  PROVE  Fence!Finish
<1>1. (link' # "down") \in { link # "down", FALSE }
  <2>1. CASE link' = link BY <2>1
  <2>2. CASE link' = "down" BY <2>2
  <2> QED BY <2>1, <2>2
<1> QED BY <1>1, Zenon DEF Fence!Finish

LEMMA FenceClose ==
  ASSUME ~s.fence, s'.fence, s'.queued = None, run' = run, link' = link
  PROVE  Fence!Close
  BY Zenon DEF Fence!Close

LEMMA FenceReopen ==
  ASSUME s.fence, ~s'.fence, run = None, run' = run, link = "down", link' = link,
         s'.queued # None <=> s.queued # None
  PROVE  Fence!Reopen
  BY Zenon DEF Fence!Reopen

\* What the steps of the transport and of the radio do to the fence.
LEMMA RadioImplements ==
  ASSUME IInv, Transport \/ Radio
  PROVE  Fence!Next \/ UNCHANGED Fence!vars
<1>1. PICK x, y : x = s /\ y = s' OBVIOUS
<1>2. Plain(x) /\ Orders(x) BY <1>1, Parts
<1>3. x = [ fld \in Fields |-> x[fld] ] BY <1>2 DEF Plain, Rec
<1>4. CASE FenceOpens
  <2>1. y = [ x EXCEPT !.fence = FALSE, !.fresh = TRUE ]
    BY <1>1, <1>4 DEF FenceOpens
  <2>2. ~y.fence /\ y.queued = x.queued BY <2>1, <1>3 DEF Fields
  <2>3. x.fence /\ run = None /\ link = "down" /\ run' = run /\ link' = link
    BY <1>1, <1>4 DEF FenceOpens
  <2> QED BY <1>1, <2>2, <2>3, FenceReopen DEF Fence!Next
<1>5. CASE OperationStarts
  <2>1. y = [ x EXCEPT !.queued = None, !.mine = TRUE, !.dest = NoAddress ]
    BY <1>1, <1>5 DEF OperationStarts
  <2>2. y.fence = x.fence /\ y.queued = None BY <2>1, <1>3 DEF Fields
  <2>3. x.queued # None /\ run = None /\ run' = x.queued /\ (link' = link \/ link' # "down")
    BY <1>1, <1>5 DEF OperationStarts
  <2>4. ~x.fence BY <1>2, <2>3 DEF Orders
  <2> QED BY <1>1, <2>2, <2>3, <2>4, FenceStart DEF Fence!Next
<1>6. CASE \E ok \in BOOLEAN : OperationEnds(ok)
  <2>1. PICK ok \in BOOLEAN : OperationEnds(ok) BY <1>6
  <2>2. y.fence = x.fence /\ y.queued = x.queued
    <3>1. CASE ~x.mine BY <1>1, <2>1, <3>1 DEF OperationEnds
    <3>2. CASE x.mine
      <4>1. PICK r : r = [ op |-> run, ok |-> ok ] OBVIOUS
      <4>2. y = [ ClearRequest(x) EXCEPT !.ready = r ]
        BY <1>1, <2>1, <3>2, <4>1 DEF OperationEnds
      <4> QED BY <4>2, <1>3 DEF Fields, ClearRequest
    <3> QED BY <3>1, <3>2
  <2>3. run # None /\ run' = None /\ (link' = link \/ link' = "down")
    BY <2>1 DEF OperationEnds
  <2> QED BY <1>1, <2>2, <2>3, FenceFinish DEF Fence!Next
<1>7. CASE Radio
  <2>1. y = x \/ y = [ x EXCEPT !.scan = FALSE ]
    BY <1>1, <1>7
    DEF Radio, LinkMade, LinkLost, LossQueued, ScanEnds, Replied, DeviceFound
  <2>2. y.fence = x.fence /\ y.queued = x.queued BY <2>1, <1>3 DEF Fields
  <2>3. run' = run /\ (link' = "down" \/ (link' # "down" <=> link # "down"))
    BY <1>7
    DEF Radio, LinkMade, LinkLost, LossQueued, ScanEnds, Replied, DeviceFound, radio
  <2> QED BY <1>1, <2>2, <2>3, FenceLinkDown, FenceStutters DEF Fence!Next
<1> QED BY <1>4, <1>5, <1>6, <1>7 DEF Transport

\* What the steps of the session do to it.
LEMMA SessionImplements ==
  ASSUME IInv, SessionAction
  PROVE  Fence!Next \/ UNCHANGED Fence!vars
<1>1. IInv' /\ Moves(s, s') /\ run' = run /\ link' = link
  BY SessionActionStep DEF radio
<1>2. CASE s'.fence = s.fence /\ (s'.queued # None <=> s.queued # None)
  BY <1>1, <1>2, FenceStutters
<1>3. CASE ~s.fence /\ s'.fence /\ s'.queued = None
  BY <1>1, <1>3, FenceClose DEF Fence!Next
<1>4. CASE ~s.fence /\ ~s'.fence /\ s.queued = None /\ s'.queued # None
  <2>1. s.fence \in BOOLEAN /\ (s.fence)' \in BOOLEAN
    BY <1>1, Parts DEF IInv, SessionInv, Good, Plain
  <2>2. s'.fence = s.fence BY <1>4, <2>1
  <2> QED BY <1>1, <1>4, <2>2, FenceSubmit DEF Fence!Next
<1> QED BY <1>1, <1>2, <1>3, <1>4 DEF Moves

LEMMA NextImplements == IInv /\ [Next]_vars => [Fence!Next]_Fence!vars
<1> SUFFICES ASSUME IInv, [Next]_vars PROVE Fence!Next \/ UNCHANGED Fence!vars
  OBVIOUS
<1>1. CASE SessionAction BY <1>1, SessionImplements
<1>2. CASE Transport \/ Radio BY <1>2, RadioImplements
<1>3. CASE UNCHANGED vars
  BY <1>3, FenceStutters DEF vars
<1> QED BY <1>1, <1>2, <1>3 DEF Next, SessionAction

LEMMA InitImplements == Init => Fence!Init
<1> SUFFICES ASSUME Init PROVE Fence!Init
  OBVIOUS
<1>1. (~s.fence) = TRUE /\ (s.queued # None) = FALSE /\ (run # None) = FALSE
      /\ (link # "down") = FALSE
  BY DEF Init, InitSession
<1> QED BY <1>1, Zenon DEF Fence!Init

(* The session uses the transport as the fence that ObdTransport is shown  *)
(* to implement: it submits one operation at a time, only while the fence  *)
(* is open, and closing it withdraws what has not started                  *)
(* (transportDisconnectPending_, disconnectBle).                           *)
THEOREM ImplementsFenceAlways == Spec => ImplementsFence
  BY Invariant, InitImplements, NextImplements, PTL DEF Spec, ImplementsFence, Fence!Spec
===============================================================================
