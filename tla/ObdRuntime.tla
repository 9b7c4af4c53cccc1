----------------------------- MODULE ObdRuntime -----------------------------
(***************************************************************************)
(* The OBD session: the state machine the drive loop updates, the pairing  *)
(* gesture, the cancellations of the connection cycle, and the radio       *)
(* events it drains.  The transport appears as the fence it implements     *)
(* (ObdTransport refines the same ObdFence): one operation waits or runs,  *)
(* a disconnect closes the fence, and it opens on a quiet link.            *)
(*                                                                         *)
(* A timer is an input: the update finds it expired or not.  Speed values, *)
(* RSSI and response bytes are left out; a response is good or bad.        *)
(***************************************************************************)
EXTENDS Naturals

CONSTANTS
    Address,        \* adapters in range
    NoAddress,
    Contexts,       \* what an update may find, see ContextType
    InitLength,     \* init commands, by warm and cold
    Retries,        \* AT_INIT_RETRIES and POLL_COMMAND_RETRIES
    MaxFailures,    \* MAX_DIRECT_CONNECT_FAILURES
    MaxErrors,      \* MAX_CONSECUTIVE_ERRORS
    CutErrors,      \* ERRORS_BEFORE_DISCONNECT
    IdleBackoffs    \* ECU_IDLE_BACKOFF_THRESHOLD

ASSUME RuntimeAssumption ==
    /\ NoAddress \notin Address
    /\ InitLength \in [ BOOLEAN -> Nat ]
    /\ Retries \in Nat /\ MaxFailures \in Nat \ {0} /\ MaxErrors \in Nat \ {0}
    /\ CutErrors \in Nat \ {0} /\ IdleBackoffs \in Nat \ {0}

States == { "IDLE", "WAIT_BOOT", "SCANNING", "CONNECTING", "DISCOVERING",
            "AT_INIT", "POLLING", "ERROR_BACKOFF", "DISCONNECTED", "ECU_IDLE" }
TransportOps == { "CONNECT", "DISCOVER", "SUBSCRIBE", "WRITE", "RSSI_READ" }
None == "NONE"
NoResult == [ op |-> None, ok |-> FALSE ]
NoCommand == [ on |-> FALSE, pending |-> FALSE, retries |-> 0, alt |-> FALSE ]
Responses == { "good", "bad", "partial", "overflow" }

VARIABLES
    s,      \* the session's fields, see SessionType
    link,   \* the physical link: down, connecting or up
    peer,   \* the adapter the link is made to
    run,    \* the operation the transport runs
    owes,   \* the link is lost and its callback has not queued the event yet
    ev      \* bleEventQueue_: what the next drain will find

vars == << s, link, peer, run, owes, ev >>
radio == << link, peer, run, owes >>

SessionType ==
    [ enabled : BOOLEAN, st : States,
      entered  : BOOLEAN,              \* stateEntryPending_
      saved    : Address \cup { NoAddress },
      target   : Address \cup { NoAddress },  \* connectAddress_
      fromCand : BOOLEAN,              \* connectTargetFromManualCandidate_
      cand     : Address \cup { NoAddress },  \* manualCandidate..., when valid
      manual   : BOOLEAN, preempt : BOOLEAN, scanReq : BOOLEAN,
      found    : Address \cup { NoAddress },  \* pendingAddress_, when found
      scan     : BOOLEAN,              \* the radio scans for the session
      attempts : 0..MaxFailures, healed : Address \cup { NoAddress },
      lost     : BOOLEAN,              \* bleDisconnected_
      wasWarm  : BOOLEAN,              \* preferWarmReconnect_
      warm     : BOOLEAN,              \* warmInitPreferred_
      coldUsed : BOOLEAN, step : Nat,  \* initIndex_
      cmd      : [ on : BOOLEAN, pending : BOOLEAN, retries : 0..Retries,
                   alt : BOOLEAN ],
      data     : Responses \cup { None },
      errs     : 0..CutErrors, cuts : BOOLEAN, backoffs : 0..IdleBackoffs,
      v1AtIdle : BOOLEAN,
      op       : TransportOps \cup { None },    \* pendingTransportOp_
      mine     : BOOLEAN,              \* the running operation is pendingTransportOp_
      queued   : TransportOps \cup { None },    \* submitted and not started
      dest     : Address \cup { NoAddress },  \* address of the queued request
      ready    : [ op : TransportOps \cup { None }, ok : BOOLEAN ],
      fence    : BOOLEAN,              \* transportDisconnectPending_
      fresh    : BOOLEAN ]             \* nothing submitted since the fence opened

ContextType ==
    [ bootReady : BOOLEAN, v1 : BOOLEAN, scanIdle : BOOLEAN, v1Connecting : BOOLEAN,
      proxyAdv : BOOLEAN, proxyClient : BOOLEAN, scanAllowed : BOOLEAN,
      connectAllowed : BOOLEAN, retryAllowed : BOOLEAN,
      due : BOOLEAN,       \* the timer this state waits for has expired
      rssiDue : BOOLEAN ]

\* An update's context is one of these; a configuration may offer fewer.
ASSUME ContextsAssumption == Contexts \subseteq ContextType

NoEvents == [ lost |-> FALSE, found |-> NoAddress, data |-> None ]

IsConnected == link = "up"
-----------------------------------------------------------------------------
(* Helpers: each maps the session's fields to their next value.            *)

Quieted(x) == [ x EXCEPT !.data = None, !.cmd = NoCommand ]
ClearRequest(x) == [ x EXCEPT !.op = None, !.mine = FALSE ]
DropTransport(x) == [ ClearRequest(x) EXCEPT !.ready = NoResult ]

LeavesQueued(x) == [ DropTransport(x) EXCEPT !.fence = TRUE ]
Disconnect(x) == [ DropTransport(x) EXCEPT !.fence = TRUE, !.queued = None,
                                          !.dest = NoAddress ]

ClearManual(x) ==
    [ x EXCEPT !.manual = FALSE, !.preempt = FALSE, !.cand = NoAddress,
               !.target = NoAddress, !.fromCand = FALSE ]

Commits(x) == x.manual /\ x.cand # NoAddress
Commit(x) ==
    IF Commits(x)
    THEN ClearManual([ x EXCEPT !.saved = x.cand,
                                !.wasWarm = x.wasWarm /\ x.saved = x.cand ])
    ELSE x

To(st, x) ==
    [ (IF st = "POLLING" THEN Commit(x) ELSE x) EXCEPT !.st = st, !.entered = TRUE ]

Address0(x) == IF x.target # NoAddress THEN x.target ELSE x.saved
Saved(x) == [ x EXCEPT !.target = x.saved, !.fromCand = FALSE ]
SavesCandidate(x) == [ x EXCEPT !.target = x.cand, !.fromCand = TRUE, !.saved = x.cand ]
Candidate(x) == [ x EXCEPT !.target = x.cand, !.fromCand = TRUE ]

CanBegin(x) == x.op = None /\ ~x.fence
Begin(op, x) ==
    [ x EXCEPT !.op = op, !.queued = op, !.mine = FALSE, !.ready = NoResult,
               !.dest = IF op = "CONNECT" THEN Address0(x) ELSE NoAddress,
               !.fresh = FALSE ]
Take(x) == [ x EXCEPT !.ready = NoResult ]

\* autoHealBondIfAllowed: one bond repair per adapter, through a disconnect.
CanHeal(x) == Address0(x) # NoAddress /\ x.healed # Address0(x)
Heal(x) ==
    To("DISCONNECTED",
       [ Quieted(Disconnect(x)) EXCEPT !.lost = FALSE, !.wasWarm = FALSE,
                                       !.warm = FALSE, !.healed = Address0(x) ])

HealingReasons == { "DISCOVERY", "SUBSCRIBE", "WRITE", "INIT_TIMEOUT" }

ConnectFailure(reason, x) ==
    LET y == [ Quieted(x) EXCEPT !.lost = FALSE, !.attempts = x.attempts + 1 ]
    IN  CASE x.manual /\ reason \in HealingReasons /\ CanHeal(y) -> Heal(y)
          [] x.manual /\ ~(reason \in HealingReasons /\ CanHeal(y)) ->
                To("IDLE", ClearManual([ y EXCEPT !.attempts = 0 ]))
          [] ~x.manual /\ y.attempts >= MaxFailures ->
                To("IDLE", [ y EXCEPT !.attempts = 0 ])
          [] OTHER -> To("DISCONNECTED", y)

PollError(cuts, x) ==
    LET errs == IF x.errs < CutErrors THEN x.errs + 1 ELSE CutErrors
        y == [ Quieted(x) EXCEPT !.cuts = cuts, !.errs = errs ]
    IN  CASE cuts /\ errs >= CutErrors -> To("DISCONNECTED", y)
          [] ~(cuts /\ errs >= CutErrors) /\ errs >= MaxErrors ->
                To("ERROR_BACKOFF", y)
          [] OTHER -> y

StaysWarm(warm, x) ==
    [ Quieted(x) EXCEPT !.step = 0, !.warm = warm \/ x.warm, !.coldUsed = FALSE ]
ResetInit(warm, x) ==
    [ Quieted(x) EXCEPT !.step = 0, !.warm = warm, !.coldUsed = FALSE ]

\* A write of the active command; writeResultPending holds until its result.
Write(x) == Begin("WRITE", [ x EXCEPT !.data = None, !.cmd.pending = TRUE ])
StartCommand(x) == Write([ x EXCEPT !.cmd = [ NoCommand EXCEPT !.on = TRUE,
                                                             !.retries = Retries ] ])
RetryCommand(x) == Write([ x EXCEPT !.cmd.retries = x.cmd.retries - 1 ])
RetryAlternate(x) ==
    Write([ x EXCEPT !.cmd.retries = x.cmd.retries - 1, !.cmd.alt = TRUE ])
CanRetry(x) == x.cmd.retries > 0 /\ CanBegin(x)
CanAlternate(x) == CanRetry(x) /\ x.data = None /\ ~x.cmd.alt
-----------------------------------------------------------------------------
(* update(): one operator per state, from the session and the context to   *)
(* the session.                                                            *)

MayScan(x, c) ==
    x.scanReq /\ (x.manual \/ c.scanAllowed) /\ c.scanIdle /\ ~c.v1Connecting /\ ~x.scan
StartScan(x) == To("SCANNING", [ x EXCEPT !.scanReq = FALSE, !.scan = TRUE ])

InIdle(x, c) ==
    CASE IsConnected -> Disconnect(x)
      [] ~IsConnected /\ ~(x.preempt /\ (c.proxyAdv \/ c.proxyClient))
         /\ MayScan(x, c) -> StartScan(x)
      [] OTHER -> x

InWaitBoot(x, c) ==
    IF c.bootReady /\ c.connectAllowed THEN To("CONNECTING", Saved(x)) ELSE x

InScanning(x, c) ==
    LET y == [ x EXCEPT !.found = NoAddress, !.attempts = 0, !.wasWarm = FALSE ]
    IN  CASE x.found # NoAddress /\ x.manual ->
                To("CONNECTING",
                   Candidate([ y EXCEPT !.cand = x.found, !.preempt = FALSE ]))
          [] x.found # NoAddress /\ ~x.manual ->
                To("CONNECTING", Saved([ y EXCEPT !.saved = x.found ]))
          [] x.found = NoAddress /\ c.due ->
                To("IDLE", IF x.manual THEN ClearManual(x) ELSE x)
          [] OTHER -> x

InConnecting(x, c, just) ==
    LET answered == x.ready.op = "CONNECT"
        y == IF answered THEN Take(x) ELSE x
        z == IF just THEN Begin("CONNECT", y) ELSE y
    IN  CASE x.lost -> ConnectFailure("CONNECT_START", x)
          [] ~x.lost /\ answered /\ ~x.ready.ok -> ConnectFailure("CONNECT_START", y)
          [] ~x.lost /\ (answered => x.ready.ok) /\ just /\ ~CanBegin(y) ->
                ConnectFailure("CONNECT_START", y)
          [] ~x.lost /\ (answered => x.ready.ok) /\ (just => CanBegin(y)) ->
                CASE IsConnected ->
                        To("DISCOVERING",
                           [ (IF z.op = "CONNECT" \/ z.ready.op = "CONNECT"
                              THEN DropTransport(z) ELSE z) EXCEPT !.attempts = 0 ])
                  [] ~IsConnected /\ c.due ->
                        ConnectFailure("CONNECT_TIMEOUT", Disconnect(z))
                  [] OTHER -> z

\* The link was lost while the session was being set up.
SetupLost(x) ==
    LET y == [ x EXCEPT !.lost = FALSE ]
    IN  CASE CanHeal(y) -> Heal(y)
          [] ~CanHeal(y) /\ y.manual -> To("IDLE", ClearManual(y))
          [] OTHER -> To("DISCONNECTED", y)

FailsOpen(reason, x) == ConnectFailure(reason, x)
Fails(reason, x) == ConnectFailure(reason, Disconnect(x))

InDiscovering(x, c) ==
    LET y == Take(x)
    IN  CASE x.lost -> SetupLost(x)
          [] ~x.lost /\ ~c.due -> x
          [] ~x.lost /\ c.due /\ x.ready.op = "DISCOVER" ->
                IF x.ready.ok /\ CanBegin(y) THEN Begin("SUBSCRIBE", y)
                ELSE Fails(IF x.ready.ok THEN "SUBSCRIBE" ELSE "DISCOVERY", y)
          [] ~x.lost /\ c.due /\ x.ready.op = "SUBSCRIBE" ->
                IF x.ready.ok
                THEN To("AT_INIT", [ ResetInit(y.wasWarm, y) EXCEPT !.wasWarm = TRUE ])
                ELSE Fails("SUBSCRIBE", y)
          [] ~x.lost /\ c.due /\ x.ready = NoResult /\ x.op = None ->
                IF CanBegin(x) THEN Begin("DISCOVER", x) ELSE Fails("DISCOVERY", x)
          [] OTHER -> x

\* An init command has run out of replies: retry, restart cold, or give up.
Exhausted(reason, x) ==
    CASE CanRetry(x) -> RetryCommand(x)
      [] ~CanRetry(x) /\ x.warm /\ ~x.coldUsed -> ResetInit(FALSE, x)
      [] OTHER -> Fails(reason, x)

WriteFails(x) ==
    IF x.step = 0 /\ CanHeal(x) THEN Heal(x) ELSE Fails("WRITE", x)

InAtInit(x, c) ==
    CASE x.lost -> SetupLost(x)
      [] ~x.lost /\ x.cmd.pending ->
            CASE x.ready.op # "WRITE" -> x
              [] x.ready.op = "WRITE" /\ x.ready.ok ->
                    [ Take(x) EXCEPT !.cmd.pending = FALSE ]
              [] OTHER -> WriteFails(Take(x))
      [] ~x.lost /\ x.cmd.on /\ ~x.cmd.pending ->
            CASE x.data = "good" -> [ Quieted(x) EXCEPT !.step = x.step + 1 ]
              [] x.data \in { "bad", "overflow" } ->
                    Exhausted("INIT_RESPONSE", [ x EXCEPT !.data = None ])
              [] x.data \in { None, "partial" } /\ c.due ->
                    IF CanAlternate(x) THEN RetryAlternate(x)
                                       ELSE Exhausted("INIT_TIMEOUT", x)
              [] OTHER -> x
      [] ~x.lost /\ ~x.cmd.on /\ ~x.cmd.pending /\ c.due ->
            CASE x.step >= InitLength[x.warm] ->
                    To("POLLING", [ x EXCEPT !.errs = 0, !.data = None ])
              [] x.step < InitLength[x.warm] /\ CanBegin(x) -> StartCommand(x)
              [] OTHER -> WriteFails(x)
      [] OTHER -> x

\* The part of a polling update that starts new work: the next speed request
\* when the transport is free, then the RSSI read.
NextPoll(x, c) ==
    LET y == IF ~x.cmd.on /\ c.due /\ CanBegin(x) /\ x.ready = NoResult
             THEN StartCommand(x) ELSE x
    IN  CASE y.ready.op = "RSSI_READ" -> Take(y)
          [] y.ready = NoResult /\ CanBegin(y) /\ ~y.cmd.pending /\ c.rssiDue ->
                Begin("RSSI_READ", y)
          [] OTHER -> y

Reply(x) ==
    IF x.data = "good" THEN [ Quieted(x) EXCEPT !.errs = 0, !.backoffs = 0 ]
                       ELSE PollError(x.data = "overflow", x)

InPolling(x, c) ==
    CASE x.lost -> To("DISCONNECTED", [ Quieted(x) EXCEPT !.lost = FALSE ])
      [] ~x.lost /\ x.cmd.pending ->
            CASE x.ready.op # "WRITE" -> x
              [] x.ready.op = "WRITE" /\ x.ready.ok ->
                    [ Take(x) EXCEPT !.cmd.pending = FALSE ]
              [] OTHER -> PollError(TRUE, Take(x))
      [] ~x.lost /\ x.cmd.on /\ ~x.cmd.pending
         /\ x.data \in { "good", "bad", "overflow" } ->
            LET y == Reply(x)
            IN  IF y.st = "POLLING" THEN NextPoll(y, c) ELSE y
      [] ~x.lost /\ x.cmd.on /\ ~x.cmd.pending /\ x.data \in { None, "partial" }
         /\ c.due ->
            IF CanAlternate(x) THEN RetryAlternate(x) ELSE PollError(FALSE, x)
      [] OTHER -> NextPoll(x, c)

InErrorBackoff(x, c) ==
    LET n == IF x.backoffs < IdleBackoffs THEN x.backoffs + 1 ELSE IdleBackoffs
        y == [ x EXCEPT !.backoffs = n, !.errs = IF x.cuts THEN x.errs ELSE 0 ]
    IN  CASE ~c.due -> x
          [] c.due /\ x.cuts /\ x.errs >= CutErrors ->
                To("DISCONNECTED", Disconnect(x))
          [] c.due /\ ~(x.cuts /\ x.errs >= CutErrors) /\ n >= IdleBackoffs ->
                To("ECU_IDLE", Disconnect([ y EXCEPT !.v1AtIdle = c.v1 ]))
          [] OTHER -> To("POLLING", y)

\* Recovery of a pairing attempt belongs to its candidate.
RetryTarget(x) ==
    IF x.fromCand /\ x.cand # NoAddress THEN Candidate(x)
    ELSE IF x.saved # NoAddress THEN Saved(x) ELSE x

EnterDisconnected(x) == Disconnect(Quieted(x))

InDisconnected(x, c, just) ==
    LET y == CASE just -> EnterDisconnected(x)
               [] ~just /\ IsConnected -> Disconnect(x)
               [] OTHER -> x
    IN  CASE IsConnected -> y
          [] ~IsConnected /\ MayScan(y, c) -> StartScan(y)
          [] ~IsConnected /\ (c.retryAllowed \/ y.fromCand) /\ ~MayScan(y, c) ->
                To(IF RetryTarget(y).target # NoAddress THEN "CONNECTING" ELSE "IDLE",
                   RetryTarget(y))
          [] OTHER -> y

InEcuIdle(x, c, just) ==
    LET y == IF just THEN Quieted(x) ELSE x
    IN  CASE ~y.v1AtIdle /\ c.v1 -> To("WAIT_BOOT", [ y EXCEPT !.backoffs = 0 ])
          [] (y.v1AtIdle \/ ~c.v1) /\ c.retryAllowed /\ y.saved # NoAddress ->
                To("CONNECTING", [ Saved(y) EXCEPT !.wasWarm = TRUE ])
          [] OTHER -> y

InState(x, c, just) ==
    CASE x.st = "IDLE"          -> InIdle(x, c)
      [] x.st = "WAIT_BOOT"     -> InWaitBoot(x, c)
      [] x.st = "SCANNING"      -> InScanning(x, c)
      [] x.st = "CONNECTING"    -> InConnecting(x, c, just)
      [] x.st = "DISCOVERING"   -> InDiscovering(x, c)
      [] x.st = "AT_INIT"       -> InAtInit(x, c)
      [] x.st = "POLLING"       -> InPolling(x, c)
      [] x.st = "ERROR_BACKOFF" -> InErrorBackoff(x, c)
      [] x.st = "DISCONNECTED"  -> InDisconnected(x, c, just)
      [] x.st = "ECU_IDLE"      -> InEcuIdle(x, c, just)
-----------------------------------------------------------------------------
(* The operations of the session.                                          *)

\* drainBleEventQueue
Drained(x) ==
    [ x EXCEPT !.found = IF x.st = "SCANNING" /\ ev.found # NoAddress
                         THEN ev.found ELSE x.found,
               !.lost = x.lost \/ ev.lost,
               !.data = IF x.st \in { "AT_INIT", "POLLING" } /\ ev.data # None
                        THEN ev.data ELSE x.data ]

ScanEnded(x) ==
    LET y == [ x EXCEPT !.scan = FALSE, !.scanReq = FALSE, !.found = NoAddress ]
    IN  IF y.manual THEN ClearManual(y) ELSE y

CutSession(x) == [ Quieted(Disconnect(x)) EXCEPT !.lost = FALSE ]

\* reconcileProxyOwnership, with a phone connected
Reconciled(x) ==
    LET y == ScanEnded(x)
    IN  IF IsConnected \/ y.st # "IDLE" THEN To("IDLE", CutSession(y)) ELSE y

Updated(x, c) ==
    IF ~x.enabled
    THEN IF ~x.fence /\ x.st \in { "IDLE", "DISCONNECTED" } /\ IsConnected
         THEN Disconnect(x) ELSE x
    ELSE LET y == Drained(x)
         IN  CASE y.fence -> y
               [] ~y.fence /\ c.proxyClient -> Reconciled([ y EXCEPT !.entered = FALSE ])
               [] OTHER -> InState([ y EXCEPT !.entered = FALSE ], c, y.entered)

StoppedScan(x) ==
    LET y == ScanEnded(x)
    IN  IF y.st = "SCANNING"
        THEN To("IDLE", [ DropTransport(y) EXCEPT !.lost = FALSE ]) ELSE y

SetupOps == { "CONNECT", "DISCOVER", "SUBSCRIBE" }
SetupStates == { "CONNECTING", "DISCOVERING", "AT_INIT" }
SettingUp(x) == x.st \in SetupStates \/ x.op \in SetupOps

CancelActs(x) == SettingUp(x) \/ IsConnected
Cancelled(x) ==
    LET y == CutSession(x)
        z == IF y.manual THEN ClearManual(y) ELSE y
    IN  IF CancelActs(x)
        THEN To(IF z.enabled /\ z.saved # NoAddress THEN "DISCONNECTED" ELSE "IDLE", z)
        ELSE x

IsScanStopped(x) == x.st # "SCANNING" /\ ~x.scanReq /\ x.found = NoAddress
IsConnectIdle(x) == ~SettingUp(x) /\ ~x.fence /\ ~IsConnected

\* The connection cycle and the loop end the session's radio work in one go.
Ended(x) == Cancelled(StoppedScan(x))
EndCutsLink(x) == CancelActs(StoppedScan(x))

EndForTeardown ==
    /\ s' = Ended(s)
    /\ ev' = IF EndCutsLink(s) THEN NoEvents ELSE ev
    /\ UNCHANGED radio

\* One turn of the drive loop.  A phone ends the session's radio work before
\* the update, which then finds the fence closed and the event queue empty.
ProcessObd(c) ==
    /\ CASE c.proxyClient /\ EndCutsLink(s) ->
                s' = Ended(s) /\ ev' = NoEvents
         [] c.proxyClient /\ ~EndCutsLink(s) ->
                /\ s' = Updated(Ended(s), c)
                /\ ev' = IF s.enabled THEN NoEvents ELSE ev
         [] OTHER ->
                /\ s' = Updated(s, c)
                /\ ev' = IF s.enabled THEN NoEvents ELSE ev
    /\ UNCHANGED radio

RequestManualPairScan ==
    /\ s.enabled /\ ~IsConnected /\ ~s.manual /\ ~s.scanReq /\ s.st # "SCANNING"
    /\ s' = [ ClearManual(CutSession(s)) EXCEPT
                 !.scan = FALSE, !.found = NoAddress, !.attempts = 0,
                 !.manual = TRUE, !.preempt = TRUE, !.scanReq = TRUE,
                 !.st = "IDLE", !.entered = FALSE ]
    /\ ev' = NoEvents
    /\ UNCHANGED radio

Disable ==
    /\ s.enabled
    /\ s' = [ ClearManual(CutSession(s)) EXCEPT
                 !.enabled = FALSE, !.scan = FALSE, !.scanReq = FALSE,
                 !.found = NoAddress, !.st = "IDLE", !.entered = FALSE ]
    /\ ev' = NoEvents
    /\ UNCHANGED radio

Enable ==
    /\ ~s.enabled
    /\ s' = [ ClearManual(Quieted(s)) EXCEPT
                 !.enabled = TRUE, !.attempts = 0, !.lost = FALSE, !.entered = FALSE,
                 !.st = IF s.saved # NoAddress THEN "WAIT_BOOT" ELSE "IDLE" ]
    /\ ev' = NoEvents
    /\ UNCHANGED radio

ForgetDevice ==
    /\ s' = [ ClearManual(CutSession(s)) EXCEPT
                 !.saved = NoAddress, !.scan = FALSE, !.scanReq = FALSE,
                 !.found = NoAddress, !.attempts = 0, !.healed = NoAddress,
                 !.st = "IDLE", !.entered = FALSE ]
    /\ ev' = NoEvents
    /\ UNCHANGED radio
\* begin() with a saved adapter or without one.
InitSession(enabled, saved) ==
    [ enabled |-> enabled, entered |-> FALSE, saved |-> saved,
      st |-> IF enabled /\ saved # NoAddress THEN "WAIT_BOOT" ELSE "IDLE",
      target |-> NoAddress, fromCand |-> FALSE, cand |-> NoAddress,
      manual |-> FALSE, preempt |-> FALSE, scanReq |-> FALSE,
      found |-> NoAddress, scan |-> FALSE, attempts |-> 0, healed |-> NoAddress,
      lost |-> FALSE, wasWarm |-> FALSE, warm |-> FALSE, coldUsed |-> FALSE,
      step |-> 0, cmd |-> NoCommand, data |-> None, errs |-> 0, cuts |-> FALSE,
      backoffs |-> 0, v1AtIdle |-> FALSE, op |-> None, mine |-> FALSE,
      queued |-> None, dest |-> NoAddress, ready |-> NoResult, fence |-> FALSE,
      fresh |-> TRUE ]

\* syncRecoveredSettings: a runtime that began with provisional defaults, OBD
\* disabled, begins again with the recovered adapter.
AdoptRecovered(a) ==
    /\ s = InitSession(FALSE, NoAddress)
    /\ s' = InitSession(TRUE, a)
    /\ UNCHANGED << radio, ev >>
-----------------------------------------------------------------------------
(* The transport behind the fence, the radio and the adapters.             *)

\* pumpTransportResults finds the acknowledgement of a disconnect.
FenceOpens ==
    /\ s.fence /\ run = None /\ link = "down" /\ ~owes
    /\ s' = [ s EXCEPT !.fence = FALSE, !.fresh = TRUE ]
    /\ peer' = NoAddress
    /\ UNCHANGED << link, run, owes, ev >>

OperationStarts ==
    /\ s.queued # None /\ run = None
    /\ run' = s.queued
    /\ s' = [ s EXCEPT !.queued = None, !.mine = TRUE, !.dest = NoAddress ]
    /\ IF s.queued = "CONNECT" /\ link = "down"
       THEN link' = "connecting" /\ peer' = s.dest
       ELSE UNCHANGED << link, peer >>
    /\ UNCHANGED << owes, ev >>

LinkMade ==
    /\ link = "connecting"
    /\ link' = "up"
    /\ UNCHANGED << s, peer, run, owes, ev >>

OperationEnds(ok) ==
    /\ run # None
    /\ run = "CONNECT" => (ok <=> IsConnected)
    /\ run' = None
    /\ s' = IF s.mine
            THEN [ ClearRequest(s) EXCEPT !.ready = [ op |-> run, ok |-> ok ] ]
            ELSE s
    /\ link' = IF link = "connecting" THEN "down" ELSE link
    /\ owes' \in IF link = "connecting" THEN BOOLEAN ELSE { owes }
    /\ UNCHANGED << peer, ev >>

\* The peer goes away, or the terminate request of a closed fence is done.
LinkLost ==
    /\ IsConnected /\ ~owes
    /\ link' = "down" /\ owes' = TRUE
    /\ UNCHANGED << s, peer, run, ev >>

LossQueued ==
    /\ owes
    /\ owes' = FALSE /\ ev' = [ ev EXCEPT !.lost = TRUE ]
    /\ UNCHANGED << s, link, peer, run >>

Replied(d) ==
    /\ IsConnected /\ s.cmd.on /\ ev.data = None
    /\ ev' = [ ev EXCEPT !.data = d ]
    /\ UNCHANGED << s, radio >>

DeviceFound(a) ==
    /\ s.scan
    /\ s' = [ s EXCEPT !.scan = FALSE ]
    /\ ev' = [ ev EXCEPT !.found = a ]
    /\ UNCHANGED radio

ScanEnds ==
    /\ s.scan
    /\ s' = [ s EXCEPT !.scan = FALSE ]
    /\ UNCHANGED << radio, ev >>

Transport == FenceOpens \/ OperationStarts \/ \E ok \in BOOLEAN : OperationEnds(ok)
Radio == \/ LinkMade \/ LinkLost \/ LossQueued \/ ScanEnds
         \/ \E d \in Responses : Replied(d)
         \/ \E a \in Address : DeviceFound(a)
-----------------------------------------------------------------------------
Init ==
    /\ \E enabled \in BOOLEAN, saved \in Address \cup { NoAddress } :
          s = InitSession(enabled, saved)
    /\ link = "down" /\ peer = NoAddress /\ run = None /\ owes = FALSE
    /\ ev = NoEvents

Commands == EndForTeardown \/ RequestManualPairScan
            \/ Disable \/ Enable \/ ForgetDevice
            \/ \E a \in Address : AdoptRecovered(a)
Next == (\E c \in Contexts : ProcessObd(c)) \/ Commands \/ Transport \/ Radio

Spec == Init /\ [][Next]_vars

\* The loop turns for ever and its timers expire; the transport answers and
\* cuts the links it is asked to cut (ObdTransport), and callbacks run.
Turns == \E c \in Contexts : c.due /\ ~c.proxyClient /\ ProcessObd(c)
Fairness ==
    /\ WF_vars(Turns) /\ WF_vars(Transport)
    /\ WF_vars(s.fence /\ LinkLost) /\ WF_vars(LossQueued) /\ WF_vars(ScanEnds)

FairSpec == Spec /\ Fairness
-----------------------------------------------------------------------------
(* Properties.                                                             *)

\* Every field keeps its type (obd_runtime_module.h, private members).
TypeOK ==
    /\ s \in SessionType
    /\ link \in { "down", "connecting", "up" }
    /\ peer \in Address \cup { NoAddress } /\ run \in TransportOps \cup { None }
    /\ owes \in BOOLEAN
    /\ ev \in [ lost : BOOLEAN, found : Address \cup { NoAddress },
                data : Responses \cup { None } ]

\* A connection is asked for only on a fence that opened since anything was
\* last submitted, with the link down; every other operation only after it.
\* This is what the transport relies on to tell links apart.
ConnectsOnFreshFence ==
    [][/\ s.queued = None /\ s'.queued = "CONNECT" => s.fresh /\ link = "down"
       /\ s.queued = None /\ s'.queued \in TransportOps \ { "CONNECT" } => ~s.fresh]_vars

\* The adapter that is polled is the saved one, although a pairing attempt, a
\* bond repair or a cancellation may have changed the target on the way.
PollsTheSavedAdapter == s.st = "POLLING" /\ IsConnected => peer = s.saved

\* A saved adapter is replaced only by one that completed its init on the link
\* being polled (test_cancelled_pair_candidate_cannot_reconnect_or_qualify...).
SavedOnlyQualified ==
    [][s.enabled /\ s'.saved # s.saved =>
          s'.saved = NoAddress \/ (s'.st = "POLLING" /\ peer = s'.saved)]_vars

\* A command that waits for its write result has a write under way or a result
\* to take: no retry, RSSI read or cancellation loses the one without the other.
NoOrphanedCommand ==
    s.cmd.pending => s.op = "WRITE" \/ s.ready.op = "WRITE"

\* No link outlives its session: a state that owns no link has one only while
\* the fence is closed, whichever of failure, cancellation, pairing request or
\* phone ended the session and however far its connect had come.
NoUnownedLink ==
    link = "up" /\ s.st \in { "IDLE", "WAIT_BOOT", "SCANNING", "ECU_IDLE" } => s.fence

\* After a turn that saw a phone, no scan, set-up or poll is left of the
\* session and no pairing attempt either.
PhoneOwnsTheRadio ==
    [][(\E c \in Contexts : c.proxyClient /\ ProcessObd(c)) =>
          /\ s'.st \notin SetupStates \cup { "SCANNING", "POLLING" }
          /\ ~s'.manual /\ ~s'.scan]_vars

\* The session as a whole: the adapter polled, the command under way and the
\* link all belong to it (updatePolling, startCommand, disconnectBle).
SessionSafe == TypeOK /\ PollsTheSavedAdapter /\ NoOrphanedCommand /\ NoUnownedLink
SessionSteps == ConnectsOnFreshFence /\ SavedOnlyQualified /\ PhoneOwnsTheRadio

\* The session uses the transport as a fence, and the transport it is checked
\* against is the one ObdTransport implements.
Fence == INSTANCE ObdFence WITH
    open <- ~s.fence, waiting <- s.queued # None,
    running <- run # None, up <- link # "down"

ImplementsFence == Fence!Spec

\* No timed state holds the session for ever: scanning, connecting,
\* discovering, init and back-off all end.
TimedStates == { "SCANNING", "CONNECTING", "DISCOVERING", "AT_INIT", "ERROR_BACKOFF" }
TimedStatesEnd == []<>(s.st \notin TimedStates)

\* A pairing attempt that reached its scan ends, paired or given up.
PairingEnds == s.manual /\ s.st = "SCANNING" ~> ~s.manual

\* Once a session was set up, losing or cutting its link leads to a reconnect:
\* no update gives the reconnection up before it asked for the connection
\* (test_disconnect_clears_speed_and_next_admitted_update_reconnects).
ReconnectAsks ==
    [][(\E c \in Contexts : ~c.proxyClient /\ ProcessObd(c))
         /\ s.wasWarm /\ s.st = "CONNECTING" /\ s'.st \in { "DISCONNECTED", "IDLE" }
       => ~s.fresh \/ s'.fence]_vars
=============================================================================
