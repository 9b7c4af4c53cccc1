------------------------------ MODULE V1Link -------------------------------
(***************************************************************************)
(* The detector's BLE session (V1BLEClient): the main loop's state machine *)
(* against the callbacks of the NimBLE host task and the one attribute     *)
(* worker that discovers, subscribes and writes commands.                  *)
(*                                                                         *)
(* What the tasks share is atomics, written one after another: a callback  *)
(* and a publication of the main loop are modelled store by store where    *)
(* their order matters.  A pass of the main loop is apply, service,        *)
(* dispatch.  Deadlines are a flag that time sets while a phase waits.     *)
(***************************************************************************)
EXTENDS Naturals

CONSTANTS MaxAttempts,     \* MAX_CONNECT_ATTEMPTS
          HardResetAt,     \* V1 BLE hard-reset threshold
          MaxFound,        \* times a detector is found (bounds the generations)
          MaxDisconnects   \* requests of disconnect()

ASSUME ClientAssumption ==
    /\ MaxAttempts \in Nat \ { 0 } /\ HardResetAt \in Nat \ { 0 }
    /\ MaxFound \in Nat /\ MaxDisconnects \in Nat

VARIABLES pc,      \* where the main loop is in its pass
          ble,     \* members only the main loop writes
          pub,     \* atomics shared with callbacks and worker
          host,    \* callback under way in the NimBLE host task
          radio,   \* the NimBLE client: its link, its attributes (a version), its scan
          worker,  \* the attribute worker
          subs,    \* (ghost) links whose notifications are on
          strayed, \* (ghost) a command was written on another session's link
          count

vars == << pc, ble, pub, host, radio, worker, subs, strayed, count >>

NoCommand == [ active |-> FALSE, gen |-> 0, link |-> 0 ]
\* At boot: the members, the atomics, the callback and the worker.
Members == [ st |-> "DISCONNECTED", gen |-> 0, attempts |-> 0, fails |-> 0, hard |-> FALSE, want |-> FALSE,
             cancelWait |-> FALSE, late |-> FALSE, step |-> "service", actGen |-> 0, read |-> FALSE,
             readGen |-> 0, cmd |-> NoCommand ]
Atomics == [ accept |-> FALSE, gate |-> 0, connected |-> FALSE, pend |-> FALSE, succ |-> FALSE, edge |-> 0,
             cleanup |-> FALSE, discPending |-> FALSE, active |-> 0, quiesc |-> 0,
             target |-> FALSE, scanEnd |-> FALSE, ours |-> FALSE ]
NoCallback == [ at |-> "idle", gen |-> 0 ]
NoWorker == [ at |-> "idle", attrs |-> 0, gen |-> 0, done |-> FALSE, ok |-> FALSE, doneGen |-> 0,
              wrote |-> FALSE ]

Init ==
    /\ pc = "apply" /\ ble = Members /\ pub = Atomics /\ host = NoCallback /\ worker = NoWorker
    /\ radio = [ link |-> "none", id |-> 0, attrs |-> 0, disc |-> FALSE, scan |-> FALSE ]
    /\ subs = {} /\ strayed = FALSE
    /\ count = [ found |-> 0, disconnects |-> 0 ]

-----------------------------------------------------------------------------
(* Shared judgements. *)

Running == worker.at # "idle"
Accepted(gen) == pub.accept /\ pub.gate = gen /\ gen # 0
IsConnected == pub.connected /\ radio.link = "up"

\* A session closes for every task before its work is cancelled.
Closed(p) == [ p EXCEPT !.accept = FALSE, !.gate = 0, !.connected = FALSE ]

\* beginClientQuiesce, for the next values of the main loop's and the shared state.
QuiesceFrom(b, p, hard) ==
    LET entering == b.st # "QUIESCING"
        shut == IF entering
                THEN [ Closed(p) EXCEPT !.quiesc = IF p.active = 0 /\ radio.link = "up" THEN radio.id ELSE p.active ]
                ELSE p
        asks == radio.link = "up" /\ ~p.discPending
    IN  /\ ble' = [ b EXCEPT !.st = "QUIESCING", !.hard = @ \/ hard, !.gen = IF entering THEN @ + 1 ELSE @,
                             !.cancelWait = @ \/ p.pend, !.late = IF entering THEN FALSE ELSE @ ]
        /\ \E taken \in (IF asks THEN BOOLEAN ELSE { FALSE }) :
             /\ pub' = [ shut EXCEPT !.discPending = @ \/ taken ]
             /\ radio' = [ radio EXCEPT !.disc = @ \/ taken, !.scan = IF entering THEN FALSE ELSE @ ]
Quiesce(hard) == QuiesceFrom(ble, pub, hard)

\* A failed attempt counts; at the threshold the client is reset.
Failed(otherwise) ==
    IF ble.fails + 1 >= HardResetAt THEN QuiesceFrom([ ble EXCEPT !.fails = @ + 1 ], pub, TRUE) ELSE otherwise

-----------------------------------------------------------------------------
(* applyDeferredRuntimeEvents. *)

ReadEdge ==
    /\ pc = "apply"
    /\ IF pub.edge = 0
       THEN pc' = "cleanup" /\ UNCHANGED << ble, pub >>
       ELSE /\ ble' = [ ble EXCEPT !.read = pub.edge = ble.gen /\ Accepted(pub.edge), !.readGen = pub.edge ]
            /\ pub' = [ pub EXCEPT !.edge = 0 ] /\ pc' = "edge"
    /\ UNCHANGED << host, radio, worker, subs, strayed, count >>
StoreEdge ==
    /\ pc = "edge" /\ pc' = "cleanup"
    /\ pub' = [ pub EXCEPT !.connected = ble.read ]
    /\ UNCHANGED << ble, host, radio, worker, subs, strayed, count >>

\* A disconnect that the teardown expected keeps the failure count.
Expected == ble.st = "QUIESCING"
ApplyCleanup ==
    /\ pc = "cleanup" /\ pc' = "scan"
    /\ IF pub.cleanup
       THEN QuiesceFrom([ ble EXCEPT !.fails = IF Expected THEN @ ELSE 0, !.want = FALSE ],
                        [ pub EXCEPT !.cleanup = FALSE, !.connected = FALSE, !.ours = FALSE ], FALSE)
       ELSE UNCHANGED << ble, pub, radio >>
    /\ UNCHANGED << host, worker, subs, strayed, count >>
\* The end of a scan, then a target: the target wins.
ApplyScan ==
    /\ pc = "scan" /\ pc' = "service"
    /\ pub' = [ pub EXCEPT !.target = FALSE, !.scanEnd = FALSE ]
    /\ ble' = IF ble.st # "SCANNING" THEN ble
              ELSE IF pub.target THEN [ ble EXCEPT !.st = "SCAN_STOPPING", !.want = TRUE ]
              ELSE IF pub.scanEnd THEN [ ble EXCEPT !.st = "DISCONNECTED" ] ELSE ble
    /\ UNCHANGED << host, radio, worker, subs, strayed, count >>

-----------------------------------------------------------------------------
(* Commands: one write at a time, on the worker that pins the attributes.  *)

\* serviceCommandWrite: a stale, late or failed write retires the session.
CommandBroken ==
    ble.cmd.active /\ ble.st # "QUIESCING"
    /\ (pub.gate # ble.cmd.gen \/ ble.late \/ (~Running /\ ~worker.wrote))
Service ==
    /\ pc = "service" /\ pc' = "dispatch"
    /\ IF CommandBroken THEN Quiesce(FALSE) ELSE UNCHANGED << ble, pub, radio >>
    /\ UNCHANGED << host, worker, subs, strayed, count >>

\* sendCharacteristicCommand
WorkerFree == ~Running
HasCommandChar == ble.st = "CONNECTED" \/ ble.step \in { "short", "long", "complete" }
MaySend == pc = "dispatch" /\ HasCommandChar /\ IsConnected /\ ble.st # "QUIESCING"
SendCommand ==
    /\ MaySend /\ ~ble.cmd.active /\ WorkerFree
    /\ ble' = [ ble EXCEPT !.cmd = [ active |-> TRUE, gen |-> ble.gen, link |-> radio.id ] ]
    /\ worker' = [ worker EXCEPT !.at = "command", !.attrs = radio.attrs, !.gen = ble.gen, !.wrote = FALSE ]
    /\ UNCHANGED << pc, pub, host, radio, subs, strayed, count >>
\* Its owner asks again and is told that it was written.
CollectCommand ==
    /\ MaySend /\ ble.cmd.active /\ ~Running /\ ~CommandBroken
    /\ ble' = [ ble EXCEPT !.cmd = NoCommand ]
    /\ UNCHANGED << pc, pub, host, radio, worker, subs, strayed, count >>
\* Its owner asks for something else, or cancels it.
CancelCommand ==
    /\ pc = "dispatch" /\ ble.cmd.active /\ ble.st # "QUIESCING" /\ Quiesce(FALSE)
    /\ UNCHANGED << pc, host, worker, subs, strayed, count >>

-----------------------------------------------------------------------------
(* dispatchConnectionState. *)

Step(states) == pc = "dispatch" /\ ble.st \in states /\ pc' = "apply"
To(st) == ble' = [ ble EXCEPT !.st = st ]
Still == UNCHANGED << host, subs, strayed, count >>

Disconnected ==
    /\ Step({ "DISCONNECTED" })
    /\ IF Running THEN Quiesce(FALSE) /\ UNCHANGED worker
       ELSE IF radio.scan THEN UNCHANGED << ble, pub, radio, worker >>
       ELSE /\ To("SCANNING") /\ radio' = [ radio EXCEPT !.scan = TRUE ] /\ UNCHANGED << pub, worker >>
    /\ Still
\* The watchdog takes over when the end of the scan was told to somebody else.
Scanning ==
    /\ Step({ "SCANNING" })
    /\ IF ble.want THEN To("SCAN_STOPPING") ELSE IF ~radio.scan THEN To("DISCONNECTED") ELSE UNCHANGED ble
    /\ radio' = [ radio EXCEPT !.scan = @ /\ ~ble.want ]
    /\ UNCHANGED << pub, worker >> /\ Still
\* connectToServer opens a new generation.
ScanStopping ==
    /\ Step({ "SCAN_STOPPING" })
    /\ IF radio.scan THEN radio' = [ radio EXCEPT !.scan = FALSE ] /\ UNCHANGED << ble, pub >>
       ELSE IF ble.want /\ ~Running
       THEN /\ ble' = [ ble EXCEPT !.st = "CONNECTING", !.want = FALSE, !.gen = @ + 1, !.attempts = 0, !.late = FALSE ]
            /\ pub' = [ pub EXCEPT !.edge = 0, !.gate = ble.gen + 1, !.accept = TRUE, !.pend = FALSE, !.succ = FALSE ]
            /\ UNCHANGED radio
       ELSE /\ ble' = [ ble EXCEPT !.st = IF ble.want THEN @ ELSE "DISCONNECTED", !.want = FALSE ]
            /\ UNCHANGED << pub, radio >>
    /\ UNCHANGED worker /\ Still

\* Neither connect nor retire while a worker borrows the attribute cache.
MayRebuild == ~Running
MoreAttempts(n) == n < MaxAttempts
\* startAsyncConnect; the connect may be refused at once.
Connecting ==
    /\ Step({ "CONNECTING" }) /\ UNCHANGED worker /\ Still
    /\ IF pub.pend \/ pub.succ \/ ~MayRebuild
       THEN IF ble.late THEN Quiesce(FALSE) ELSE UNCHANGED << ble, pub, radio >>
       ELSE IF radio.link = "up" THEN QuiesceFrom([ ble EXCEPT !.attempts = @ + 1 ], pub, FALSE)
       ELSE \/ /\ radio.link = "none"
               /\ ble' = [ ble EXCEPT !.st = "CONNECTING_WAIT", !.attempts = @ + 1, !.late = FALSE ]
               /\ pub' = [ pub EXCEPT !.pend = TRUE, !.succ = FALSE ]
               /\ radio' = [ radio EXCEPT !.link = "connecting", !.attrs = @ + 1 ]
            \/ IF MoreAttempts(ble.attempts + 1)
               THEN IF ble.late THEN Quiesce(FALSE)
                    ELSE ble' = [ ble EXCEPT !.attempts = @ + 1 ] /\ UNCHANGED << pub, radio >>
               ELSE Failed(/\ ble' = [ ble EXCEPT !.fails = @ + 1, !.st = "DISCONNECTED" ]
                           /\ UNCHANGED << pub, radio >>)
\* processConnectingWait and finishConnection; a controller that is busy sends
\* the client back to scanning.
ConnectingWait ==
    /\ Step({ "CONNECTING_WAIT" })
    /\ IF pub.succ
       THEN IF Accepted(ble.gen) /\ ~Running
            THEN /\ ble' = [ ble EXCEPT !.fails = 0, !.actGen = ble.gen, !.st = "DISCOVERING", !.late = FALSE ]
                 /\ worker' = [ worker EXCEPT !.done = FALSE, !.ok = FALSE, !.doneGen = 0 ]
                 /\ UNCHANGED << pub, radio >>
            ELSE Quiesce(FALSE) /\ UNCHANGED worker
       ELSE /\ UNCHANGED worker
            /\ IF pub.pend
               THEN IF ~ble.late THEN UNCHANGED << ble, pub, radio >>
                    ELSE Failed(QuiesceFrom([ ble EXCEPT !.fails = @ + 1 ], pub, FALSE))
               ELSE IF MoreAttempts(ble.attempts)
               THEN \E st \in { "CONNECTING", "DISCONNECTED" } : To(st) /\ UNCHANGED << pub, radio >>
               ELSE Failed(/\ ble' = [ ble EXCEPT !.fails = @ + 1, !.st = "DISCONNECTED" ]
                           /\ UNCHANGED << pub, radio >>)
    /\ Still

Start(job) == worker' = [ worker EXCEPT !.at = job, !.attrs = radio.attrs, !.gen = ble.actGen ]
Discovering ==
    /\ Step({ "DISCOVERING" })
    /\ IF ble.late THEN Quiesce(FALSE) /\ UNCHANGED worker
       ELSE IF Running THEN UNCHANGED << ble, pub, radio, worker >>
       ELSE IF ~worker.done
       THEN \/ Start("discover") /\ UNCHANGED << ble, pub, radio >>
            \/ /\ worker' = [ worker EXCEPT !.done = TRUE, !.ok = FALSE ]
               /\ Failed(QuiesceFrom([ ble EXCEPT !.fails = @ + 1 ], pub, FALSE))
       ELSE IF worker.doneGen # ble.actGen \/ ble.gen # ble.actGen \/ ~worker.ok
       THEN Quiesce(FALSE) /\ UNCHANGED worker
       ELSE /\ worker' = [ worker EXCEPT !.done = FALSE, !.ok = FALSE, !.doneGen = 0 ]
            /\ ble' = [ ble EXCEPT !.st = "SUBSCRIBING", !.step = "service", !.late = FALSE ]
            /\ UNCHANGED << pub, radio >>
    /\ Still

\* processSubscriptionWrite: what the step returns, and the worker after it.
Written(step) ==
    IF Running THEN { << "wait", worker >> }
    ELSE IF ~(Accepted(ble.actGen) /\ ble.gen = ble.actGen) THEN { << "failed", worker >> }
    ELSE IF worker.done
    THEN { << IF worker.doneGen = ble.actGen /\ worker.ok THEN "next" ELSE "failed", [ worker EXCEPT !.done = FALSE ] >> }
    ELSE { << "wait", [ worker EXCEPT !.at = step, !.attrs = radio.attrs, !.gen = ble.actGen ] >>,
           << "failed", worker >> }
\* The lookups are one step; a detector may lack the service or the long channel.
Outcomes ==
    IF ble.step = "service" THEN { << "failed", worker >>, << "next", worker >> } ELSE Written(ble.step)
After(step) == CASE step = "service" -> { "short" } [] step = "short" -> { "long", "complete" }
                 [] step = "long" -> { "complete" }
Subscribing ==
    /\ Step({ "SUBSCRIBING" }) /\ ble.step # "complete"
    /\ IF ble.late THEN Quiesce(FALSE) /\ UNCHANGED worker
       ELSE \E o \in Outcomes :
              /\ worker' = o[2]
              /\ CASE o[1] = "wait" -> To("SUBSCRIBE_YIELD") /\ UNCHANGED << pub, radio >>
                   [] o[1] = "next" -> /\ \E s \in After(ble.step) :
                                            ble' = [ ble EXCEPT !.step = s, !.st = "SUBSCRIBE_YIELD" ]
                                       /\ UNCHANGED << pub, radio >>
                   [] o[1] = "failed" -> Quiesce(FALSE)
    /\ Still
SubscribeYield == Step({ "SUBSCRIBE_YIELD" }) /\ To("SUBSCRIBING") /\ UNCHANGED << pub, radio, worker >> /\ Still

\* The session is published: check, store, claim.
Publish ==
    /\ pc = "dispatch" /\ ble.st = "SUBSCRIBING" /\ ble.step = "complete"
    /\ IF ble.late \/ ~(Accepted(ble.actGen) /\ ble.gen = ble.actGen)
       THEN QuiesceFrom(ble, [ pub EXCEPT !.connected = FALSE ], FALSE) /\ pc' = "apply"
       ELSE pc' = "publish" /\ UNCHANGED << ble, pub, radio >>
    /\ UNCHANGED worker /\ Still
StoreConnected ==
    /\ pc = "publish" /\ pc' = "claim" /\ pub' = [ pub EXCEPT !.connected = TRUE ]
    /\ UNCHANGED << ble, radio, worker >> /\ Still
\* mutant: the claim is taken for granted.
TakenForGranted(gen) == TRUE
\* BleSessionPublicationGate::claim
Claims(gen) == Accepted(gen)
Claim ==
    /\ pc = "claim" /\ pc' = "apply"
    /\ IF Claims(ble.actGen) THEN To("CONNECTED") /\ UNCHANGED << pub, radio >>
       ELSE QuiesceFrom(ble, [ pub EXCEPT !.connected = FALSE ], FALSE)
    /\ UNCHANGED worker /\ Still
Connected ==
    /\ Step({ "CONNECTED" })
    /\ IF radio.link # "up" THEN QuiesceFrom(ble, [ pub EXCEPT !.connected = FALSE ], FALSE)
       ELSE UNCHANGED << ble, pub, radio >>
    /\ UNCHANGED worker /\ Still

\* ble_quiesce_policy: one deadline covers every incomplete teardown.
TimedOut == ble.late
Waiting(cancel) == cancel \/ Running \/ pub.discPending
\* processClientQuiesce
Quiescing ==
    /\ Step({ "QUIESCING" }) /\ UNCHANGED worker /\ Still
    /\ LET cancel == ble.cancelWait /\ pub.pend
           waits == Waiting(cancel)
       IN  IF (waits \/ radio.link = "up") /\ TimedOut
           THEN ble' = [ ble EXCEPT !.st = "RESTARTED" ] /\ UNCHANGED << pub, radio >>
           ELSE IF waits
           THEN /\ ble' = [ ble EXCEPT !.cancelWait = cancel ]
                /\ radio' = [ radio EXCEPT !.disc = @ \/ (pub.discPending /\ radio.link = "up") ]
                /\ UNCHANGED pub
           ELSE IF radio.link = "up"
           THEN \E taken \in BOOLEAN :
                  /\ pub' = [ pub EXCEPT !.discPending = taken ] /\ radio' = [ radio EXCEPT !.disc = @ \/ taken ]
                  /\ ble' = [ ble EXCEPT !.cancelWait = FALSE ]
           ELSE /\ ble' = [ ble EXCEPT !.st = "DISCONNECTED", !.cmd = NoCommand, !.want = FALSE, !.actGen = 0,
                                       !.fails = IF ble.hard THEN 0 ELSE @, !.hard = FALSE, !.cancelWait = FALSE,
                                       !.step = "service", !.late = FALSE ]
                /\ pub' = [ pub EXCEPT !.connected = FALSE, !.active = 0, !.quiesc = 0, !.pend = FALSE, !.succ = FALSE,
                                       !.edge = 0 ]
                /\ radio' = [ radio EXCEPT !.attrs = @ + 1 ]

Dispatch ==
    \/ Disconnected \/ Scanning \/ ScanStopping \/ Connecting \/ ConnectingWait \/ Discovering
    \/ Subscribing \/ SubscribeYield \/ Publish \/ StoreConnected \/ Claim \/ Connected \/ Quiescing
Loop ==
    /\ ble.st # "RESTARTED"
    /\ ReadEdge \/ StoreEdge \/ ApplyCleanup \/ ApplyScan \/ Service \/ Dispatch

\* disconnect(): a detector that is not the wanted one, or a shutdown.
Disconnect ==
    /\ pc = "service" /\ ble.st # "RESTARTED" /\ count.disconnects < MaxDisconnects
    /\ Quiesce(FALSE) /\ count' = [ count EXCEPT !.disconnects = @ + 1 ]
    /\ UNCHANGED << pc, host, worker, subs, strayed >>

-----------------------------------------------------------------------------
(* The NimBLE host task: one callback at a time. *)

HostOnly == UNCHANGED << pc, ble, worker, subs, strayed, count >>
ConnectDone ==
    /\ host.at = "idle" /\ radio.link = "connecting"
    /\ radio' = [ radio EXCEPT !.link = "up", !.id = @ + 1, !.disc = FALSE ]
    /\ host' = [ at |-> "connect", gen |-> 0 ]
    /\ UNCHANGED pub /\ HostOnly
\* onConnect: a completion after quiescing began is refused and disconnected.
OnConnect ==
    /\ host.at = "connect"
    /\ IF Accepted(ble.gen)
       THEN host' = [ at |-> "connected", gen |-> ble.gen ] /\ UNCHANGED << pub, radio >>
       ELSE /\ host' = [ at |-> "idle", gen |-> 0 ]
            /\ \E taken \in BOOLEAN :
                 /\ pub' = [ pub EXCEPT !.quiesc = radio.id, !.discPending = taken, !.succ = FALSE, !.pend = FALSE ]
                 /\ radio' = [ radio EXCEPT !.disc = taken ]
    /\ HostOnly
OnConnectPublish ==
    /\ host.at = "connected" /\ host' = [ at |-> "idle", gen |-> 0 ]
    /\ pub' = [ pub EXCEPT !.active = radio.id, !.succ = TRUE, !.pend = FALSE, !.edge = host.gen ]
    /\ UNCHANGED radio /\ HostOnly
\* onConnectFail: the attempt fails, or is cancelled.
OnConnectFail ==
    /\ host.at = "idle" /\ radio.link = "connecting"
    /\ radio' = [ radio EXCEPT !.link = "none" ] /\ pub' = [ pub EXCEPT !.succ = FALSE, !.pend = FALSE ]
    /\ UNCHANGED host /\ HostOnly

LinkLost ==
    /\ host.at = "idle" /\ radio.link = "up"
    /\ host' = [ at |-> "lost", gen |-> 0 ] /\ UNCHANGED << pub, radio >> /\ HostOnly
ItsHandle(expected) == expected = 0 \/ expected = radio.id
\* onDisconnect: a callback of another link is refused.
OnDisconnect ==
    /\ host.at = "lost"
    /\ host' = [ host EXCEPT !.at = IF ItsHandle(IF pub.accept THEN pub.active ELSE pub.quiesc) THEN "close" ELSE "gone" ]
    /\ UNCHANGED << pub, radio >> /\ HostOnly
OnDisconnectClose ==
    /\ host.at = "close" /\ host' = [ host EXCEPT !.at = "down" ]
    /\ pub' = [ pub EXCEPT !.accept = FALSE, !.gate = 0 ] /\ UNCHANGED radio /\ HostOnly
OnDisconnectDown ==
    /\ host.at = "down" /\ host' = [ host EXCEPT !.at = "notify" ]
    /\ pub' = [ pub EXCEPT !.connected = FALSE, !.succ = FALSE, !.pend = FALSE, !.discPending = FALSE ]
    /\ UNCHANGED radio /\ HostOnly
OnDisconnectNotify ==
    /\ host.at = "notify" /\ host' = [ host EXCEPT !.at = "gone" ]
    /\ pub' = [ pub EXCEPT !.cleanup = TRUE, !.ours = radio.disc ] /\ UNCHANGED radio /\ HostOnly
\* NimBLE clears its handle after the callback.
LinkGone ==
    /\ host.at = "gone" /\ host' = [ at |-> "idle", gen |-> 0 ]
    /\ radio' = [ radio EXCEPT !.link = "none", !.disc = FALSE ] /\ UNCHANGED pub /\ HostOnly
HostStep ==
    \/ OnConnect \/ OnConnectPublish \/ OnDisconnect \/ OnDisconnectClose \/ OnDisconnectDown
    \/ OnDisconnectNotify \/ LinkGone

\* ScanCallbacks: a detector is found, or the scan ends; the end of a scan
\* whose callbacks the OBD scan took is told to somebody else.
Found ==
    /\ radio.scan /\ count.found < MaxFound
    /\ count' = [ count EXCEPT !.found = @ + 1 ]
    /\ \E told \in BOOLEAN : pub' = [ pub EXCEPT !.target = TRUE, !.scanEnd = @ \/ told ]
    /\ radio' = [ radio EXCEPT !.scan = FALSE ]
    /\ UNCHANGED << pc, ble, host, worker, subs, strayed >>
ScanEnd ==
    /\ radio.scan /\ radio' = [ radio EXCEPT !.scan = FALSE ]
    /\ \E told \in BOOLEAN : pub' = [ pub EXCEPT !.scanEnd = @ \/ told ]
    /\ UNCHANGED host /\ HostOnly

-----------------------------------------------------------------------------
(* The attribute worker. *)

Finish(ok) ==
    worker' = IF worker.at \in { "command", "write" } THEN [ worker EXCEPT !.at = "idle", !.wrote = ok ]
              ELSE [ worker EXCEPT !.at = "idle", !.done = TRUE, !.ok = ok, !.doneGen = worker.gen ]
WorkerOnly == UNCHANGED << pc, ble, pub, host, radio, count >>
Discover == worker.at = "discover" /\ \E ok \in BOOLEAN : (ok => radio.link = "up") /\ Finish(ok) /\ UNCHANGED << subs, strayed >>
\* subscriptionTaskFunc and commandTaskFunc look at the session first.
WorkerChecks ==
    /\ worker.at \in { "short", "long", "command" }
    /\ IF Accepted(worker.gen) /\ ble.gen = worker.gen
       THEN worker' = [ worker EXCEPT !.at = CASE @ = "short" -> "subscribe" [] @ = "long" -> "subscribeLong" [] OTHER -> "write" ]
       ELSE Finish(FALSE)
    /\ UNCHANGED << subs, strayed >>
WorkerWrites ==
    /\ worker.at \in { "subscribe", "subscribeLong", "write" }
    /\ \E ok \in BOOLEAN :
         /\ ok => radio.link = "up"
         /\ Finish(ok)
         /\ subs' = IF ok /\ worker.at = "subscribe" THEN subs \cup { radio.id } ELSE subs
         /\ strayed' = (strayed \/ (ok /\ worker.at = "write" /\ radio.id # ble.cmd.link))
WorkerStep == (Discover \/ WorkerChecks \/ WorkerWrites) /\ WorkerOnly

\* Time passes while a phase waits.
Expire ==
    /\ ~ble.late
    /\ ble.st \in { "CONNECTING", "CONNECTING_WAIT", "DISCOVERING", "SUBSCRIBING", "SUBSCRIBE_YIELD", "QUIESCING" }
       \/ ble.cmd.active
    /\ ble' = [ ble EXCEPT !.late = TRUE ]
    /\ UNCHANGED << pc, pub, host, radio, worker, subs, strayed, count >>

Next ==
    \/ Loop \/ SendCommand \/ CollectCommand \/ CancelCommand \/ Disconnect
    \/ ConnectDone \/ OnConnectFail \/ LinkLost \/ HostStep \/ Found \/ ScanEnd
    \/ WorkerStep \/ Expire
Spec == Init /\ [][Next]_vars
\* The loop runs, a callback that began ends, time passes, a scan has a
\* duration.  The worker and the link owe nothing: deadlines cover them.
FairSpec ==
    Spec /\ WF_vars(Loop) /\ WF_vars(HostStep) /\ WF_vars(Expire) /\ WF_vars(ScanEnd)

-----------------------------------------------------------------------------
(* Properties. *)

States == { "DISCONNECTED", "SCANNING", "SCAN_STOPPING", "CONNECTING", "CONNECTING_WAIT", "DISCOVERING",
            "SUBSCRIBING", "SUBSCRIBE_YIELD", "CONNECTED", "QUIESCING", "RESTARTED" }
Phases == { "service", "short", "long", "complete" }
Jobs == { "idle", "discover", "short", "subscribe", "long", "subscribeLong", "command", "write" }
CommandType == [ active : BOOLEAN, gen : Nat, link : Nat ]
MembersType ==
    [ st : States, gen : Nat, attempts : 0 .. MaxAttempts, fails : 0 .. HardResetAt, hard : BOOLEAN, want : BOOLEAN,
      cancelWait : BOOLEAN, late : BOOLEAN, step : Phases, actGen : Nat, read : BOOLEAN, readGen : Nat,
      cmd : CommandType ]
AtomicsType ==
    [ accept : BOOLEAN, gate : Nat, connected : BOOLEAN, pend : BOOLEAN, succ : BOOLEAN, edge : Nat,
      cleanup : BOOLEAN, discPending : BOOLEAN, active : Nat, quiesc : Nat,
      target : BOOLEAN, scanEnd : BOOLEAN, ours : BOOLEAN ]
CallbackType ==
    [ at : { "idle", "connect", "connected", "lost", "close", "down", "notify", "gone" }, gen : Nat ]
RadioType ==
    [ link : { "none", "connecting", "up" }, id : Nat, attrs : Nat, disc : BOOLEAN, scan : BOOLEAN ]
WorkerType == [ at : Jobs, attrs : Nat, gen : Nat, done : BOOLEAN, ok : BOOLEAN, doneGen : Nat,
                wrote : BOOLEAN ]
TypeOK ==
    /\ pc \in { "apply", "edge", "cleanup", "scan", "service", "dispatch", "publish", "claim" }
    /\ ble \in MembersType /\ pub \in AtomicsType /\ host \in CallbackType /\ radio \in RadioType
    /\ worker \in WorkerType /\ subs \subseteq Nat /\ strayed \in BOOLEAN
    /\ count \in [ found : 0 .. MaxFound, disconnects : 0 .. MaxDisconnects ]
    /\ pub.gate <= ble.gen /\ pub.edge <= ble.gen

\* The attributes a worker borrows are never rebuilt or retired under it, and
\* what it writes goes out on the link of the session that asked for it.
WorkerOwnsItsHandles == (Running => worker.attrs = radio.attrs) /\ ~strayed

\* A session other tasks see as connected in state CONNECTED is open and has
\* its notifications on; its link may only have been lost since, with the
\* disconnect callback about to withdraw it.
ConnectedIsOpen ==
    ble.st = "CONNECTED" /\ pub.connected =>
        (Accepted(ble.gen) /\ ble.gen = ble.actGen /\ radio.id \in subs) \/ host.at = "down"

\* No session is shown over a link that is gone, unless the loop is between
\* its look at the session and the store, or its cleanup is pending.
NoGhostSession ==
    pub.connected /\ radio.link = "none" => pub.cleanup \/ pc \in { "edge", "publish", "claim" }

\* V1BLEClient is safe: its worker owns the attributes it borrows, and what is
\* shown as connected is an open session over a link that is there.
LinkSafe == TypeOK /\ WorkerOwnsItsHandles /\ ConnectedIsOpen /\ NoGhostSession

\* Whatever the detector and the radio do, the client is back to scanning, has
\* a session, or restarted: no phase and no teardown keeps it.
AtRest == ble.st \in { "SCANNING", "CONNECTED", "RESTARTED" }
NeverWedged == []<>AtRest

\* "A callback caused by our own failure teardown must retain the failure
\* count so the hard-reset threshold still works."
RetainsStep == pc = "cleanup" /\ pc' = "scan" /\ pub.cleanup /\ pub.ours => ble'.fails = ble.fails
FailureCountRetained == [][RetainsStep]_vars
=============================================================================
