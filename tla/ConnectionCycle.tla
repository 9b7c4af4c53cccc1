-------------------------- MODULE ConnectionCycle --------------------------
(***************************************************************************)
(* The connection-cycle coordinator of the drive loop: the phase machine   *)
(* that decides, once per loop, who may use the radio beside the V1 link   *)
(* -- the OBD scan, the OBD connection, or the phone proxy.                *)
(*                                                                         *)
(* One Update(c) is one call of update(ctx): c is the CycleContext the     *)
(* drive loop sampled, plus the two answers the coordinator reads back     *)
(* through its lifecycle interface.  The timestamps of the code            *)
(* (stateEnteredMs_, lastObdAttemptMs_, ...) are kept as ages, counted in  *)
(* ticks and saturating at MaxAge; an age is compared with a duration only, *)
(* so nothing is lost as long as MaxAge is at least every duration.        *)
(***************************************************************************)
EXTENDS Integers

CONSTANTS
    Contexts,        \* the CycleContext values the drive loop may sample
    MaxAge,          \* where ages saturate
    ScanFallback,    \* kScanV1FallbackMs
    SettleQuiet,     \* v1SettleQuietMs_
    SettleFallback,  \* v1SettleFallbackMs_
    SettleDeadline,  \* kV1SettleHardDeadlineMs
    ScanWindow,      \* obdScanWindowMs_
    RetryInterval,   \* obdRetryIntervalMs_
    ProxyWindow,     \* proxyOpenWindowMs_
    AckTimeout       \* teardownAckTimeoutMs_

Durations == { ScanFallback, SettleQuiet, SettleFallback, SettleDeadline,
               ScanWindow, RetryInterval, ProxyWindow, AckTimeout }

ASSUME DurationsAssumption ==
    /\ MaxAge \in Nat
    /\ Durations \subseteq 1..MaxAge

Never == -1                   \* a timestamp whose "valid" flag is false
Age == Never..MaxAge

ObdStates == { "IDLE", "WAIT_BOOT", "SCANNING", "CONNECTING", "SECURING",
               "DISCOVERING", "AT_INIT", "POLLING", "ERROR_BACKOFF",
               "DISCONNECTED", "ECU_IDLE" }

Context == [ v1            : BOOLEAN,   \* v1GattConnected
             bootReady     : BOOLEAN,
             autoPush      : BOOLEAN,   \* autoPushEnabled
             verifyEdge    : BOOLEAN,   \* v1VerifyPushMatchEdge
             v1EventAge    : 0..MaxAge, \* nowMs - v1LastEventMs
             obdEnabled    : BOOLEAN,
             obdSaved      : BOOLEAN,   \* obdSavedAddressValid
             obdConnected  : BOOLEAN,
             obdState      : ObdStates,
             obdSpeed      : BOOLEAN,   \* obdHasValidSpeedSample
             proxyEnabled  : BOOLEAN,
             proxyClient   : BOOLEAN,   \* proxyClientConnected
             proxyOnce     : BOOLEAN,   \* proxyClientConnectedOnceThisBoot
             obdStopped    : BOOLEAN,   \* isObdScanStopped() /\ isObdConnectIdle()
             proxyStopped  : BOOLEAN ]  \* isProxyFullyStopped()

ASSUME ContextsAssumption == Contexts \subseteq Context

CycleStates == { "SCAN_V1", "V1_SETTLING", "OBD_SCAN", "OBD_CONNECT",
                 "OBD_SETTLED", "PROXY_OPEN", "STEADY", "TEARDOWN" }
TeardownSteps == { "Idle", "WaitObdStop", "WaitProxyStop" }
LifecycleCalls == { "stopObdScan", "cancelObdConnect",
                    "stopProxyAdvertising", "disconnectProxyPhones" }

VARIABLES
    cycle,          \* state_
    cycleAge,       \* age of stateEnteredMs_; Never before the first update
    attemptAge,     \* age of lastObdAttemptMs_; Never when not recorded
    verifyAge,      \* age of v1VerifyPushMatchedAtMs_; Never when not matched
    teardown,       \* teardownStep_
    stepAge,        \* age of teardownStepStartedMs_
    wasV1,          \* wasV1Connected_, and lastV1Connected_ written with it
    lastProxyClient,   \* lastProxyClientConnected_
    recoveredPending,  \* recoveredSettingsAdmissionPending_
    calls           \* the lifecycle calls the last step made

vars == << cycle, cycleAge, attemptAge, verifyAge, teardown, stepAge, wasV1,
           lastProxyClient, recoveredPending, calls >>
----------------------------------------------------------------------------
(* Classification of the sampled context.                                  *)

Elapsed(age, duration) == age >= duration

ObdConnecting(c) == c.obdState \in { "CONNECTING", "DISCOVERING", "AT_INIT" }

ObdConnectFailed(c) ==
    c.obdState \in { "IDLE", "WAIT_BOOT", "DISCONNECTED", "ECU_IDLE" }

ObdSettled(c) == c.obdConnected /\ c.obdState = "POLLING" /\ c.obdSpeed

OpensProxyWindow(c) ==
    /\ c.proxyEnabled
    /\ ~c.obdConnected
    /\ (c.obdEnabled /\ c.obdSaved) => (c.proxyClient \/ c.proxyOnce)

ExplicitProxyAppMode(c) == c.proxyEnabled /\ ~c.obdEnabled

PostObd(c) == IF OpensProxyWindow(c) THEN "PROXY_OPEN" ELSE "STEADY"

\* The three ways V1_SETTLING ends; p is the phase the update works on.
SettledByVerifyPush(c, p) ==
    /\ c.v1
    /\ Elapsed(p.verify, SettleQuiet)
    /\ Elapsed(c.v1EventAge, SettleQuiet)
SettledByFallback(c) ==
    /\ c.v1
    /\ c.autoPush => ExplicitProxyAppMode(c)
    /\ Elapsed(c.v1EventAge, SettleFallback)
NoDeadline(c, p) == FALSE
SettledByDeadline(c, p) == c.v1 /\ Elapsed(p.age, SettleDeadline)

V1Settled(c, p) ==
    \/ SettledByVerifyPush(c, p)
    \/ SettledByFallback(c)
    \/ SettledByDeadline(c, p)

\* Recovered settings re-admit a saved adapter the provisional settings hid.
Readmits(c) ==
    /\ recoveredPending
    /\ c.v1
    /\ c.obdEnabled /\ c.obdSaved /\ c.obdState = "WAIT_BOOT"
    /\ cycle \in { "PROXY_OPEN", "STEADY" }
----------------------------------------------------------------------------
(* The phase machine.                                                      *)

ForgetsNothing(target) == FALSE
ForgetsVerifyEdge(target) == target = "V1_SETTLING"

RecordsScanOnly(target) == target = "OBD_SCAN"
RecordsObdAttempt(target) == target \in { "OBD_SCAN", "OBD_CONNECT" }

KeepsTeardownStep(target) == target \in { "V1_SETTLING", "OBD_SCAN", "OBD_CONNECT" }

Enter(p, target) ==
    /\ cycle' = target
    /\ cycleAge' = 0
    /\ verifyAge' = IF ForgetsVerifyEdge(target) THEN Never ELSE p.verify
    /\ attemptAge' = IF RecordsObdAttempt(target) THEN 0 ELSE attemptAge
    /\ teardown' = IF KeepsTeardownStep(target) THEN teardown ELSE "Idle"
    /\ stepAge' = 0

Remain(p) ==
    /\ cycle' = p.state
    /\ cycleAge' = p.age
    /\ verifyAge' = p.verify
    /\ UNCHANGED << attemptAge, teardown, stepAge >>

MoveOrRemain(p, target, moves) == IF moves THEN Enter(p, target) ELSE Remain(p)

SkipsSettling == "OBD_SCAN"
OnV1Connected == "V1_SETTLING"

InScanV1(c, p) ==
    /\ p.state = "SCAN_V1"
    /\ calls' = {}
    /\ IF c.v1
       THEN Enter(p, OnV1Connected)
       ELSE MoveOrRemain(p, "STEADY", c.bootReady /\ Elapsed(p.age, ScanFallback))

InV1Settling(c, p) ==
    /\ p.state = "V1_SETTLING"
    /\ calls' = {}
    /\ MoveOrRemain(p, IF c.obdEnabled THEN "OBD_SCAN" ELSE PostObd(c),
                    V1Settled(c, p))

InObdScan(c, p) ==
    /\ p.state = "OBD_SCAN"
    /\ \/ /\ ObdSettled(c)
          /\ Enter(p, "OBD_SETTLED") /\ calls' = {}
       \/ /\ ~ObdSettled(c) /\ ObdConnecting(c)
          /\ Enter(p, "OBD_CONNECT") /\ calls' = {}
       \/ /\ ~ObdSettled(c) /\ ~ObdConnecting(c) /\ Elapsed(p.age, ScanWindow)
          /\ Enter(p, PostObd(c)) /\ calls' = { "stopObdScan" }
       \/ /\ ~ObdSettled(c) /\ ~ObdConnecting(c) /\ ~Elapsed(p.age, ScanWindow)
          /\ Remain(p) /\ calls' = {}

InObdConnect(c, p) ==
    /\ p.state = "OBD_CONNECT"
    /\ \/ /\ ObdSettled(c)
          /\ Enter(p, "OBD_SETTLED") /\ calls' = {}
       \/ /\ ~ObdSettled(c) /\ c.obdState = "ERROR_BACKOFF"
          /\ Enter(p, PostObd(c)) /\ calls' = {}
       \/ /\ ~ObdSettled(c) /\ ObdConnectFailed(c)
          /\ Enter(p, PostObd(c)) /\ calls' = { "cancelObdConnect" }
       \/ /\ ~ObdSettled(c) /\ c.obdState # "ERROR_BACKOFF" /\ ~ObdConnectFailed(c)
          /\ Remain(p) /\ calls' = {}

InObdSettled(c, p) ==
    /\ p.state = "OBD_SETTLED"
    /\ Enter(p, PostObd(c)) /\ calls' = {}

InProxyOpen(c, p) ==
    /\ p.state = "PROXY_OPEN"
    /\ LET expired == /\ ~ExplicitProxyAppMode(c)
                      /\ ~c.proxyClient
                      /\ Elapsed(p.age, ProxyWindow)
       IN  /\ MoveOrRemain(p, "STEADY", expired)
           /\ calls' = IF expired THEN { "stopProxyAdvertising" } ELSE {}

InSteady(c, p) ==
    /\ p.state = "STEADY"
    /\ calls' = {}
    /\ MoveOrRemain(p, OnV1Connected, ~wasV1 /\ c.v1)

AfterTeardown == "SCAN_V1"

InTeardown(c, p) ==
    /\ p.state = "TEARDOWN"
    /\ \/ /\ teardown = "Idle"
          /\ Enter(p, AfterTeardown) /\ calls' = {}
       \/ /\ teardown = "WaitObdStop"
          /\ c.obdStopped \/ Elapsed(stepAge, AckTimeout)
          /\ teardown' = "WaitProxyStop" /\ stepAge' = 0
          /\ cycle' = p.state /\ cycleAge' = p.age /\ verifyAge' = p.verify
          /\ UNCHANGED attemptAge
          /\ calls' = { "stopProxyAdvertising", "disconnectProxyPhones" }
       \/ /\ teardown = "WaitProxyStop"
          /\ c.proxyStopped \/ Elapsed(stepAge, AckTimeout)
          /\ Enter(p, AfterTeardown) /\ calls' = {}
       \/ /\ ~Elapsed(stepAge, AckTimeout)
          /\ \/ teardown = "WaitObdStop" /\ ~c.obdStopped
             \/ teardown = "WaitProxyStop" /\ ~c.proxyStopped
          /\ Remain(p) /\ calls' = {}

Phases(c, p) ==
    \/ InScanV1(c, p)     \/ InV1Settling(c, p) \/ InObdScan(c, p)
    \/ InObdConnect(c, p) \/ InObdSettled(c, p) \/ InProxyOpen(c, p)
    \/ InSteady(c, p)     \/ InTeardown(c, p)

EnterTeardown ==
    /\ cycle' = "TEARDOWN" /\ cycleAge' = 0
    /\ verifyAge' = Never
    /\ teardown' = "WaitObdStop" /\ stepAge' = 0
    /\ UNCHANGED attemptAge
    /\ calls' = { "stopObdScan", "cancelObdConnect" }

KeepsProxyWindow(c) ==
    wasV1 /\ ~c.v1 /\ cycle \notin { "TEARDOWN", "SCAN_V1", "PROXY_OPEN" }
V1Dropped(c) == wasV1 /\ ~c.v1 /\ cycle \notin { "TEARDOWN", "SCAN_V1" }

\* The phase the switch works on, once re-admission and the verify edge of
\* this context have been taken in.
Sampled(c) ==
    LET verify == IF Readmits(c) THEN Never ELSE verifyAge
    IN  [ state  |-> IF Readmits(c) THEN "V1_SETTLING" ELSE cycle,
          age    |-> IF Readmits(c) \/ cycleAge = Never THEN 0 ELSE cycleAge,
          verify |-> IF c.verifyEdge THEN 0 ELSE verify ]

Update(c) ==
    /\ IF V1Dropped(c) THEN EnterTeardown ELSE Phases(c, Sampled(c))
    /\ wasV1' = c.v1
    /\ lastProxyClient' = c.proxyClient
    /\ recoveredPending' = FALSE
----------------------------------------------------------------------------
(* What the coordinator permits the rest of the loop.                      *)

ObdScanAllowed == cycle = "OBD_SCAN"
ObdConnectAllowed == cycle \in { "OBD_SCAN", "OBD_CONNECT" }
ObdRetryAllowed ==
    /\ cycle \in { "PROXY_OPEN", "STEADY" }
    /\ wasV1 /\ ~lastProxyClient
    /\ attemptAge # Never /\ Elapsed(attemptAge, RetryInterval)
ProxyAdvertisingAllowed == cycle = "PROXY_OPEN"  \* and proxyKeepConnectionAllowed
HoldsProxyForObd == cycle \in { "V1_SETTLING", "OBD_SCAN", "OBD_CONNECT" }
----------------------------------------------------------------------------
(* The other calls, time, and the specification.                           *)

RecordObdRetryAttempt ==
    /\ ObdRetryAllowed
    /\ attemptAge' = 0
    /\ calls' = {}
    /\ UNCHANGED << cycle, cycleAge, verifyAge, teardown, stepAge, wasV1,
                    lastProxyClient, recoveredPending >>

RequestRecoveredSettingsAdmission ==
    /\ recoveredPending' = TRUE
    /\ calls' = {}
    /\ UNCHANGED << cycle, cycleAge, attemptAge, verifyAge, teardown, stepAge,
                    wasV1, lastProxyClient >>

Unsaturated(age) == age + 1
Older(age) == IF age \in 0..MaxAge - 1 THEN age + 1 ELSE age

Tick ==      \* the millisecond clock moves between two updates
    /\ cycleAge' = Older(cycleAge)
    /\ attemptAge' = Older(attemptAge)
    /\ verifyAge' = Older(verifyAge)
    /\ stepAge' = IF teardown = "Idle" THEN stepAge ELSE Older(stepAge)
    /\ calls' = {}
    /\ UNCHANGED << cycle, teardown, wasV1, lastProxyClient, recoveredPending >>

Init ==
    /\ cycle = "SCAN_V1" /\ cycleAge = Never
    /\ attemptAge = Never /\ verifyAge = Never
    /\ teardown = "Idle" /\ stepAge = 0
    /\ wasV1 = FALSE /\ lastProxyClient = FALSE
    /\ recoveredPending = FALSE
    /\ calls = {}

UpdateStep == \E c \in Contexts : Update(c)

Next ==
    \/ UpdateStep
    \/ RecordObdRetryAttempt
    \/ RequestRecoveredSettingsAdmission
    \/ Tick

Spec == Init /\ [][Next]_vars

\* The drive loop keeps calling update and its clock keeps moving.
FairSpec == Spec /\ WF_vars(UpdateStep) /\ WF_vars(Tick)
----------------------------------------------------------------------------
(* Properties.                                                             *)

\* Every variable stays in its type: ages never pass the saturation bound.
TypeOK ==
    /\ cycle \in CycleStates
    /\ cycleAge \in Age /\ attemptAge \in Age /\ verifyAge \in Age
    /\ teardown \in TeardownSteps
    /\ stepAge \in 0..MaxAge
    /\ wasV1 \in BOOLEAN /\ lastProxyClient \in BOOLEAN
    /\ recoveredPending \in BOOLEAN
    /\ calls \subseteq LifecycleCalls

\* Settling, both OBD phases and the proxy window exist only on top of a live
\* V1 link: whatever order the link drops and returns in, update() never
\* leaves the coordinator in one of them with the V1 gone.
PhaseNeedsV1 ==
    cycle \in { "V1_SETTLING", "OBD_SCAN", "OBD_CONNECT", "OBD_SETTLED",
               "PROXY_OPEN" } => wasV1

\* A verify-push edge shortens only the settling it happened in: an edge left
\* from an earlier connection cycle is cleared before the next one settles.
VerifyEdgeIsThisCycles ==
    cycle = "V1_SETTLING" /\ verifyAge # Never => verifyAge <= cycleAge

\* While the coordinator holds an OBD phase the retry cadence is anchored at
\* the moment that phase began, so that a failed attempt is retried one whole
\* interval after it and not after some earlier attempt.
AttemptAnchored ==
    cycle \in { "OBD_SCAN", "OBD_CONNECT" } => attemptAge = cycleAge

\* The teardown step machine runs exactly while the phase is TEARDOWN: no phase
\* change leaves a step half done for the next teardown to resume.
TeardownStepOwned == cycle = "TEARDOWN" <=> teardown # "Idle"

\* No OBD phase follows a lost or absent V1 link, a proxy window or the steady
\* phase directly: the way there is a fresh settling of the V1 link.  The one
\* exception is the admission asked for by recovered settings, which settles
\* and may finish settling within one update.
NoShortcutToObd ==
    [][ ( /\ cycle \in { "SCAN_V1", "TEARDOWN", "PROXY_OPEN", "STEADY" }
          /\ ~recoveredPending )
        => cycle' \notin { "OBD_SCAN", "OBD_CONNECT", "OBD_SETTLED" } ]_vars

\* None of the phases that end by timeout or acknowledgement can absorb the
\* coordinator, not even under an endless stream of V1 events or a V1 link
\* that keeps flapping (the source says so of V1_SETTLING).
NoAbsorbingPhase ==
    \A s \in { "TEARDOWN", "V1_SETTLING", "OBD_SCAN", "OBD_SETTLED" } : []<>(cycle # s)

\* A V1 link that comes up during a teardown is noticed afterwards, although
\* its rising edge was consumed while the teardown ran: while the link is there
\* these two phases are left, and only for the settling.
AwaitsSettling == wasV1 /\ cycle \in { "TEARDOWN", "SCAN_V1" }
NewV1Settles ==
    /\ []<>~AwaitsSettling
    /\ [][ AwaitsSettling /\ wasV1' => AwaitsSettling' \/ cycle' = "V1_SETTLING" ]_vars

\* Both: the coordinator advances whatever the link does.
CycleAdvances == NoAbsorbingPhase /\ NewV1Settles
============================================================================
