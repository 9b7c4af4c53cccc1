----------------------- MODULE ConnectionCycleProofs -----------------------
(***************************************************************************)
(* Invariance proofs for ConnectionCycle: for every set of contexts the    *)
(* drive loop may sample and every choice of the timing configuration.     *)
(***************************************************************************)
EXTENDS ConnectionCycle, TLAPS

\* The phase a switch works on is well typed and belongs to a live V1 link.
Phase == [ state : CycleStates, age : 0..MaxAge, verify : Age ]

\* PostObd chooses between the two phases that follow the OBD phases.
LEMMA PostObdType == ASSUME NEW c PROVE PostObd(c) \in { "PROXY_OPEN", "STEADY" }
BY DEF PostObd

\* What Sampled returns in a well-typed state.
LEMMA SampledType ==
    ASSUME TypeOK, NEW c \in Context
    PROVE  Sampled(c) \in Phase
BY DurationsAssumption DEF TypeOK, Sampled, Phase, Age, CycleStates, Never

\* Entering a phase keeps the variables it writes in their types.
LEMMA EnterType ==
    ASSUME TypeOK, NEW p \in Phase, NEW target \in CycleStates, Enter(p, target)
    PROVE  /\ cycle' \in CycleStates
           /\ cycleAge' \in Age /\ attemptAge' \in Age /\ verifyAge' \in Age
           /\ teardown' \in TeardownSteps
           /\ stepAge' \in 0..MaxAge
BY DurationsAssumption
   DEF TypeOK, Enter, KeepsTeardownStep, Phase, Age, Never, TeardownSteps

\* So does remaining in one.
LEMMA RemainType ==
    ASSUME TypeOK, NEW p \in Phase, Remain(p)
    PROVE  /\ cycle' \in CycleStates
           /\ cycleAge' \in Age /\ attemptAge' \in Age /\ verifyAge' \in Age
           /\ teardown' \in TeardownSteps
           /\ stepAge' \in 0..MaxAge
BY DurationsAssumption
   DEF TypeOK, Remain, Phase, Age, Never, TeardownSteps

\* The switch preserves the types, whichever phase it is in.
LEMMA PhasesType ==
    ASSUME TypeOK, NEW c \in Context, NEW p \in Phase, Phases(c, p)
    PROVE  /\ cycle' \in CycleStates
           /\ cycleAge' \in Age /\ attemptAge' \in Age /\ verifyAge' \in Age
           /\ teardown' \in TeardownSteps
           /\ stepAge' \in 0..MaxAge
           /\ calls' \subseteq LifecycleCalls
<1>1. PostObd(c) \in CycleStates
  BY PostObdType DEF CycleStates
<1>2. CASE InScanV1(c, p)
  BY <1>2, EnterType, RemainType DEF InScanV1, OnV1Connected, MoveOrRemain, CycleStates
<1>3. CASE InV1Settling(c, p)
  BY <1>1, <1>3, EnterType, RemainType DEF InV1Settling, MoveOrRemain, CycleStates
<1>4. CASE InObdScan(c, p)
  BY <1>1, <1>4, EnterType, RemainType DEF InObdScan, CycleStates, LifecycleCalls
<1>5. CASE InObdConnect(c, p)
  BY <1>1, <1>5, EnterType, RemainType DEF InObdConnect, CycleStates, LifecycleCalls
<1>6. CASE InObdSettled(c, p)
  BY <1>1, <1>6, EnterType DEF InObdSettled
<1>7. CASE InProxyOpen(c, p)
  BY <1>7, EnterType, RemainType DEF InProxyOpen, MoveOrRemain, CycleStates, LifecycleCalls
<1>8. CASE InSteady(c, p)
  BY <1>8, EnterType, RemainType DEF InSteady, OnV1Connected, MoveOrRemain, CycleStates
<1>9. CASE InTeardown(c, p)
  <2>1. AfterTeardown \in CycleStates
    BY DEF AfterTeardown, CycleStates
  <2>2. CASE Enter(p, AfterTeardown) /\ calls' = {}
    BY <2>1, <2>2, EnterType
  <2>3. CASE Remain(p) /\ calls' = {}
    BY <2>3, RemainType
  <2>4. CASE /\ teardown' = "WaitProxyStop" /\ stepAge' = 0
             /\ cycle' = p.state /\ cycleAge' = p.age /\ verifyAge' = p.verify
             /\ UNCHANGED attemptAge
             /\ calls' = { "stopProxyAdvertising", "disconnectProxyPhones" }
    BY <2>4, DurationsAssumption
       DEF TypeOK, Phase, Age, Never, TeardownSteps, LifecycleCalls
  <2> QED BY <1>9, <2>2, <2>3, <2>4 DEF InTeardown
<1> QED
  BY <1>2, <1>3, <1>4, <1>5, <1>6, <1>7, <1>8, <1>9 DEF Phases

\* Every step of the coordinator keeps TypeOK.
LEMMA TypeStep == TypeOK /\ [Next]_vars => TypeOK'
<1> SUFFICES ASSUME TypeOK, [Next]_vars PROVE TypeOK'
  OBVIOUS
<1>1. CASE UpdateStep
  <2>1. PICK c \in Contexts : Update(c)
    BY <1>1 DEF UpdateStep
  <2>2. c \in Context
    BY ContextsAssumption
  <2>3. /\ wasV1' \in BOOLEAN /\ lastProxyClient' \in BOOLEAN
        /\ recoveredPending' \in BOOLEAN
    BY <2>1, <2>2 DEF Update, Context
  <2>4. CASE V1Dropped(c)
    BY <2>1, <2>3, <2>4, DurationsAssumption
       DEF Update, EnterTeardown, TypeOK, Age, Never, CycleStates,
           TeardownSteps, LifecycleCalls
  <2>5. CASE ~V1Dropped(c)
    <3>1. Phases(c, Sampled(c))
      BY <2>1, <2>5 DEF Update
    <3> QED BY <2>2, <2>3, <3>1, SampledType, PhasesType DEF TypeOK
  <2> QED BY <2>4, <2>5
<1>2. CASE RecordObdRetryAttempt
  BY <1>2, DurationsAssumption DEF RecordObdRetryAttempt, TypeOK, Age, Never
<1>3. CASE RequestRecoveredSettingsAdmission
  BY <1>3 DEF RequestRecoveredSettingsAdmission, TypeOK
<1>4. CASE Tick
  BY <1>4, DurationsAssumption DEF Tick, Older, TypeOK, Age, Never
<1>5. CASE UNCHANGED vars
  BY <1>5 DEF vars, TypeOK
<1> QED BY <1>1, <1>2, <1>3, <1>4, <1>5 DEF Next

\* TypeOK holds in every reachable state of the coordinator.
THEOREM TypeCorrect == Spec => []TypeOK
<1>1. Init => TypeOK
  <2>1. Never \in Age /\ 0 \in 0..MaxAge
    BY DurationsAssumption DEF Never, Age
  <2> QED BY <2>1 DEF Init, TypeOK, CycleStates, TeardownSteps
<1> QED BY <1>1, TypeStep, PTL DEF Spec
----------------------------------------------------------------------------
(* The safety invariants.  Only two of them need help: an anchored attempt  *)
(* rests on the phase having a valid entry time, which is invalid only      *)
(* before the first update.                                                 *)

EnteredUnlessFresh == cycleAge = Never => cycle = "SCAN_V1"

IInv ==
    /\ TypeOK
    /\ PhaseNeedsV1
    /\ VerifyEdgeIsThisCycles
    /\ AttemptAnchored
    /\ TeardownStepOwned
    /\ EnteredUnlessFresh

\* The phase Sampled returns inherits what the invariant says of the state.
LEMMA SampledPhase ==
    ASSUME IInv, NEW c \in Context, ~V1Dropped(c), NEW p, p = Sampled(c)
    PROVE  /\ p \in Phase
           /\ p.state \in { "V1_SETTLING", "OBD_SCAN", "OBD_CONNECT",
                            "OBD_SETTLED", "PROXY_OPEN" } => c.v1
           /\ p.state = "V1_SETTLING" /\ p.verify # Never => p.verify <= p.age
           /\ p.state \in { "OBD_SCAN", "OBD_CONNECT" } => attemptAge = p.age
           /\ p.state = "TEARDOWN" <=> teardown # "Idle"
<1>1. p \in Phase
  BY SampledType DEF IInv
<1>2. p = [ state |-> IF Readmits(c) THEN "V1_SETTLING" ELSE cycle,
            age |-> IF Readmits(c) \/ cycleAge = Never THEN 0 ELSE cycleAge,
            verify |-> IF c.verifyEdge THEN 0
                       ELSE IF Readmits(c) THEN Never ELSE verifyAge ]
  BY DEF Sampled
<1>3. CASE Readmits(c)
  <2>1. c.v1 /\ teardown = "Idle"
    BY <1>3 DEF Readmits, IInv, TeardownStepOwned
  <2>2. p.state = "V1_SETTLING" /\ p.age = 0 /\ p.verify \in { 0, Never }
    BY <1>2, <1>3
  <2> QED BY <1>1, <2>1, <2>2
<1>4. CASE ~Readmits(c)
  <2>1. /\ p.state = cycle
        /\ p.age = IF cycleAge = Never THEN 0 ELSE cycleAge
        /\ p.verify = IF c.verifyEdge THEN 0 ELSE verifyAge
    BY <1>2, <1>4
  <2>2. wasV1 /\ cycle \notin { "TEARDOWN", "SCAN_V1" } => c.v1
    BY DEF V1Dropped
  <2>3. cycle # "SCAN_V1" => cycleAge # Never /\ p.age = cycleAge
    BY <2>1 DEF IInv, EnteredUnlessFresh
  <2>4. p.age >= 0
    BY <1>1 DEF Phase
  <2> QED
    BY <1>1, <2>1, <2>2, <2>3, <2>4
       DEF IInv, PhaseNeedsV1, VerifyEdgeIsThisCycles, AttemptAnchored,
           TeardownStepOwned
<1> QED BY <1>3, <1>4

\* What one switch establishes, given the phase it starts from.
LEMMA PhasesInv ==
    ASSUME TypeOK, NEW c \in Context, NEW p \in Phase, Phases(c, p),
           wasV1' = c.v1,
           p.state \in { "V1_SETTLING", "OBD_SCAN", "OBD_CONNECT",
                         "OBD_SETTLED", "PROXY_OPEN" } => c.v1,
           p.state = "V1_SETTLING" /\ p.verify # Never => p.verify <= p.age,
           p.state \in { "OBD_SCAN", "OBD_CONNECT" } => attemptAge = p.age,
           p.state = "TEARDOWN" <=> teardown # "Idle"
    PROVE  /\ PhaseNeedsV1' /\ VerifyEdgeIsThisCycles' /\ AttemptAnchored'
           /\ TeardownStepOwned' /\ EnteredUnlessFresh'
<1> DEFINE Goal == /\ PhaseNeedsV1' /\ VerifyEdgeIsThisCycles'
                   /\ AttemptAnchored' /\ TeardownStepOwned' /\ EnteredUnlessFresh'
<1> USE DEF PhaseNeedsV1, VerifyEdgeIsThisCycles, AttemptAnchored,
            TeardownStepOwned, EnteredUnlessFresh
<1>1. p.age >= 0 /\ p.age # Never
  BY DEF Phase, Never
<1>2. CASE Remain(p)
  <2>1. cycle' = p.state /\ cycleAge' = p.age /\ verifyAge' = p.verify
    BY <1>2 DEF Remain
  <2>2. attemptAge' = attemptAge /\ teardown' = teardown
    BY <1>2 DEF Remain
  <2> QED BY <1>1, <2>1, <2>2
<1>3. ASSUME NEW t \in CycleStates \ { "TEARDOWN" }, Enter(p, t),
             t \in { "V1_SETTLING", "OBD_SCAN", "OBD_CONNECT",
                     "OBD_SETTLED", "PROXY_OPEN" } => c.v1,
             p.state = "TEARDOWN" => t = "SCAN_V1"
      PROVE  Goal
  <2>1. cycle' = t /\ cycleAge' = 0
    BY <1>3 DEF Enter
  <2>2. t = "V1_SETTLING" => verifyAge' = Never
    BY <1>3 DEF Enter, ForgetsVerifyEdge
  <2>3. t \in { "OBD_SCAN", "OBD_CONNECT" } => attemptAge' = 0
    BY <1>3 DEF Enter, RecordsObdAttempt
  <2>4. teardown' = "Idle"
    BY <1>3 DEF Enter, KeepsTeardownStep, CycleStates
  <2>5. 0 # Never
    BY DEF Never
  <2> QED BY <1>3, <2>1, <2>2, <2>3, <2>4, <2>5
<1>4. PostObd(c) \in { "PROXY_OPEN", "STEADY" }
  BY PostObdType
<1>5. CASE InScanV1(c, p)
  BY <1>2, <1>3, <1>5 DEF InScanV1, OnV1Connected, MoveOrRemain, CycleStates
<1>6. CASE InV1Settling(c, p)
  BY <1>2, <1>3, <1>4, <1>6 DEF InV1Settling, MoveOrRemain, CycleStates
<1>7. CASE InObdScan(c, p)
  BY <1>2, <1>3, <1>4, <1>7 DEF InObdScan, CycleStates
<1>8. CASE InObdConnect(c, p)
  BY <1>2, <1>3, <1>4, <1>8 DEF InObdConnect, CycleStates
<1>9. CASE InObdSettled(c, p)
  BY <1>3, <1>4, <1>9 DEF InObdSettled, CycleStates
<1>10. CASE InProxyOpen(c, p)
  BY <1>2, <1>3, <1>10 DEF InProxyOpen, MoveOrRemain, CycleStates
<1>11. CASE InSteady(c, p)
  BY <1>2, <1>3, <1>11 DEF InSteady, OnV1Connected, MoveOrRemain, CycleStates
<1>12. CASE InTeardown(c, p)
  <2>1. CASE Enter(p, AfterTeardown)
    BY <1>3, <2>1 DEF AfterTeardown, CycleStates
  <2>2. CASE cycle' = p.state /\ cycleAge' = p.age /\ teardown' = "WaitProxyStop"
    BY <1>1, <1>12, <2>2 DEF InTeardown
  <2> QED BY <1>2, <1>12, <2>1, <2>2 DEF InTeardown
<1> QED
  BY <1>5, <1>6, <1>7, <1>8, <1>9, <1>10, <1>11, <1>12 DEF Phases

\* The invariant holds initially ...
LEMMA InvInit == Init => IInv
<1>1. Never \in Age /\ 0 \in 0..MaxAge
  BY DurationsAssumption DEF Never, Age
<1>2. Init => TypeOK
  BY <1>1 DEF Init, TypeOK, CycleStates, TeardownSteps
<1> QED
  BY <1>2 DEF Init, IInv, PhaseNeedsV1, VerifyEdgeIsThisCycles,
              AttemptAnchored, TeardownStepOwned, EnteredUnlessFresh

\* ... and every step keeps it.
LEMMA InvStep == IInv /\ [Next]_vars => IInv'
<1> SUFFICES ASSUME IInv, [Next]_vars PROVE IInv'
  OBVIOUS
<1>1. TypeOK'
  BY TypeStep DEF IInv
<1>2. CASE UpdateStep
  <2>1. PICK c \in Contexts : Update(c)
    BY <1>2 DEF UpdateStep
  <2>2. c \in Context /\ wasV1' = c.v1
    BY <2>1, ContextsAssumption DEF Update
  <2>3. CASE V1Dropped(c)
    <3>1. cycle' = "TEARDOWN" /\ teardown' = "WaitObdStop" /\ cycleAge' = 0
      BY <2>1, <2>3 DEF Update, EnterTeardown
    <3> QED
      BY <1>1, <3>1 DEF IInv, PhaseNeedsV1, VerifyEdgeIsThisCycles,
                        AttemptAnchored, TeardownStepOwned,
                        EnteredUnlessFresh, Never
  <2>4. CASE ~V1Dropped(c)
    <3>1. Phases(c, Sampled(c))
      BY <2>1, <2>4 DEF Update
    <3>2. TypeOK
      BY DEF IInv
    <3> QED BY <1>1, <2>2, <2>4, <3>1, <3>2, SampledPhase, PhasesInv DEF IInv
  <2> QED BY <2>3, <2>4
<1>3. CASE RecordObdRetryAttempt
  <2>1. cycle \in { "PROXY_OPEN", "STEADY" }
    BY <1>3 DEF RecordObdRetryAttempt, ObdRetryAllowed
  <2> QED
    BY <1>1, <1>3, <2>1
       DEF RecordObdRetryAttempt, IInv, PhaseNeedsV1, VerifyEdgeIsThisCycles,
           AttemptAnchored, TeardownStepOwned, EnteredUnlessFresh
<1>4. CASE RequestRecoveredSettingsAdmission
  BY <1>1, <1>4
     DEF RequestRecoveredSettingsAdmission, IInv, PhaseNeedsV1,
         VerifyEdgeIsThisCycles, AttemptAnchored, TeardownStepOwned,
         EnteredUnlessFresh
<1>5. CASE Tick
  <2>1. /\ UNCHANGED << cycle, teardown, wasV1 >>
        /\ cycleAge' = Older(cycleAge) /\ verifyAge' = Older(verifyAge)
        /\ attemptAge' = Older(attemptAge)
    BY <1>5 DEF Tick
  <2>2. cycleAge \in -1..MaxAge /\ verifyAge \in -1..MaxAge
    BY DEF IInv, TypeOK, Age, Never
  <2>3. VerifyEdgeIsThisCycles'
    BY <2>1, <2>2, DurationsAssumption
       DEF IInv, VerifyEdgeIsThisCycles, Older, Never
  <2>4. AttemptAnchored' /\ TeardownStepOwned' /\ PhaseNeedsV1'
    BY <2>1 DEF IInv, AttemptAnchored, TeardownStepOwned, PhaseNeedsV1
  <2>5. EnteredUnlessFresh'
    BY <2>1, <2>2, DurationsAssumption
       DEF IInv, EnteredUnlessFresh, Older, Never
  <2> QED BY <1>1, <2>3, <2>4, <2>5 DEF IInv
<1>6. CASE UNCHANGED vars
  BY <1>6 DEF vars, IInv, TypeOK, PhaseNeedsV1, VerifyEdgeIsThisCycles,
              AttemptAnchored, TeardownStepOwned, EnteredUnlessFresh
<1> QED BY <1>2, <1>3, <1>4, <1>5, <1>6 DEF Next

\* Settling, the OBD phases and the proxy window only ever exist on a live V1
\* link, whatever contexts update() is given.
THEOREM PhaseNeedsV1Always == Spec => []PhaseNeedsV1
<1>1. IInv => PhaseNeedsV1
  BY DEF IInv
<1> QED BY InvInit, InvStep, <1>1, PTL DEF Spec

\* A verify-push edge never shortens the settling of a later connection cycle.
THEOREM VerifyEdgeAlways == Spec => []VerifyEdgeIsThisCycles
<1>1. IInv => VerifyEdgeIsThisCycles
  BY DEF IInv
<1> QED BY InvInit, InvStep, <1>1, PTL DEF Spec

\* The retry cadence is anchored at the start of the phase that attempted OBD.
THEOREM AttemptAnchoredAlways == Spec => []AttemptAnchored
<1>1. IInv => AttemptAnchored
  BY DEF IInv
<1> QED BY InvInit, InvStep, <1>1, PTL DEF Spec

\* No teardown step outlives the teardown it belongs to.
THEOREM TeardownStepOwnedAlways == Spec => []TeardownStepOwned
<1>1. IInv => TeardownStepOwned
  BY DEF IInv
<1> QED BY InvInit, InvStep, <1>1, PTL DEF Spec

\* Only a fresh settling, or the admission recovered settings ask for, leads
\* into the OBD phases.
THEOREM NoShortcutAlways == Spec => NoShortcutToObd
<1> DEFINE Before == /\ cycle \in { "SCAN_V1", "TEARDOWN", "PROXY_OPEN", "STEADY" }
                     /\ ~recoveredPending
           After == cycle' \notin { "OBD_SCAN", "OBD_CONNECT", "OBD_SETTLED" }
<1>1. [Next]_vars => [Before => After]_vars
  <2> SUFFICES ASSUME Next, Before PROVE After
    BY DEF vars
  <2>1. CASE UpdateStep
    <3>1. PICK c \in Contexts : Update(c)
      BY <2>1 DEF UpdateStep
    <3>2. CASE V1Dropped(c)
      BY <3>1, <3>2 DEF Update, EnterTeardown
    <3>3. CASE ~V1Dropped(c)
      <4>1. Phases(c, Sampled(c)) /\ Sampled(c).state = cycle
        BY <3>1, <3>3 DEF Update, Sampled, Readmits
      <4> QED
        BY <4>1 DEF Phases, InScanV1, InV1Settling, InObdScan, InObdConnect,
                    InObdSettled, InProxyOpen, InSteady, InTeardown,
                    OnV1Connected, MoveOrRemain, Remain, Enter, AfterTeardown
    <3> QED BY <3>2, <3>3
  <2>2. CASE RecordObdRetryAttempt \/ RequestRecoveredSettingsAdmission \/ Tick
    BY <2>2 DEF RecordObdRetryAttempt, RequestRecoveredSettingsAdmission, Tick
  <2> QED BY <2>1, <2>2 DEF Next
<1> QED BY <1>1, PTL DEF Spec, NoShortcutToObd
============================================================================
