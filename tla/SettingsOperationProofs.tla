----------------------- MODULE SettingsOperationProofs -----------------------
(***************************************************************************)
(* The durable detector operation is safe: one reset frame at most, a      *)
(* record that tells the truth, and no second writer; for any number of    *)
(* operations, executions, power losses and failed writes.                 *)
(*                                                                         *)
(* What carries the proof: a frame leaves its trace in RAM before the next *)
(* step of the loop, and a boot that lost RAM never runs the record again; *)
(* a recapture begins after the last write, so that what its session sends *)
(* from then on is fresh; and an execution only writes for a record that   *)
(* is running or has ended.                                                *)
(***************************************************************************)
EXTENDS SettingsOperation, FiniteSetTheorems, TLAPS

Early == { "PendingNormalBoot", "WaitingForDetector", "Preparing" }

(* Of a record r, its bookkeeping m, the device b, the session l, the      *)
(* execution p and the history h: they are what their types say, ...       *)
Typed(r, m, b, l, p, h) ==
    /\ r \in Snapshots /\ m \in Gates /\ b \in Boots /\ l \in Sessions
    /\ p \in Executions /\ h \in Latches
(* ... the record is one the store reads back, a recovery that is still to *)
(* be written down has not begun anything, ...                             *)
Sound(r, m) ==
    /\ Wellformed(r)
    /\ r.state # "None" <=> r.id # 0
    /\ m.observed <= r.id
    /\ m.started => m.boundary
Recovers(r, m, p) == m.pending => isActive(r) /\ ~p.active /\ m.observed = 0
(* ... only a running or a finished apply has an execution, ...            *)
Writes(r, p) ==
    p.active /\ requiresExclusiveDetectorAdmission(r) =>
        /\ p.op = r.id /\ r.kind # "reset"
        /\ r.state \in { "Running" } \cup Terminal
(* ... what RAM and the record say of a reset was acknowledged, ...        *)
Tells(r, m, l, h) ==
    r.kind = "reset" =>
        (m.sent \/ l.cmd = "done" \/ r.parts = "sent" => h.acked)
(* ... a frame was made for a reset that began, and a loop that may still  *)
(* run it knows of the frame, ...                                          *)
Once(r, m, b, h) ==
    h.frames # 0 =>
        /\ h.frames = 1 /\ r.kind = "reset" /\ r.state \notin Early
        /\ r.state = "Running" /\ b.mode = "drive" /\ b.loaded /\ ~m.pending =>
              m.observed = r.id /\ m.admitted # "no"
(* ... no frame flies while another operation is looked after, and success *)
(* rests on what was read last.                                            *)
Still(r, m, l) == r.kind # "reset" /\ m.observed = r.id => l.cmd = "idle"
Proven(r, h) == r.state = "Succeeded" => h.capture = "after"

Kept(r, m, b, l, p, h) ==
    /\ Typed(r, m, b, l, p, h) /\ Sound(r, m) /\ Recovers(r, m, p) /\ Writes(r, p)
    /\ Tells(r, m, l, h) /\ (Acknowledged => Once(r, m, b, h)) /\ Still(r, m, l)
    /\ Proven(r, h)

(* What a recapture that is being looked after will take for fresh, is.    *)
Recaptures(r, m, l) ==
    /\ r.kind # "reset" /\ r.state = "Recapturing" /\ m.observed = r.id
    /\ m.seen = "Recapturing" /\ l.peer = "target" /\ m.age < 2
Fresh(r, m, l) ==
    Recaptures(r, m, l) =>
        IF m.boundary THEN l.answered => l.obs = "after" ELSE l.obs # "before"
(* While the loop looks at the change of state, only a closed gate counts. *)
FreshGate(r, m, l) == m.gate = "done" \/ m.boundary => Fresh(r, m, l)

(* Outside the drive mode nothing of the loop is left.                     *)
Parked(m, b, l, p) ==
    b.mode # "drive" => /\ ~m.pending /\ ~m.sent /\ m.observed = 0
                        /\ l.peer = "none" /\ l.cmd = "idle" /\ ~p.active

IInv ==
    /\ Kept(rec, ram, boot, link, push, hist) /\ Fresh(rec, ram, link)
    /\ Parked(ram, boot, link, push) /\ trouble \in 0..MaxTrouble
-----------------------------------------------------------------------------
(* Records, field by field.                                                *)

\* Is: n is r but for its state and reason.
Is(n, r, state, reason) ==
    /\ n \in Snapshots
    /\ n.id = r.id /\ n.kind = r.kind /\ n.state = state /\ n.reason = reason
    /\ n.ret = r.ret /\ n.exec = r.exec /\ n.parts = r.parts
\* ToMoves: To and Finished change the state and the reason.
LEMMA ToMoves ==
  ASSUME NEW r \in Snapshots, NEW state \in Active \cup Terminal, NEW reason \in Reasons
  PROVE  Is(To(r, state, reason), r, state, reason)
         /\ Finished(r, state, reason) = To(r, state, reason)
BY DEF To, Finished, Snapshots, Is

\* Has: n is r but for its components and execution.
Has(n, r, parts, exec) ==
    /\ n \in Snapshots
    /\ n.id = r.id /\ n.kind = r.kind /\ n.state = r.state /\ n.reason = r.reason
    /\ n.ret = r.ret /\ n.exec = exec /\ n.parts = parts
LEMMA PartsSet ==
  ASSUME NEW r \in Snapshots, NEW parts \in PartStates, NEW exec \in 0..MaxPush
  PROVE  Has(WithParts(r, parts, exec), r, parts, exec)
BY DEF WithParts, Snapshots, Has

\* StoredIs: the record is replaced as a whole, by one that reads back.
LEMMA StoredIs ==
  ASSUME NEW o, NEW n, NEW ok
  PROVE  \/ Stored(o, n, ok) = o
         \/ Stored(o, n, ok) = n /\ Wellformed(n) /\ ok
BY DEF Stored

\* TokensSpent: the failures of a step stay below their bound.
LEMMA TokensSpent ==
  ASSUME trouble \in 0..MaxTrouble, NEW oks, NEW n \in Nat, DOMAIN oks = 1..n, Spends(oks)
  PROVE  trouble' \in 0..MaxTrouble
<1>1. Failures(oks) \in Nat
  <2>1. IsFiniteSet(1..n)
    BY FS_Interval
  <2> QED BY <2>1, FS_Subset, FS_CardinalityType DEF Failures
<1> QED BY <1>1, BoundAssumption DEF Spends

\* OneSpent, TwoSpent, FourSpent: the forms the steps use.
LEMMA OneSpent ==
  ASSUME trouble \in 0..MaxTrouble, NEW a, Spends(<< a >>)
  PROVE  trouble' \in 0..MaxTrouble
<1>1. DOMAIN << a >> = 1..1
  OBVIOUS
<1> QED BY <1>1, TokensSpent
LEMMA TwoSpent ==
  ASSUME trouble \in 0..MaxTrouble, NEW a, NEW b, Spends(<< a, b >>)
  PROVE  trouble' \in 0..MaxTrouble
<1>1. DOMAIN << a, b >> = 1..2
  OBVIOUS
<1> QED BY <1>1, TokensSpent
LEMMA ThreeSpent ==
  ASSUME trouble \in 0..MaxTrouble, NEW a, NEW b, NEW c, Spends(<< a, b, c >>)
  PROVE  trouble' \in 0..MaxTrouble
<1>1. DOMAIN << a, b, c >> = 1..3
  OBVIOUS
<1> QED BY <1>1, TokensSpent
LEMMA FourSpent ==
  ASSUME trouble \in 0..MaxTrouble, NEW a, NEW b, NEW c, NEW d, Spends(<< a, b, c, d >>)
  PROVE  trouble' \in 0..MaxTrouble
<1>1. DOMAIN << a, b, c, d >> = 1..4
  OBVIOUS
<1> QED BY <1>1, TokensSpent

\* AnyInit: the invariant holds at the start.
LEMMA AnyInit == Init => IInv
<1> SUFFICES ASSUME Init PROVE IInv
  OBVIOUS
<1>1. Typed(rec, ram, boot, link, push, hist)
  BY BoundAssumption
  DEF Init, NoRecord, NoHistory, FreshRam, NoLink, IdlePush, Typed, Snapshots, Gates, Boots,
      Sessions, Executions, Latches, Active, Terminal, Reasons, BeforeSend, PartStates, Results
<1>2. /\ rec.id = 0 /\ rec.kind = "none" /\ rec.state = "None" /\ rec.exec = 0
      /\ ~ram.pending /\ ram.observed = 0 /\ ~ram.sent /\ ~ram.started /\ link.peer = "none"
      /\ link.cmd = "idle" /\ ~push.active /\ hist.frames = 0 /\ trouble = 0
  BY DEF Init, NoRecord, NoHistory, FreshRam, NoLink, IdlePush
<1> QED
  BY <1>1, <1>2, BoundAssumption
  DEF IInv, Kept, Sound, Wellformed, BeganReset, Recovers, Writes, Tells, Once, Still, Proven,
      Fresh, Recaptures, Parked, Active, Terminal
-----------------------------------------------------------------------------
(* Links and power.                                                        *)

\* Keeps: the bookkeeping n is m, as far as the operation goes.
Keeps(n, m) ==
    /\ n \in Gates
    /\ n.pending = m.pending /\ n.observed = m.observed /\ n.seen = m.seen /\ n.age = m.age
    /\ n.boundary = m.boundary /\ n.started = m.started /\ n.sent = m.sent
    /\ n.saved = m.saved
    /\ m.admitted # "no" => n.admitted # "no"

\* LinkLostKeeps: a lost link takes the freshness and the frame.
LEMMA LinkLostKeeps ==
  ASSUME NEW m \in Gates
  PROVE  Keeps(LinkLost(m), m) /\ LinkLost(m).gate = "unset"
BY DEF LinkLost, Gates, Keeps

\* LostEnds: and the execution.
LEMMA LostEnds ==
  ASSUME NEW p \in Executions
  PROVE  /\ Lost(p) \in Executions /\ ~Lost(p).active /\ Lost(p).id = p.id /\ Lost(p).op = p.op
         /\ Lost(p).parts \in PartStates
BY DEF Lost, Executions, PartStates, Results

\* NoLinkIs, FreshRamIs, IdlePushIs: what a device that starts has.
LEMMA NoLinkIs ==
  /\ NoLink \in Sessions /\ NoLink.peer = "none" /\ NoLink.cmd = "idle" /\ NoLink.obs = "none"
  /\ NoLink.answered = FALSE /\ NoLink.followup = FALSE
BY DEF NoLink, Sessions
LEMMA FreshRamIs ==
  /\ FreshRam \in Gates /\ FreshRam.pending = FALSE /\ FreshRam.observed = 0
  /\ FreshRam.sent = FALSE /\ FreshRam.started = FALSE /\ FreshRam.boundary = FALSE
  /\ FreshRam.gate = "unset" /\ FreshRam.age = 0 /\ FreshRam.admitted = "no"
BY BoundAssumption DEF FreshRam, Gates
LEMMA IdlePushIs == IdlePush \in Executions /\ IdlePush.active = FALSE
BY BoundAssumption DEF IdlePush, Executions, PartStates, Results

\* What a record must be for a device that has nothing else.
Recorded(r, h) ==
    /\ r \in Snapshots /\ h \in Latches /\ Wellformed(r) /\ (r.state # "None" <=> r.id # 0)
    /\ r.kind = "reset" /\ r.parts = "sent" => h.acked
    /\ Acknowledged /\ h.frames # 0 => h.frames = 1 /\ r.kind = "reset" /\ r.state \notin Early
    /\ Proven(r, h)

\* KeptRecorded: the record always is that.
LEMMA KeptRecorded ==
  ASSUME NEW r, NEW m, NEW b, NEW l, NEW p, NEW h, Kept(r, m, b, l, p, h)
  PROVE  Recorded(r, h)
BY DEF Kept, Typed, Sound, Tells, Once, Recorded

\* SwitchedOff: a device that switches off keeps the record.
LEMMA SwitchedOff ==
  ASSUME RamLost, boot' \in Boots, boot'.mode = "off", Recorded(rec', hist'),
         trouble' \in 0..MaxTrouble
  PROVE  IInv'
<1>1. /\ ram' \in Gates /\ ~ram'.pending /\ ram'.observed = 0 /\ ~ram'.sent /\ ~ram'.started
      /\ link' \in Sessions /\ link'.peer = "none" /\ link'.cmd = "idle"
      /\ push' \in Executions /\ ~push'.active
  BY FreshRamIs, NoLinkIs, IdlePushIs DEF RamLost
<1>2. rec'.id \in Nat
  BY BoundAssumption DEF Recorded, Snapshots
<1> QED
  BY <1>1, <1>2
  DEF IInv, Kept, Typed, Sound, Recovers, Writes, Tells, Once, Still, Fresh, Recaptures, Parked,
      Recorded

\* PowerOffIs: what PowerOff makes of the device.
LEMMA PowerOffIs ==
  ASSUME boot \in Boots, NEW request \in BOOLEAN, PowerOff(request)
  PROVE  boot' \in Boots /\ boot'.mode = "off"
BY DEF PowerOff, Boots

\* Connects: a session begins without freshness.
LEMMA Connects ==
  ASSUME IInv, NEW peer \in { "target", "other" }, Connect(peer)
  PROVE  IInv'
<1> DEFINE l == [ NoLink EXCEPT !.peer = peer, !.followup = TRUE ]
<1>1. /\ l \in Sessions /\ l.peer = peer /\ l.cmd = "idle" /\ l.obs = "none" /\ ~l.answered
  BY DEF NoLink, Sessions
<1>2. link' = l /\ boot.mode = "drive" /\ UNCHANGED << rec, boot, ram, push, hist, trouble >>
  BY DEF Connect, Driving
<1> HIDE DEF l
<1> QED
  BY <1>1, <1>2
  DEF IInv, Kept, Typed, Sound, Recovers, Writes, Tells, Once, Still, Proven, Fresh, Recaptures,
      Parked

\* Leaves: a session that ends takes its frame, its freshness and its execution.
LEMMA Leaves ==
  ASSUME NEW r, NEW m, Kept(r, m, boot, link, push, hist), NEW n, Keeps(n, m), boot.mode = "drive",
         trouble \in 0..MaxTrouble,
         rec' = r, ram' = n, link' = NoLink, push' \in { push, Lost(push) },
         UNCHANGED << boot, hist, trouble >>
  PROVE  IInv'
<1>1. push \in Executions /\ push' \in Executions /\ (push'.active => push' = push)
  BY LostEnds DEF Kept, Typed
<1> QED
  BY <1>1, NoLinkIs
  DEF IInv, Kept, Typed, Sound, Recovers, Writes, Tells, Once, Still, Proven, Fresh, Recaptures,
      Parked, Keeps
LEMMA Disconnects ==
  ASSUME IInv, Disconnect
  PROVE  IInv'
BY Leaves, LinkLostKeeps DEF IInv, Kept, Typed, Disconnect, Driving

\* Observes: what is observed is the latest.
LEMMA Observes ==
  ASSUME IInv, Observe
  PROVE  IInv'
<1> DEFINE l == [ link EXCEPT !.obs = "after", !.answered = TRUE ]
<1>1. link \in Sessions
  BY DEF IInv, Kept, Typed
<1>2. l \in Sessions /\ l.peer = link.peer /\ l.cmd = link.cmd /\ l.obs = "after"
  BY <1>1 DEF Sessions
<1>3. link' = l /\ boot.mode = "drive" /\ UNCHANGED << rec, boot, ram, push, hist, trouble >>
  BY DEF Observe, Driving
<1> HIDE DEF l
<1> QED
  BY <1>2, <1>3
  DEF IInv, Kept, Typed, Sound, Recovers, Writes, Tells, Once, Still, Proven, Fresh, Recaptures,
      Parked

\* Answers: only a reset has a frame in flight.
LEMMA Answers ==
  ASSUME IInv, CommandAnswered
  PROVE  IInv'
<1> DEFINE l == [ link EXCEPT !.cmd = "done", !.obs = IF @ = "none" THEN @ ELSE "before" ]
           h == [ hist EXCEPT !.acked = TRUE ]
<1>1. link \in Sessions /\ hist \in Latches
  BY DEF IInv, Kept, Typed
<1>2. l \in Sessions /\ l.peer = link.peer
  BY <1>1 DEF Sessions
<1>3. h \in Latches /\ h.acked /\ h.frames = hist.frames /\ h.capture = hist.capture
  BY <1>1 DEF Latches
<1>4. /\ link' = l /\ hist' = h /\ link.cmd = "flight" /\ boot.mode = "drive"
      /\ UNCHANGED << rec, boot, ram, push, trouble >>
  BY DEF CommandAnswered, Driving
<1> HIDE DEF l, h
<1> QED
  BY <1>2, <1>3, <1>4
  DEF IInv, Kept, Typed, Sound, Recovers, Writes, Tells, Once, Still, Proven, Fresh, Recaptures,
      Parked

\* LosesPower: a power loss leaves the record.
LEMMA LosesPower ==
  ASSUME IInv, PowerLoss
  PROVE  IInv'
<1>1. boot \in Boots /\ Recorded(rec, hist) /\ trouble \in 0..MaxTrouble
  BY KeptRecorded DEF IInv, Kept, Typed
<1>2. boot' \in Boots /\ boot'.mode = "off"
  <2>1. PICK no \in BOOLEAN : ~no
    OBVIOUS
  <2>2. boot' = [ boot EXCEPT !.mode = "off", !.loaded = no, !.losses = @ + 1 ]
        /\ boot.losses < MaxBoots
    BY <2>1 DEF PowerLoss
  <2>3. boot.losses + 1 \in 0..MaxBoots
    BY <1>1, <2>2, BoundAssumption DEF Boots
  <2> QED BY <1>1, <2>1, <2>2, <2>3 DEF Boots
<1> QED BY <1>1, <1>2, SwitchedOff DEF PowerLoss

\* LeavesMaintenance: and so does a restart.
LEMMA LeavesMaintenance ==
  ASSUME IInv, LeaveMaintenance
  PROVE  IInv'
<1>1. boot \in Boots /\ Recorded(rec, hist) /\ trouble \in 0..MaxTrouble
  BY KeptRecorded DEF IInv, Kept, Typed
<1>2. boot' \in Boots /\ boot'.mode = "off"
  BY <1>1, PowerOffIs DEF LeaveMaintenance
<1> QED BY <1>1, <1>2, SwitchedOff DEF LeaveMaintenance

\* Writing: the executor writes for a record that runs or has ended.
LEMMA Writing ==
  ASSUME IInv, PushWrites
  PROVE  IInv'
<1> DEFINE l == [ link EXCEPT !.obs = IF @ = "none" THEN @ ELSE "before" ]
           p == [ push EXCEPT !.parts = "sent" ]
<1>1. link \in Sessions /\ push \in Executions
  BY DEF IInv, Kept, Typed
<1>2. l \in Sessions /\ l.peer = link.peer /\ l.cmd = link.cmd
  BY <1>1 DEF Sessions
<1>3. p \in Executions /\ p.active = push.active /\ p.op = push.op
  BY <1>1 DEF Executions, PartStates
<1>4. /\ link' = l /\ push' = p /\ push.active /\ boot.mode = "drive"
      /\ UNCHANGED << rec, boot, ram, hist, trouble >>
  BY DEF PushWrites, Driving
<1> HIDE DEF l, p
<1> QED
  BY <1>2, <1>3, <1>4
  DEF IInv, Kept, Typed, Sound, Recovers, Writes, Tells, Once, Still, Proven, Fresh, Recaptures,
      Parked, requiresExclusiveDetectorAdmission, isActive, Active, Terminal

\* Ended: its end changes nothing else.
LEMMA Ended ==
  ASSUME IInv, NEW result \in { "Succeeded", "Partial", "Failed", "BoxFailed" }, PushEnds(result)
  PROVE  IInv'
<1>1. push \in Executions
  BY DEF IInv, Kept, Typed
<1>2. push' \in Executions /\ push'.active = FALSE
  BY <1>1 DEF PushEnds, Executions, PartStates, Results
<1>3. boot.mode = "drive" /\ UNCHANGED << rec, boot, ram, link, hist, trouble >>
  BY DEF PushEnds, Driving
<1> QED
  BY <1>2, <1>3
  DEF IInv, Kept, Typed, Sound, Recovers, Writes, Tells, Once, Still, Proven, Fresh, Recaptures,
      Parked

\* Ageing: time only passes for the operation that is looked after.
LEMMA Ageing ==
  ASSUME IInv, Ages \/ ReturnDue
  PROVE  IInv'
<1>1. ram \in Gates /\ rec.id \in Nat /\ (isActive(rec) => rec.id # 0)
  BY BoundAssumption DEF IInv, Kept, Typed, Sound, Snapshots, isActive, Active
<1>2. ram' \in Gates /\ ram'.age >= ram.age
      /\ ram'.pending = ram.pending /\ ram'.observed = ram.observed /\ ram'.seen = ram.seen
      /\ ram'.boundary = ram.boundary /\ ram'.started = ram.started /\ ram'.sent = ram.sent
      /\ ram'.admitted = ram.admitted
  <2>1. CASE Ages
    BY <1>1, <2>1 DEF Ages, Gates
  <2>2. CASE ReturnDue
    <3>1. PICK no \in BOOLEAN : ~no
      OBVIOUS
    <3>2. ram' = [ ram EXCEPT !.armed = no ]
      BY <2>2, <3>1 DEF ReturnDue
    <3>3. ram.age >= ram.age
      BY <1>1 DEF Gates
    <3> QED BY <1>1, <3>1, <3>2, <3>3 DEF Gates
  <2> QED BY <2>1, <2>2
<1>3. ram.age \in 0..2 /\ ram'.age \in 0..2
  BY <1>1, <1>2 DEF Gates
<1>4. boot.mode = "drive" /\ UNCHANGED << rec, boot, link, push, hist, trouble >>
  BY DEF Ages, ReturnDue, Driving
<1> QED
  BY <1>1, <1>2, <1>3, <1>4
  DEF IInv, Kept, Typed, Sound, Recovers, Writes, Tells, Once, Still, Proven, Fresh, Recaptures,
      Parked
-----------------------------------------------------------------------------
(* Starts and records.                                                     *)

\* NoReturn: the return intent is consumed.
LEMMA NoReturn ==
  ASSUME NEW r \in Snapshots
  PROVE  LET n == [ r EXCEPT !.ret = FALSE ] IN
         /\ n \in Snapshots /\ ~n.ret /\ n.id = r.id /\ n.kind = r.kind /\ n.state = r.state
         /\ n.reason = r.reason /\ n.exec = r.exec /\ n.parts = r.parts
<1>1. PICK no \in BOOLEAN : ~no
  OBVIOUS
<1>2. [ r EXCEPT !.ret = FALSE ] = [ r EXCEPT !.ret = no ]
  BY <1>1
<1> QED BY <1>1, <1>2 DEF Snapshots

\* RecordedAlike: what a record is does not depend on the return intent.
LEMMA RecordedAlike ==
  ASSUME NEW r, NEW h, Recorded(r, h), NEW n \in Snapshots,
         n.id = r.id, n.kind = r.kind, n.state = r.state, n.reason = r.reason,
         n.exec = r.exec, n.parts = r.parts
  PROVE  Recorded(n, h)
BY DEF Recorded, Wellformed, BeganReset, Proven

\* RecoveryIs: what the record of the last boot becomes.
LEMMA RecoveryIs ==
  ASSUME NEW r, NEW h, Recorded(r, h)
  PROVE  /\ Recorded(NormalBoot(r), h) /\ NormalBoot(r).id = r.id
         /\ NormalBoot(r).kind = r.kind /\ NormalBoot(r).ret = r.ret
         /\ NormalBoot(r).parts = r.parts
         /\ NormalBoot(r).state \notin { "Running", "Preparing", "PendingNormalBoot" }
         /\ isTerminal(r) => NormalBoot(r) = r
         /\ isActive(NormalBoot(r)) => isActive(r)
         /\ NormalBoot(r).state = "WaitingForDetector" => r.state = "PendingNormalBoot"
         /\ NormalBoot(r).state = "Recapturing" => r.state = "Running"
<1>1. r \in Snapshots
  BY DEF Recorded
<1>2. CASE r.state = "PendingNormalBoot"
  <2> DEFINE t == To(r, "WaitingForDetector", "None")
             n == [ t EXCEPT !.exec = 0 ]
  <2>1. Is(t, r, "WaitingForDetector", "None")
    BY <1>1, ToMoves DEF Active, Reasons
  <2> HIDE DEF t
  <2>2. PICK zero \in 0..MaxPush : zero = 0
    BY BoundAssumption
  <2>3. n = [ t EXCEPT !.exec = zero ]
    BY <2>2
  <2>4. /\ n \in Snapshots /\ n.id = r.id /\ n.kind = r.kind /\ n.state = "WaitingForDetector"
        /\ n.reason = "None" /\ n.ret = r.ret /\ n.exec = 0 /\ n.parts = r.parts
    BY <2>1, <2>2, <2>3 DEF Is, Snapshots
  <2>5. NormalBoot(r) = n
    BY <1>2 DEF NormalBoot, t
  <2> HIDE DEF n
  <2> QED
    BY <1>2, <2>4, <2>5
    DEF Recorded, Wellformed, BeganReset, Proven, isActive, isTerminal, Active, Terminal, Early
<1>3. CASE r.state \in { "WaitingForDetector", "Preparing" }
  <2>1. NormalBoot(r) = To(r, "Failed", "Interrupted")
    BY <1>3 DEF NormalBoot
  <2>2. Is(NormalBoot(r), r, "Failed", "Interrupted")
    BY <1>1, <2>1, ToMoves DEF Terminal, Reasons, BeforeSend
  <2> QED
    BY <1>3, <2>2
    DEF Is, Recorded, Wellformed, BeganReset, BeforeSend, Proven, isActive, isTerminal, Active,
        Terminal, Early
<1>4. CASE r.state = "Running"
  <2>1. NormalBoot(r) = To(r, "Recapturing", "Interrupted")
    BY <1>4 DEF NormalBoot
  <2>2. Is(NormalBoot(r), r, "Recapturing", "Interrupted")
    BY <1>1, <2>1, ToMoves DEF Active, Reasons, BeforeSend
  <2> QED
    BY <1>4, <2>2
    DEF Is, Recorded, Wellformed, BeganReset, BeforeSend, Proven, isActive, isTerminal, Active,
        Terminal, Early
<1>5. CASE r.state = "Recapturing"
  <2>1. NormalBoot(r) = To(r, "Partial", "Interrupted")
    BY <1>5 DEF NormalBoot
  <2>2. Is(NormalBoot(r), r, "Partial", "Interrupted")
    BY <1>1, <2>1, ToMoves DEF Terminal, Reasons, BeforeSend
  <2> QED
    BY <1>5, <2>2
    DEF Is, Recorded, Wellformed, BeganReset, BeforeSend, Proven, isActive, isTerminal, Active,
        Terminal, Early
<1>6. CASE r.state \in Terminal \cup { "None" }
  <2>1. NormalBoot(r) = r
    BY <1>6 DEF NormalBoot, Terminal
  <2> QED
    BY <1>6, <2>1 DEF Recorded, isActive, isTerminal, Active, Terminal
<1>7. r.state \in Active \cup Terminal \cup { "None" }
  BY <1>1 DEF Snapshots
<1> QED BY <1>2, <1>3, <1>4, <1>5, <1>6, <1>7 DEF Active

\* Starts: a boot recovers the record, or remembers that it must.
LEMMA Starts ==
  ASSUME IInv, Boot
  PROVE  IInv'
<1>1. /\ Recorded(rec, hist) /\ boot \in Boots /\ link \in Sessions /\ push \in Executions
      /\ trouble \in 0..MaxTrouble /\ rec.id \in Nat /\ rec \in Snapshots
  <2>1. Recorded(rec, hist)
    BY KeptRecorded DEF IInv
  <2>2. /\ boot \in Boots /\ link \in Sessions /\ push \in Executions /\ rec \in Snapshots
        /\ trouble \in 0..MaxTrouble
    BY DEF IInv, Kept, Typed
  <2> QED BY <2>1, <2>2, BoundAssumption DEF Snapshots
<1>2. boot.mode = "off" /\ link.peer = "none" /\ link.cmd = "idle" /\ ~push.active
  BY DEF IInv, Parked, Boot
<1>3. UNCHANGED << link, push, hist >>
  BY DEF Boot
<1>4. PICK read \in BOOLEAN, ok \in BOOLEAN :
        /\ Spends(<< read, ok >>)
        /\ boot' = [ boot EXCEPT !.mode = IF boot.request THEN "maintenance" ELSE "drive",
                                 !.loaded = read, !.request = FALSE ]
        /\ rec' = IF ~read THEN rec
                  ELSE IF boot.request
                       THEN IF isTerminal(rec) THEN Stored(rec, [ rec EXCEPT !.ret = FALSE ], ok) ELSE rec
                       ELSE Stored(rec, NormalBoot(rec), ok)
        /\ ram' = [ FreshRam EXCEPT !.pending = ~boot.request /\ read /\ rec.id # 0 /\ ~MayBoot(rec, ok) ]
  BY DEF Boot
<1>5. trouble' \in 0..MaxTrouble
  BY <1>1, <1>4, TwoSpent
<1>6. /\ boot' \in Boots /\ boot'.mode = (IF boot.request THEN "maintenance" ELSE "drive")
      /\ boot'.loaded = read
  <2>1. PICK no \in BOOLEAN : no = FALSE
    OBVIOUS
  <2> DEFINE mode == IF boot.request THEN "maintenance" ELSE "drive"
  <2>2. boot' = [ boot EXCEPT !.mode = mode, !.loaded = read, !.request = no ]
        /\ mode \in { "off", "drive", "maintenance" }
    BY <1>4, <2>1
  <2> HIDE DEF mode
  <2>3. boot' \in Boots /\ boot'.mode = mode /\ boot'.loaded = read
    BY <1>1, <1>4, <2>1, <2>2 DEF Boots
  <2> QED BY <2>3 DEF mode
<1> DEFINE X == ~boot.request /\ read /\ rec.id # 0 /\ ~MayBoot(rec, ok)
<1>7. /\ ram' \in Gates /\ ram'.observed = 0 /\ ~ram'.sent /\ ~ram'.started
      /\ ram'.pending = X
  <2>1. PICK x \in BOOLEAN : x <=> X
    OBVIOUS
  <2>2. ram' = [ FreshRam EXCEPT !.pending = x ]
    BY <1>4, <2>1
  <2>3. ram' \in Gates /\ ram'.pending = x /\ ram'.observed = 0 /\ ~ram'.sent /\ ~ram'.started
    BY <2>1, <2>2, FreshRamIs DEF Gates
  <2> QED BY <2>1, <2>3
<1>8. Recorded(rec', hist) /\ rec'.id = rec.id
  <2>1. Recorded([ rec EXCEPT !.ret = FALSE ], hist) /\ [ rec EXCEPT !.ret = FALSE ].id = rec.id
    BY <1>1, NoReturn, RecordedAlike
  <2>2. Recorded(NormalBoot(rec), hist) /\ NormalBoot(rec).id = rec.id
    BY <1>1, RecoveryIs
  <2>3. rec' \in { rec, [ rec EXCEPT !.ret = FALSE ], NormalBoot(rec) }
    BY <1>4, StoredIs
  <2> QED BY <1>1, <2>1, <2>2, <2>3
<1>9. X => isActive(rec) /\ rec' = rec
  BY <1>1, <1>4, StoredIs DEF MayBoot, Recorded, isActive, isTerminal, Snapshots
<1>10. ~boot.request /\ read /\ ~X => rec'.state # "Running"
  <2> SUFFICES ASSUME ~boot.request, read, ~X PROVE rec'.state # "Running"
    OBVIOUS
  <2>1. rec' = Stored(rec, NormalBoot(rec), ok)
    BY <1>4
  <2>2. Wellformed(NormalBoot(rec)) /\ NormalBoot(rec).state # "Running"
    BY <1>1, RecoveryIs DEF Recorded
  <2>3. CASE ok
    BY <2>1, <2>2, <2>3 DEF Stored
  <2>4. CASE ~ok
    <3>1. rec.id = 0 \/ isTerminal(rec)
      BY <2>4, <1>1 DEF MayBoot, Recorded
    <3>2. rec' = rec
      BY <2>1, <2>4 DEF Stored
    <3> QED BY <1>1, <3>1, <3>2 DEF Recorded, isTerminal, Terminal
  <2> QED BY <2>3, <2>4
<1>11. boot'.mode = "drive" /\ boot'.loaded /\ ~ram'.pending => rec'.state # "Running"
  BY <1>6, <1>7, <1>10
<1>12. ram'.pending => isActive(rec')
  BY <1>7, <1>9
<1>13. boot'.mode # "drive" => ~ram'.pending
  BY <1>1, <1>6, <1>7 DEF Boots
<1>14. rec'.id \in Nat
  BY <1>1, <1>8
<1> HIDE DEF X
<1> QED
  BY <1>2, <1>3, <1>5, <1>6, <1>7, <1>8, <1>1, <1>11, <1>12, <1>13, <1>14
  DEF IInv, Kept, Typed, Sound, Recovers, Writes, Tells, Once, Still, Fresh, Recaptures, Parked,
      Recorded, Early

\* NewRecordIs: a new record has asked for nothing yet.
LEMMA NewRecordIs ==
  ASSUME rec \in Snapshots, rec.id < MaxOperation, NEW kind \in { "apply", "reset" },
         NEW state \in { "PendingNormalBoot", "WaitingForDetector" }, NEW ret \in BOOLEAN
  PROVE  LET n == NewRecord(kind, state, ret) IN
         /\ n \in Snapshots /\ n.id = rec.id + 1 /\ n.kind = kind /\ n.state = state
         /\ n.reason = "None" /\ n.ret = ret /\ n.exec = 0 /\ n.parts = "none"
<1>1. rec.id + 1 \in 0..MaxOperation
  BY BoundAssumption DEF Snapshots
<1>2. /\ NoRecord \in Snapshots /\ NoRecord.reason = "None" /\ NoRecord.exec = 0
      /\ NoRecord.parts = "none"
  BY BoundAssumption DEF NoRecord, Snapshots, Reasons, PartStates
<1>3. NewRecord(kind, state, ret)
        = [ [ NoRecord EXCEPT !.id = rec.id + 1, !.kind = kind ] EXCEPT !.state = state, !.ret = ret ]
  BY DEF NewRecord
<1> DEFINE a == [ NoRecord EXCEPT !.id = rec.id + 1, !.kind = kind ]
<1>4. /\ a \in Snapshots /\ a.id = rec.id + 1 /\ a.kind = kind /\ a.reason = "None" /\ a.exec = 0
      /\ a.parts = "none"
  BY <1>1, <1>2 DEF Snapshots
<1>5. state \in Active \cup Terminal \cup { "None" }
  BY DEF Active
<1> HIDE DEF a
<1>6. NewRecord(kind, state, ret) = [ a EXCEPT !.state = state, !.ret = ret ]
  BY <1>3 DEF a
<1> QED BY <1>4, <1>5, <1>6 DEF Snapshots

\* NoHistoryIs: nothing has happened to a new operation.
LEMMA NoHistoryIs ==
  NoHistory \in Latches /\ NoHistory.frames = 0 /\ NoHistory.acked = FALSE
BY DEF NoHistory, Latches

\* AsksFor: the record of a request precedes the restart.
LEMMA AsksFor ==
  ASSUME IInv, NEW kind \in { "apply", "reset" }, StartFromUi(kind)
  PROVE  IInv'
<1>1. rec \in Snapshots /\ boot \in Boots /\ trouble \in 0..MaxTrouble /\ rec.id \in Nat
  BY BoundAssumption DEF IInv, Kept, Typed, Snapshots
<1>2. rec.id < MaxOperation
  BY DEF StartFromUi, MayStart
<1>3. PICK ok \in BOOLEAN :
        /\ Spends(<< ok >>)
        /\ IF ok
           THEN /\ rec' = NewRecord(kind, "PendingNormalBoot", TRUE)
                /\ hist' = NoHistory /\ PowerOff(FALSE) /\ RamLost
           ELSE UNCHANGED << rec, hist, boot, ram, link, push >>
  BY DEF StartFromUi
<1>4. trouble' \in 0..MaxTrouble
  BY <1>1, <1>3, OneSpent
<1>5. CASE ok
  <2>0. /\ rec' = NewRecord(kind, "PendingNormalBoot", TRUE)
        /\ hist' = NoHistory /\ PowerOff(FALSE) /\ RamLost
    BY <1>3, <1>5
  <2>1. Recorded(rec', hist')
    <3>1. /\ rec' \in Snapshots /\ rec'.id = rec.id + 1 /\ rec'.state = "PendingNormalBoot"
          /\ rec'.reason = "None" /\ rec'.exec = 0 /\ rec'.parts = "none"
      BY <1>1, <1>2, <2>0, NewRecordIs
    <3>2. rec'.id # 0
      BY <1>1, <3>1
    <3> QED
      BY <2>0, <3>1, <3>2, NoHistoryIs
      DEF Recorded, Wellformed, BeganReset, Proven, Active, Terminal, Early
  <2>2. boot' \in Boots /\ boot'.mode = "off"
    BY <1>1, <2>0, PowerOffIs
  <2> QED BY <1>4, <2>0, <2>1, <2>2, SwitchedOff
<1>6. CASE ~ok
  BY <1>3, <1>4, <1>6
  DEF IInv, Kept, Typed, Sound, Recovers, Writes, Tells, Once, Still, Proven, Fresh, Recaptures,
      Parked
<1> QED BY <1>5, <1>6

\* Delivers: the result is given, the intent to return is over.
LEMMA Delivers ==
  ASSUME IInv, AcknowledgeDelivered
  PROVE  IInv'
<1>1. /\ rec' \in Snapshots /\ ~rec'.ret /\ rec'.id = rec.id /\ rec'.kind = rec.kind
      /\ rec'.state = rec.state /\ rec'.reason = rec.reason /\ rec'.exec = rec.exec
      /\ rec'.parts = rec.parts
  BY NoReturn DEF IInv, Kept, Typed, AcknowledgeDelivered
<1>2. isTerminal(rec) /\ rec.ret /\ UNCHANGED << boot, ram, link, push, hist, trouble >>
  BY DEF AcknowledgeDelivered
<1>3. rec'.ret \in BOOLEAN
  BY <1>1 DEF Snapshots
<1> QED
  BY <1>1, <1>2, <1>3
  DEF IInv, Kept, Typed, Sound, Recovers, Writes, Tells, Once, Still, Proven, Fresh, Recaptures,
      Parked, Wellformed, BeganReset, requiresExclusiveDetectorAdmission, isActive, isTerminal,
      Active, Terminal

\* Taps: an apply begins with no execution and nothing observed.
LEMMA Taps ==
  ASSUME IInv, TripleTap
  PROVE  IInv'
<1>1. /\ rec \in Snapshots /\ boot \in Boots /\ trouble \in 0..MaxTrouble /\ rec.id \in Nat
      /\ ram \in Gates /\ link \in Sessions /\ ram.observed \in Nat /\ ram.observed <= rec.id
      /\ ram.pending => isActive(rec)
  BY BoundAssumption DEF IInv, Kept, Typed, Snapshots, Gates, Sound, Recovers
<1>2. /\ rec.id < MaxOperation /\ ~push.active /\ boot.mode = "drive" /\ ~isActive(rec)
      /\ UNCHANGED << boot, push >>
  BY DEF TripleTap, MayStart, requiresExclusiveDetectorAdmission, Driving
<1> DEFINE new == NewRecord("apply", "WaitingForDetector", FALSE)
           quiet == [ ram EXCEPT !.observed = 0 ]
           target == [ link EXCEPT !.peer = "target" ]
<1>3. PICK ok \in BOOLEAN, prepared \in BOOLEAN, failed \in BOOLEAN :
        /\ Spends(<< ok, ok => prepared, (ok /\ ~prepared) => failed >>)
        /\ IF ~ok THEN UNCHANGED << rec, ram, link, hist >>
           ELSE /\ rec' = IF prepared THEN To(new, "Preparing", "None")
                          ELSE IF failed THEN Finished(new, "Failed", "StorageUnavailable") ELSE new
                /\ ram' = IF prepared THEN quiet ELSE ram
                /\ link' = target
                /\ hist' = NoHistory
  BY DEF TripleTap
<1>4. trouble' \in 0..MaxTrouble
  BY <1>1, <1>3, ThreeSpent
<1>5. CASE ~ok
  BY <1>2, <1>3, <1>4, <1>5
  DEF IInv, Kept, Typed, Sound, Recovers, Writes, Tells, Once, Still, Proven, Fresh, Recaptures,
      Parked
<1>6. CASE ok
  <2>1. /\ new \in Snapshots /\ new.id = rec.id + 1 /\ new.kind = "apply"
        /\ new.state = "WaitingForDetector" /\ new.reason = "None" /\ new.exec = 0
        /\ new.parts = "none"
    BY <1>1, <1>2, NewRecordIs
  <2>2. /\ quiet \in Gates /\ quiet.observed = 0 /\ quiet.pending = ram.pending
        /\ quiet.started = ram.started /\ quiet.boundary = ram.boundary
    <3>1. PICK zero \in 0..MaxOperation : zero = 0
      BY BoundAssumption
    <3>2. quiet = [ ram EXCEPT !.observed = zero ]
      BY <3>1
    <3> QED BY <1>1, <3>1, <3>2 DEF Gates
  <2>3. target \in Sessions
    BY <1>1 DEF Sessions
  <2> HIDE DEF new, quiet, target
  <2>4. /\ rec' \in Snapshots /\ rec'.id = rec.id + 1 /\ rec'.kind = "apply"
        /\ rec'.exec = 0 /\ rec'.state \in { "WaitingForDetector", "Preparing", "Failed" }
        /\ rec'.state = "Failed" => rec'.reason # "None"
        /\ rec'.state # "Failed" => rec'.reason = "None"
    <3>1. Is(To(new, "Preparing", "None"), new, "Preparing", "None")
      BY <2>1, ToMoves DEF Active, Reasons
    <3>2. Is(Finished(new, "Failed", "StorageUnavailable"), new, "Failed", "StorageUnavailable")
      BY <2>1, ToMoves DEF Terminal, Reasons, BeforeSend
    <3> QED BY <1>3, <1>6, <2>1, <3>1, <3>2 DEF Is
  <2>5. Wellformed(rec') /\ rec'.state # "None" /\ rec'.id # 0 /\ rec'.state # "Recapturing"
        /\ rec'.state # "Succeeded" /\ rec'.state # "Running"
    BY <1>1, <2>4 DEF Wellformed, BeganReset, Active, Terminal
  <2>6. /\ ram' \in Gates /\ ram'.observed \in Nat /\ ram'.observed <= rec.id
        /\ ram'.pending = ram.pending /\ ram'.started = ram.started
        /\ ram'.boundary = ram.boundary
    BY <1>1, <1>3, <1>6, <2>2
  <2>7. link' \in Sessions /\ hist' \in Latches /\ hist'.frames = 0
    BY <1>3, <1>6, <2>3, NoHistoryIs
  <2>8. ram'.observed # rec'.id /\ ram'.observed <= rec'.id
    BY <1>1, <2>4, <2>6
  <2> QED
    BY <1>1, <1>2, <1>4, <2>4, <2>5, <2>6, <2>7, <2>8
    DEF IInv, Kept, Typed, Sound, Recovers, Writes, Tells, Once, Still, Proven, Fresh, Recaptures,
        Parked
<1> QED BY <1>5, <1>6

\* QueuedIs: an execution that begins.
LEMMA QueuedIs ==
  ASSUME push \in Executions, push.id # MaxPush, NEW o \in 0..MaxOperation
  PROVE  Queued(o) \in Executions /\ Queued(o).op = o /\ Queued(o).active = TRUE
<1>1. push.id + 1 \in 0..MaxPush
  BY BoundAssumption DEF Executions
<1> QED BY <1>1 DEF Queued, Executions, PartStates, Results

\* Follows: the follow-up opens the gate, blocks the wrong detector, or
\* begins an execution when no operation holds the detector.
LEMMA Follows ==
  ASSUME IInv, FollowupComplete
  PROVE  IInv'
<1> DEFINE l == [ link EXCEPT !.followup = FALSE ]
<1>1. /\ link \in Sessions /\ push \in Executions /\ ram \in Gates /\ boot \in Boots
      /\ rec \in Snapshots
  BY DEF IInv, Kept, Typed
<1>2. /\ l \in Sessions /\ l.peer = link.peer /\ l.cmd = link.cmd /\ l.obs = link.obs
      /\ l.answered = link.answered
  <2>1. PICK no \in BOOLEAN : ~no
    OBVIOUS
  <2>2. l = [ link EXCEPT !.followup = no ]
    BY <2>1
  <2> QED BY <1>1, <2>1, <2>2 DEF Sessions
<1>3. link' = l /\ boot.mode = "drive" /\ UNCHANGED << rec, boot, hist, trouble >>
  BY DEF FollowupComplete, Driving
<1>4. Keeps(ram', ram)
  <2>1. Keeps([ ram EXCEPT !.wrong = TRUE ], ram)
    <3>1. PICK yes \in BOOLEAN : yes
      OBVIOUS
    <3>2. [ ram EXCEPT !.wrong = TRUE ] = [ ram EXCEPT !.wrong = yes ]
      BY <3>1
    <3> QED BY <1>1, <3>2 DEF Gates, Keeps
  <2>2. Keeps([ ram EXCEPT !.gate = "done" ], ram)
    BY <1>1 DEF Gates, Keeps
  <2>3. Keeps(ram, ram)
    BY <1>1 DEF Keeps
  <2>4. ram' \in { ram, [ ram EXCEPT !.wrong = TRUE ], [ ram EXCEPT !.gate = "done" ] }
    BY DEF FollowupComplete
  <2> QED BY <2>1, <2>2, <2>3, <2>4
<1>5. /\ push' \in Executions
      /\ push' = push \/ (~requiresExclusiveDetectorAdmission(rec))
  <2>1. push.id # MaxPush => Queued(0) \in Executions
    <3>1. 0 \in 0..MaxOperation
      BY BoundAssumption
    <3> QED BY <1>1, <3>1, QueuedIs
  <2> QED BY <1>1, <2>1 DEF FollowupComplete, OrdinaryPush
<1>6. ram.pending => requiresExclusiveDetectorAdmission(rec)
  BY DEF IInv, Kept, Recovers, requiresExclusiveDetectorAdmission
<1> HIDE DEF l
<1> QED
  BY <1>2, <1>3, <1>4, <1>5, <1>6
  DEF IInv, Kept, Typed, Sound, Recovers, Writes, Tells, Once, Still, Proven, Fresh, Recaptures,
      Parked, Keeps

\* Cancels: what is left when a command is given up.
LEMMA Cancels ==
  ASSUME NEW r, NEW m, NEW q, Kept(r, m, boot, link, q, hist), boot.mode = "drive",
         ~InFlight => Fresh(r, m, link), CommandCancelled(m),
         rec' = r, push' \in { q, Lost(q) }, hist' = hist, trouble' \in 0..MaxTrouble,
         boot' \in Boots, boot'.mode = "drive", boot'.loaded = boot.loaded
  PROVE  IInv'
<1>1. q \in Executions /\ push' \in Executions /\ (push'.active => push' = q)
  BY LostEnds DEF Kept, Typed
<1>2. m \in Gates
  BY DEF Kept, Typed
<1>3. CASE InFlight
  <2>1. link' = NoLink /\ Keeps(ram', m)
    BY <1>2, <1>3, LinkLostKeeps DEF CommandCancelled
  <2> QED
    BY <1>1, <2>1, NoLinkIs
    DEF IInv, Kept, Typed, Sound, Recovers, Writes, Tells, Once, Still, Proven, Fresh, Recaptures,
        Parked, Keeps
<1>4. CASE ~InFlight
  <2>1. link' = link /\ ram' = m
    BY <1>4 DEF CommandCancelled
  <2> QED
    BY <1>1, <1>4, <2>1
    DEF IInv, Kept, Typed, Sound, Recovers, Writes, Tells, Once, Still, Proven, Fresh, Recaptures,
        Parked
<1> QED BY <1>3, <1>4

\* Returns: the request to return, and what is left of it when it fails.
LEMMA Returns ==
  ASSUME NEW r, NEW m, Kept(r, m, boot, link, push, hist), isTerminal(r), boot.mode = "drive",
         trouble \in 0..MaxTrouble, ReturnToMaintenance(r, m), hist' = hist
  PROVE  IInv'
<1>1. PICK flushed \in BOOLEAN, asked \in BOOLEAN, acked \in BOOLEAN, undone \in BOOLEAN :
        LET tried == flushed /\ asked
            done == tried /\ acked
        IN /\ Spends(<< flushed, flushed => asked, tried => acked, (tried /\ ~acked) => undone >>)
           /\ IF done
              THEN /\ rec' = IF isTerminal(r) THEN [ r EXCEPT !.ret = FALSE ] ELSE r
                   /\ PowerOff(TRUE) /\ RamLost
              ELSE /\ rec' = r /\ CommandCancelled(m) /\ UNCHANGED push
                   /\ boot' = [ boot EXCEPT !.request = IF tried THEN ~undone ELSE @ ]
  BY DEF ReturnToMaintenance
<1>2. trouble' \in 0..MaxTrouble
  BY <1>1, FourSpent
<1>3. r \in Snapshots /\ boot \in Boots /\ Recorded(r, hist)
  BY KeptRecorded DEF Kept, Typed
<1>4. CASE flushed /\ asked /\ acked
  <2>1. rec' = [ r EXCEPT !.ret = FALSE ] /\ PowerOff(TRUE) /\ RamLost
    BY <1>1, <1>4
  <2>2. Recorded(rec', hist')
    BY <1>3, <2>1, NoReturn, RecordedAlike
  <2> QED BY <1>2, <1>3, <2>1, <2>2, PowerOffIs, SwitchedOff
<1>5. CASE ~(flushed /\ asked /\ acked)
  <2>1. /\ rec' = r /\ CommandCancelled(m) /\ push' = push
        /\ boot' = [ boot EXCEPT !.request = IF flushed /\ asked THEN ~undone ELSE @ ]
    BY <1>1, <1>5
  <2>2. boot' \in Boots /\ boot'.mode = boot.mode /\ boot'.loaded = boot.loaded
    <3>1. PICK asks \in BOOLEAN : asks = (IF flushed /\ asked THEN ~undone ELSE boot.request)
      BY <1>3 DEF Boots
    <3>2. boot' = [ boot EXCEPT !.request = asks ]
      BY <2>1, <3>1
    <3> QED BY <1>3, <3>2 DEF Boots
  <2>3. Fresh(r, m, link)
    BY DEF Fresh, Recaptures, isTerminal, Terminal
  <2> QED BY <1>2, <2>1, <2>2, <2>3, Cancels
<1> QED BY <1>4, <1>5

\* AsksMaintenance: and when the driver asks for it.
LEMMA AsksMaintenance ==
  ASSUME IInv, AskMaintenance
  PROVE  IInv'
<1>1. /\ boot.mode = "drive" /\ boot \in Boots /\ trouble \in 0..MaxTrouble /\ hist' = hist
      /\ Kept(rec, ram, boot, link, push, hist) /\ boot.losses < MaxBoots
  BY DEF IInv, Kept, Typed, AskMaintenance, Driving
<1>2. PICK ok \in BOOLEAN :
        IF isTerminal(rec) /\ rec.ret /\ boot.loaded
        THEN ReturnToMaintenance(rec, ram)
        ELSE /\ Spends(<< ok >>) /\ UNCHANGED rec
             /\ IF ok THEN /\ boot' = [ boot EXCEPT !.mode = "off", !.loaded = FALSE, !.request = TRUE,
                                                    !.losses = @ + 1 ]
                           /\ RamLost
                ELSE UNCHANGED << boot, ram, link, push >>
  BY DEF AskMaintenance
<1>3. CASE isTerminal(rec) /\ rec.ret /\ boot.loaded
  BY <1>1, <1>2, <1>3, Returns
<1>4. CASE ~(isTerminal(rec) /\ rec.ret /\ boot.loaded)
  <2>1. trouble' \in 0..MaxTrouble
    BY <1>1, <1>2, <1>4, OneSpent
  <2>2. CASE ok
    <3>1. /\ boot' = [ boot EXCEPT !.mode = "off", !.loaded = FALSE, !.request = TRUE,
                                  !.losses = @ + 1 ]
          /\ RamLost /\ rec' = rec
      BY <1>2, <1>4, <2>2
    <3>2. boot' \in Boots /\ boot'.mode = "off"
      <4>1. PICK no \in BOOLEAN, yes \in BOOLEAN : ~no /\ yes
        OBVIOUS
      <4> DEFINE a == [ boot EXCEPT !.mode = "off", !.loaded = no ]
      <4>2. a \in Boots /\ a.mode = "off" /\ a.losses = boot.losses
        BY <1>1 DEF Boots
      <4>3. boot' = [ a EXCEPT !.request = yes, !.losses = @ + 1 ]
        BY <3>1, <4>1, <1>1 DEF Boots
      <4>4. boot.losses + 1 \in 0..MaxBoots
        BY <1>1, BoundAssumption DEF Boots
      <4> HIDE DEF a
      <4> QED BY <4>2, <4>3, <4>4 DEF Boots
    <3> QED BY <1>1, <2>1, <3>1, <3>2, KeptRecorded, SwitchedOff
  <2>3. CASE ~ok
    <3>1. UNCHANGED << rec, boot, ram, link, push, hist >>
      BY <1>1, <1>2, <1>4, <2>3
    <3> QED
      BY <2>1, <3>1
      DEF IInv, Kept, Typed, Sound, Recovers, Writes, Tells, Once, Still, Proven, Fresh,
          Recaptures, Parked
  <2> QED BY <2>2, <2>3
<1> QED BY <1>3, <1>4
-----------------------------------------------------------------------------
(* The loop, up to the step it takes.                                      *)

\* Ready: the record and the bookkeeping after the prologue of the loop.
Ready(r, m) ==
    /\ Kept(r, m, boot, link, push, hist) /\ ~m.pending
    /\ boot.mode = "drive" /\ boot.loaded /\ trouble \in 0..MaxTrouble
Attended(r, m) == Ready(r, m) /\ m.observed = r.id /\ m.seen = r.state

\* Goes: a step of the loop that leaves the device running.
LEMMA Goes ==
  ASSUME Kept(rec', ram', boot, link', push', hist'), Fresh(rec', ram', link'),
         boot.mode = "drive", boot' = boot, trouble' \in 0..MaxTrouble
  PROVE  IInv'
BY DEF IInv, Kept, Typed, Sound, Recovers, Writes, Tells, Once, Still, Proven, Fresh, Recaptures,
       Parked

\* Recovered: a recovery that had not been written down.
LEMMA Recovered ==
  ASSUME IInv, Driving, boot.loaded, ram.pending
  PROVE  LET r == NormalBoot(rec)
             m == [ ram EXCEPT !.pending = FALSE ]
         IN Ready(r, m) /\ Fresh(r, m, link)
<1> DEFINE r == NormalBoot(rec)
           m == [ ram EXCEPT !.pending = FALSE ]
<1>1. /\ Recorded(rec, hist) /\ ram \in Gates /\ isActive(rec) /\ ~push.active
      /\ ram.observed = 0 /\ rec.id \in Nat /\ rec.id # 0
  <2>1. Recorded(rec, hist)
    BY KeptRecorded DEF IInv
  <2>2. ram \in Gates /\ rec \in Snapshots /\ isActive(rec) /\ ~push.active /\ ram.observed = 0
    BY DEF IInv, Kept, Typed, Recovers
  <2> QED BY <2>1, <2>2, BoundAssumption DEF Recorded, Snapshots, isActive, Active
<1>2. /\ Recorded(r, hist) /\ r.id = rec.id /\ r.kind = rec.kind /\ r.parts = rec.parts
      /\ r.state # "Running"
  BY <1>1, RecoveryIs
<1>3. /\ m \in Gates /\ ~m.pending /\ m.observed = 0 /\ m.sent = ram.sent
      /\ m.started = ram.started /\ m.boundary = ram.boundary
  <2>1. PICK no \in BOOLEAN : ~no
    OBVIOUS
  <2>2. m = [ ram EXCEPT !.pending = no ]
    BY <2>1
  <2> QED BY <1>1, <2>1, <2>2 DEF Gates
<1> HIDE DEF r, m
<1>4. Kept(r, m, boot, link, push, hist)
  BY <1>1, <1>2, <1>3
  DEF IInv, Kept, Typed, Sound, Recovers, Writes, Tells, Once, Still, Recorded
<1>5. Fresh(r, m, link)
  BY <1>1, <1>2, <1>3 DEF Fresh, Recaptures
<1> QED
  BY <1>1, <1>2, <1>3, <1>4, <1>5 DEF Ready, IInv, Driving, r, m

\* BookkeptKept: the bookkeeping of another operation, or of another state.
LEMMA BookkeptKept ==
  ASSUME NEW r, NEW m, Ready(r, m), NEW l \in { link, NoLink },
         r.id # m.observed => l.cmd = "idle"
  PROVE  LET b == Bookkept(r, m) IN
         /\ Kept(r, b, boot, l, push, hist) /\ ~b.pending
         /\ b.observed = r.id /\ b.seen = r.state
<1> DEFINE b == Bookkept(r, m)
<1>1. /\ r \in Snapshots /\ m \in Gates /\ Kept(r, m, boot, link, push, hist) /\ ~m.pending
      /\ link \in Sessions /\ l \in Sessions /\ r.id \in Nat
      /\ r.state \in Active \cup Terminal \cup { "None" } /\ r.id \in 0..MaxOperation
  BY NoLinkIs, BoundAssumption DEF Ready, Kept, Typed, Snapshots
<1>2. CASE r.id # m.observed
  <2>1. b = NewOperation(r)
    BY <1>2 DEF Bookkept
  <2>2. /\ b \in Gates /\ ~b.pending /\ b.observed = r.id /\ b.seen = r.state /\ ~b.sent
        /\ ~b.started
    BY <1>1, <2>1, FreshRamIs DEF NewOperation, Gates
  <2> HIDE DEF b
  <2> QED
    BY <1>1, <1>2, <2>2, NoLinkIs
    DEF b, Ready, Kept, Typed, Sound, Recovers, Writes, Tells, Once, Still
<1>3. CASE r.id = m.observed
  <2>1. /\ b \in Gates /\ ~b.pending /\ b.observed = r.id /\ b.seen = r.state
        /\ b.sent = m.sent /\ b.admitted = m.admitted /\ (b.started => b.boundary)
    <3>1. m.started => m.boundary
      BY <1>1 DEF Kept, Sound
    <3>2. CASE r.state = m.seen
      BY <1>1, <1>3, <3>1, <3>2 DEF Bookkept
    <3>3. CASE r.state # m.seen /\ r.state = "Recapturing"
      <4>1. PICK no \in BOOLEAN : ~no
        OBVIOUS
      <4> DEFINE a == [ m EXCEPT !.seen = r.state, !.gate = "unset" ]
      <4>2. a \in Gates /\ a.pending = m.pending /\ a.observed = m.observed /\ a.seen = r.state
            /\ a.sent = m.sent /\ a.admitted = m.admitted
        BY <1>1 DEF Gates
      <4>3. b = [ a EXCEPT !.boundary = no, !.started = no ]
        BY <1>1, <1>3, <3>3, <4>1 DEF Bookkept, NewState, Gates
      <4> HIDE DEF a, b
      <4> QED BY <1>1, <1>3, <4>1, <4>2, <4>3 DEF Gates
    <3>4. CASE r.state # m.seen /\ r.state # "Recapturing"
      <4>1. b = [ m EXCEPT !.seen = r.state ]
        BY <1>3, <3>4 DEF Bookkept, NewState
      <4> QED BY <1>1, <1>3, <3>1, <4>1 DEF Gates
    <3> QED BY <3>2, <3>3, <3>4
  <2> HIDE DEF b
  <2> QED
    BY <1>1, <1>3, <2>1, NoLinkIs
    DEF b, Ready, Kept, Typed, Sound, Recovers, Writes, Tells, Once, Still
<1> QED BY <1>2, <1>3

\* BookkeptFresh: and a change of state closes the gate.
LEMMA BookkeptFresh ==
  ASSUME NEW r, NEW m, Ready(r, m), Fresh(r, m, link)
  PROVE  FreshGate(r, Bookkept(r, m), link)
<1>1. m \in Gates /\ r \in Snapshots
  BY DEF Ready, Kept, Typed
<1>2. CASE r.id # m.observed
  <2>1. NewOperation(r).gate = "unset" /\ ~NewOperation(r).boundary
    BY FreshRamIs DEF NewOperation, FreshRam
  <2> QED BY <1>2, <2>1 DEF Bookkept, FreshGate
<1>3. CASE r.id = m.observed /\ r.state # m.seen
  <2>1. CASE r.state = "Recapturing"
    <3>1. NewState(r, m).gate = "unset" /\ ~NewState(r, m).boundary
      BY <1>1, <2>1 DEF NewState, Gates
    <3> QED BY <1>3, <3>1 DEF Bookkept, FreshGate
  <2>2. CASE r.state # "Recapturing"
    BY <2>2 DEF FreshGate, Fresh, Recaptures
  <2> QED BY <2>1, <2>2
<1>4. CASE r.id = m.observed /\ r.state = m.seen
  BY <1>4 DEF Bookkept, FreshGate
<1> QED BY <1>2, <1>3, <1>4

\* SessionIs: a new session is looked at from its beginning.
LEMMA SessionIs ==
  ASSUME NEW r, NEW m, Attended(r, m), FreshGate(r, m, link)
  PROVE  LET n == SessionObserved(r, m) IN
         Attended(r, n) /\ FreshGate(r, n, link) /\ n.age = m.age
<1> DEFINE n == SessionObserved(r, m)
<1>1. m \in Gates /\ (m.started => m.boundary)
  BY DEF Attended, Ready, Kept, Typed, Sound
<1>2. CASE ~(matchingDetector /\ m.gate = "unset")
  BY <1>2 DEF SessionObserved
<1>3. CASE matchingDetector /\ m.gate = "unset"
  <2>1. /\ n \in Gates /\ n.pending = m.pending /\ n.observed = m.observed /\ n.seen = m.seen
        /\ n.age = m.age /\ n.sent = m.sent /\ n.admitted = m.admitted /\ n.gate = "begun"
        /\ (n.started => n.boundary)
        /\ (r.state = "Recapturing" => ~n.boundary)
    <3>1. CASE r.state \in { "Preparing", "Recapturing" }
      <4>1. PICK no \in BOOLEAN : ~no
        OBVIOUS
      <4>2. n = [ m EXCEPT !.gate = "begun", !.boundary = no, !.started = no ]
        BY <1>3, <3>1, <4>1 DEF SessionObserved
      <4> QED BY <1>1, <4>1, <4>2 DEF Gates
    <3>2. CASE r.state \notin { "Preparing", "Recapturing" }
      <4>1. n = [ m EXCEPT !.gate = "begun" ]
        BY <1>3, <3>2 DEF SessionObserved
      <4> QED BY <1>1, <3>2, <4>1 DEF Gates
    <3> QED BY <3>1, <3>2
  <2> HIDE DEF n
  <2>2. Attended(r, n)
    BY <2>1
    DEF Attended, Ready, Kept, Typed, Sound, Recovers, Writes, Tells, Once, Still
  <2>3. FreshGate(r, n, link)
    BY <2>1 DEF FreshGate, Fresh, Recaptures
  <2> QED BY <2>1, <2>2, <2>3 DEF n
<1> QED BY <1>2, <1>3
-----------------------------------------------------------------------------
(* The steps of the loop.                                                  *)

\* Replaced: the record of an operation that runs is replaced.
LEMMA Replaced ==
  ASSUME NEW r, NEW m, NEW b, NEW l, NEW p, NEW h, Kept(r, m, b, l, p, h), isActive(r), ~m.pending,
         NEW n \in Snapshots, Wellformed(n), n.id = r.id, n.kind = r.kind, n.state # "None",
         n.state \in Early => n.state = r.state,
         n.state = "Running" => r.state # "Recapturing",
         n.state = "Recapturing" => r.state = "Recapturing" \/ ~p.active,
         n.state = "Succeeded" => h.capture = "after",
         n.kind = "reset" /\ n.parts = "sent" => h.acked
  PROVE  Kept(n, m, b, l, p, h)
<1>1. n.state \in Active \cup Terminal /\ r.state \in Active /\ requiresExclusiveDetectorAdmission(r)
      /\ r.id # 0
  BY DEF Snapshots, isActive, requiresExclusiveDetectorAdmission, Kept, Sound, Active
<1>2. Writes(n, p)
  BY <1>1 DEF Kept, Writes, Active, Terminal, Early
<1>3. Acknowledged => Once(n, m, b, h)
  BY <1>1 DEF Kept, Once, Active, Early
<1> QED
  BY <1>1, <1>2, <1>3 DEF Kept, Typed, Sound, Recovers, Tells, Still, Proven

\* Waited: a step that changes nothing.
LEMMA Waited ==
  ASSUME NEW r, NEW m, Attended(r, m), FreshGate(r, m, link), IdleStep(r, m) \/ Waits(r, m)
  PROVE  IInv'
<1>1. rec' = r /\ ram' = m /\ UNCHANGED << boot, link, push, hist, trouble >>
  BY DEF IdleStep, Waits
<1>2. Kept(r, m, boot, link, push, hist) /\ (m.started => m.boundary) /\ boot.mode = "drive"
      /\ trouble \in 0..MaxTrouble
  BY DEF Attended, Ready, Kept, Sound
<1>3. Fresh(r, m, link)
  <2>1. CASE r.state # "Recapturing"
    BY <2>1 DEF Fresh, Recaptures
  <2>2. CASE r.state = "Recapturing"
    BY <1>2, <2>2
    DEF IdleStep, Waits, FreshGate, Fresh, Recaptures, matchingDetector, Capturable
  <2> QED BY <2>1, <2>2
<1> QED BY <1>1, <1>2, <1>3, Goes

\* Begins: a recapture begins after what was written.
LEMMA Begins ==
  ASSUME NEW r, NEW m, Attended(r, m), BeginRecapture(r, m)
  PROVE  IInv'
<1>1. /\ Kept(r, m, boot, link, push, hist) /\ boot.mode = "drive" /\ trouble \in 0..MaxTrouble
      /\ m \in Gates /\ link \in Sessions /\ ~m.pending
  BY DEF Attended, Ready, Kept, Typed
<1>2. rec' = r /\ UNCHANGED << boot, push, hist, trouble >>
  BY DEF BeginRecapture
<1>3. PICK yes \in BOOLEAN, no \in BOOLEAN : yes = TRUE /\ no = FALSE
  OBVIOUS
<1>4. /\ ram' \in Gates /\ ~ram'.pending /\ ram'.observed = m.observed /\ ram'.sent = m.sent
      /\ ram'.admitted = m.admitted /\ ram'.boundary
  <2>1. \/ ram' = [ m EXCEPT !.boundary = yes ]
        \/ ram' = [ m EXCEPT !.boundary = yes, !.started = yes, !.gate = "begun" ]
    BY <1>3 DEF BeginRecapture
  <2> QED BY <1>1, <1>3, <2>1 DEF Gates
<1>5. link' \in Sessions /\ link'.cmd = link.cmd /\ ~link'.answered
  <2>1. \/ link' = [ link EXCEPT !.answered = no ]
        \/ link' = [ link EXCEPT !.followup = yes, !.answered = no ]
    BY <1>3 DEF BeginRecapture
  <2> QED BY <1>1, <1>3, <2>1 DEF Sessions
<1>6. Kept(rec', ram', boot, link', push', hist')
  BY <1>1, <1>2, <1>4, <1>5
  DEF Kept, Typed, Sound, Recovers, Writes, Tells, Once, Still, Proven
<1>7. Fresh(rec', ram', link')
  BY <1>4, <1>5 DEF Fresh
<1> QED BY <1>1, <1>2, <1>6, <1>7, Goes

\* ReasonOf: the reason an executor gives is one of the reasons.
LEMMA ReasonOf == ResultReason \in Reasons
BY DEF ResultReason, Reasons

\* Runs: an apply that runs follows its execution.
LEMMA Runs ==
  ASSUME NEW r, NEW m, Attended(r, m), RunningApply(r, m)
  PROVE  IInv'
<1>1. /\ Kept(r, m, boot, link, push, hist) /\ boot.mode = "drive" /\ trouble \in 0..MaxTrouble
      /\ r \in Snapshots /\ Wellformed(r) /\ push \in Executions /\ ~m.pending /\ m.seen = r.state
  BY DEF Attended, Ready, Kept, Typed, Sound
<1>2. /\ r.state = "Running" /\ r.kind = "apply" /\ ram' = m
      /\ UNCHANGED << boot, link, push, hist >>
  BY DEF RunningApply
<1>3. Fresh(rec', ram', link')
  BY <1>1, <1>2 DEF Fresh, Recaptures
<1>4. CASE push.id = 0 \/ r.exec \notin { 0, push.id }
  <2>1. rec' = r /\ trouble' = trouble
    BY <1>4 DEF RunningApply
  <2> QED BY <1>1, <1>2, <1>3, <2>1, Goes
<1>5. CASE ~(push.id = 0 \/ r.exec \notin { 0, push.id })
  <2> DEFINE changed == r.exec # push.id \/ r.parts # push.parts
             new == WithParts(r, push.parts, push.id)
  <2>1. PICK updated \in BOOLEAN, ok \in BOOLEAN :
          /\ Spends(<< changed => updated, ((changed => updated) /\ ~push.active) => ok >>)
          /\ LET known == IF changed THEN Stored(r, new, updated) ELSE r IN
             rec' = IF (changed /\ ~updated) \/ push.active THEN known
                    ELSE Stored(known, To(known, "Recapturing", ResultReason), ok)
    BY <1>5 DEF RunningApply
  <2>2. trouble' \in 0..MaxTrouble
    BY <1>1, <2>1, TwoSpent
  <2> DEFINE known == IF changed THEN Stored(r, new, updated) ELSE r
  <2>3. Has(new, r, push.parts, push.id)
    BY <1>1, PartsSet DEF Executions
  <2>4. known \in Snapshots /\ Wellformed(known) /\ known.id = r.id /\ known.kind = r.kind
        /\ known.state = "Running"
    <3>1. known = r \/ (known = new /\ Wellformed(new))
      BY StoredIs
    <3> QED BY <1>1, <1>2, <2>3, <3>1 DEF Has
  <2> HIDE DEF known, changed, new
  <2>5. Is(To(known, "Recapturing", ResultReason), known, "Recapturing", ResultReason)
    BY <2>4, ToMoves, ReasonOf DEF Active
  <2>6. /\ rec' \in Snapshots /\ Wellformed(rec') /\ rec'.id = r.id /\ rec'.kind = r.kind
        /\ \/ rec'.state = "Running"
           \/ rec'.state = "Recapturing" /\ ~push.active
    BY <2>1, <2>4, <2>5, StoredIs DEF Is, known
  <2>7. Kept(rec', m, boot, link, push, hist)
    BY <1>1, <1>2, <2>6, Replaced DEF isActive, Active, Early
  <2> QED BY <1>1, <1>2, <1>3, <2>2, <2>7, Goes
<1> QED BY <1>4, <1>5

\* VerdictIs: success is only for a complete capture of an apply.
LEMMA VerdictIs ==
  ASSUME NEW r \in Snapshots, NEW complete \in BOOLEAN
  PROVE  LET v == Verdict(r, complete) IN
         /\ v[1] \in { "Succeeded", "Partial", "Failed" } /\ v[2] \in Reasons
         /\ v[1] = "Succeeded" => complete /\ r.kind # "reset"
<1>1. r.reason \in Reasons
  BY DEF Snapshots
<1> DEFINE reset == r.kind = "reset"
           proven == hasDurableFactoryResetSend(r)
<1>2. CASE reset /\ ~proven
  BY <1>2 DEF Verdict, Reasons, BeforeSend
<1>3. CASE reset /\ proven
  BY <1>3 DEF Verdict, Reasons, BeforeSend
<1>4. CASE ~reset /\ r.reason = "ApplyFailed"
  BY <1>4 DEF Verdict, Reasons, BeforeSend
<1>5. CASE ~reset /\ r.reason \in { "ApplyPartial", "InTheBoxPersistFailed", "Interrupted" }
  BY <1>5 DEF Verdict, Reasons, BeforeSend
<1>6. CASE ~reset /\ r.reason \notin { "ApplyFailed", "ApplyPartial", "InTheBoxPersistFailed", "Interrupted" }
  BY <1>6 DEF Verdict, Reasons, BeforeSend
<1> QED BY <1>2, <1>3, <1>4, <1>5, <1>6

\* Finishes: the result of a recapture.
LEMMA Finishes ==
  ASSUME NEW r, NEW m, Attended(r, m), FreshGate(r, m, link), ~TimedOut(r, m), FinishStep(r, m)
  PROVE  IInv'
<1>1. /\ Kept(r, m, boot, link, push, hist) /\ boot.mode = "drive" /\ trouble \in 0..MaxTrouble
      /\ r \in Snapshots /\ Wellformed(r) /\ m \in Gates /\ ~m.pending /\ m.seen = r.state
      /\ m.observed = r.id /\ hist \in Latches /\ link \in Sessions
  BY DEF Attended, Ready, Kept, Typed, Sound
<1>2. /\ r.state = "Recapturing" /\ link.peer = "target" /\ m.gate = "done" /\ ram' = m
      /\ UNCHANGED << boot, link, push >>
  BY DEF FinishStep, matchingDetector
<1>3. m.age < 2
  BY <1>1, <1>2 DEF TimedOut, Gates
<1>4. Fresh(r, m, link)
  BY <1>2 DEF FreshGate
<1> DEFINE v == Verdict(r, Complete(m.boundary))
<1>5. /\ v[1] \in { "Succeeded", "Partial", "Failed" } /\ v[2] \in Reasons
      /\ v[1] = "Succeeded" => Complete(m.boundary) /\ r.kind # "reset"
  BY <1>1, VerdictIs DEF Complete
<1>6. v[1] = "Succeeded" => link.obs = "after"
  BY <1>1, <1>2, <1>3, <1>4, <1>5 DEF Fresh, Recaptures, Complete, Sessions
<1> HIDE DEF v
<1>7. ASSUME NEW why \in { "SnapshotStoreUnavailable", "SnapshotPersistFailed" }, NEW ok \in BOOLEAN,
             Spends(<< FALSE, ok >>), rec' = Stored(r, Finished(r, "Failed", why), ok),
             hist' = hist
      PROVE  IInv'
  <2>1. trouble' \in 0..MaxTrouble
    BY <1>1, <1>7, TwoSpent
  <2>2. Is(Finished(r, "Failed", why), r, "Failed", why)
    BY <1>1, ToMoves DEF Terminal, Reasons, BeforeSend
  <2>3. /\ rec' \in Snapshots /\ Wellformed(rec') /\ rec'.id = r.id /\ rec'.kind = r.kind
        /\ rec'.parts = r.parts /\ (rec' = r \/ rec'.state = "Failed")
    BY <1>1, <1>7, <2>2, StoredIs DEF Is
  <2>4. Kept(rec', m, boot, link, push, hist)
    <3>1. r.kind = "reset" /\ r.parts = "sent" => hist.acked
      BY <1>1 DEF Kept, Tells
    <3> QED BY <1>1, <1>2, <2>3, <3>1, Replaced DEF isActive, Active, Early
  <2>5. Fresh(rec', m, link)
    BY <1>4, <2>3 DEF Fresh, Recaptures
  <2> QED BY <1>1, <1>2, <1>7, <2>1, <2>4, <2>5, Goes
<1>8. ASSUME NEW ok \in BOOLEAN,
             Spends(<< ok >>), rec' = Stored(r, Finished(r, v[1], v[2]), ok),
             hist' = [ hist EXCEPT !.capture = IF ok /\ v[1] = "Succeeded" THEN link.obs ELSE @ ]
      PROVE  IInv'
  <2>1. trouble' \in 0..MaxTrouble
    BY <1>1, <1>8, OneSpent
  <2>2. Is(Finished(r, v[1], v[2]), r, v[1], v[2])
    BY <1>1, <1>5, ToMoves DEF Terminal
  <2>3. /\ rec' \in Snapshots /\ Wellformed(rec') /\ rec'.id = r.id /\ rec'.kind = r.kind
        /\ rec'.parts = r.parts /\ (rec' = r \/ (rec'.state = v[1] /\ ok))
    BY <1>1, <1>8, <2>2, StoredIs DEF Is
  <2>4. hist' \in Latches /\ hist'.frames = hist.frames /\ hist'.acked = hist.acked
        /\ (ok /\ v[1] = "Succeeded" => hist'.capture = "after")
    <3>1. PICK c \in { "none", "before", "after" } :
            c = (IF ok /\ v[1] = "Succeeded" THEN link.obs ELSE hist.capture)
      BY <1>1 DEF Sessions, Latches
    <3>2. hist' = [ hist EXCEPT !.capture = c ]
      BY <1>8, <3>1
    <3> QED BY <1>1, <1>6, <3>1, <3>2 DEF Latches
  <2>5. Kept(r, m, boot, link, push, hist')
    BY <1>1, <1>2, <2>4 DEF Kept, Typed, Sound, Recovers, Writes, Tells, Once, Still, Proven
  <2>6. Kept(rec', m, boot, link, push, hist')
    <3>1. r.kind = "reset" /\ r.parts = "sent" => hist'.acked
      BY <2>5 DEF Kept, Tells
    <3> QED BY <1>1, <1>2, <1>5, <2>3, <2>4, <2>5, <3>1, Replaced DEF isActive, Active, Early
  <2>7. Fresh(rec', m, link)
    BY <1>4, <1>5, <2>3 DEF Fresh, Recaptures
  <2> QED BY <1>1, <1>2, <2>1, <2>6, <2>7, Goes
<1> QED BY <1>7, <1>8 DEF FinishStep, v

\* TimesOut: an operation that took too long ends, and its execution with it.
LEMMA TimesOut ==
  ASSUME NEW r, NEW m, Attended(r, m), TimeoutStep(r, m)
  PROVE  IInv'
<1>1. /\ Kept(r, m, boot, link, push, hist) /\ boot.mode = "drive" /\ trouble \in 0..MaxTrouble
      /\ r \in Snapshots /\ Wellformed(r) /\ m \in Gates /\ ~m.pending /\ m.seen = r.state
      /\ m.observed = r.id /\ push \in Executions /\ boot \in Boots
  BY DEF Attended, Ready, Kept, Typed, Sound
<1>2. /\ isActive(r) /\ TimedOut(r, m) /\ CommandCancelled(m) /\ UNCHANGED << boot, hist >>
  BY DEF TimeoutStep
<1> DEFINE waiting == r.state \in { "WaitingForDetector", "Preparing" }
           mine == ~waiting /\ MineToCancel(r)
           cut == IF mine THEN Lost(push) ELSE push
           changed == WithParts(r, cut.parts, cut.id)
           stored(updated) == mine => updated
           known(updated) == IF mine THEN Stored(r, changed, updated) ELSE r
           terminal == IF r.state = "Recapturing" \/ (mine /\ cut.parts \in { "sent", "verified" })
                       THEN "Partial" ELSE "Failed"
           reason == IF r.state = "Recapturing" THEN "RecaptureTimedOut" ELSE "DetectorTimeout"
<1>3. PICK updated \in BOOLEAN, ok \in BOOLEAN :
        /\ Spends(<< mine => updated, stored(updated) => ok >>)
        /\ push' = IF InFlight THEN Lost(cut) ELSE cut
        /\ rec' = IF stored(updated)
                  THEN Stored(known(updated), Finished(known(updated), terminal, reason), ok) ELSE r
  BY DEF TimeoutStep
<1>4. trouble' \in 0..MaxTrouble
  BY <1>1, <1>3, TwoSpent
<1>5. cut \in Executions /\ cut.parts \in PartStates /\ cut.id \in 0..MaxPush
      /\ (cut.active => cut = push) /\ (mine => ~cut.active)
  <2>1. cut \in Executions /\ (cut.active => cut = push) /\ (mine => ~cut.active)
    BY <1>1, LostEnds
  <2> QED BY <2>1 DEF Executions
<1>6. mine => r.kind = "apply"
  BY DEF MineToCancel
<1>7. terminal \in { "Partial", "Failed" } /\ reason \in Reasons
  BY DEF Reasons, BeforeSend
<1> HIDE DEF waiting, mine, cut, terminal, reason
<1> DEFINE k == known(updated)
<1>8. k \in Snapshots /\ Wellformed(k) /\ k.id = r.id /\ k.kind = r.kind /\ k.state = r.state
      /\ (r.kind = "reset" => k.parts = r.parts)
  <2>1. Has(changed, r, cut.parts, cut.id)
    BY <1>1, <1>5, PartsSet
  <2>2. k = r \/ (mine /\ k = changed /\ Wellformed(changed))
    BY StoredIs
  <2> QED BY <1>1, <1>6, <2>1, <2>2 DEF Has
<1>9. Is(Finished(k, terminal, reason), k, terminal, reason)
  BY <1>7, <1>8, ToMoves DEF Terminal
<1>10. rec' \in { r, k, Finished(k, terminal, reason) }
       /\ (rec' = Finished(k, terminal, reason) => Wellformed(rec') \/ rec' = k)
  BY <1>3, StoredIs
<1> HIDE DEF k, known, stored
<1>11. /\ rec' \in Snapshots /\ Wellformed(rec') /\ rec'.id = r.id /\ rec'.kind = r.kind
       /\ (r.kind = "reset" => rec'.parts = r.parts)
       /\ rec'.state \in { r.state, "Partial", "Failed" }
  BY <1>1, <1>7, <1>8, <1>9, <1>10 DEF Is
<1>12. Kept(r, m, boot, link, cut, hist)
  BY <1>1, <1>5 DEF Kept, Typed, Recovers, Writes
<1>13. Kept(rec', m, boot, link, cut, hist)
  <2>1. r.kind = "reset" /\ r.parts = "sent" => hist.acked
    BY <1>1 DEF Kept, Tells
  <2>2. r.state \in Active
    BY <1>2 DEF isActive
  <2> QED
    BY <1>1, <1>2, <1>11, <1>12, <2>1, <2>2, Replaced DEF Active, Early
<1>14. Fresh(rec', m, link)
  <2>1. rec'.state = "Recapturing" => m.age = 2
    BY <1>2, <1>11 DEF TimedOut
  <2> QED BY <1>1, <2>1 DEF Fresh, Recaptures, Gates
<1>15. push' \in { cut, Lost(cut) }
  BY <1>3
<1> QED BY <1>1, <1>2, <1>4, <1>13, <1>14, <1>15, Cancels

\* Terminates: a finished operation returns to maintenance, or stays.
LEMMA Terminates ==
  ASSUME NEW r, NEW m, Attended(r, m), TerminalStep(r, m)
  PROVE  IInv'
<1>1. /\ Kept(r, m, boot, link, push, hist) /\ boot.mode = "drive" /\ trouble \in 0..MaxTrouble
      /\ m \in Gates /\ boot \in Boots
  BY DEF Attended, Ready, Kept, Typed
<1>2. isTerminal(r) /\ hist' = hist
  BY DEF TerminalStep
<1>3. CASE r.ret /\ ~m.armed
  <2> DEFINE n == [ m EXCEPT !.armed = TRUE ]
  <2>1. Keeps(n, m) /\ n.admitted = m.admitted
    <3>1. PICK yes \in BOOLEAN : yes
      OBVIOUS
    <3>2. n = [ m EXCEPT !.armed = yes ]
      BY <3>1
    <3> QED BY <1>1, <3>2 DEF Gates, Keeps
  <2>2. ReturnToMaintenance(r, n)
    BY <1>3 DEF TerminalStep
  <2> HIDE DEF n
  <2>3. Kept(r, n, boot, link, push, hist)
    BY <1>1, <2>1
    DEF Kept, Typed, Sound, Recovers, Writes, Tells, Once, Still, Keeps
  <2> QED BY <1>1, <1>2, <2>2, <2>3, Returns
<1>4. CASE ~(r.ret /\ ~m.armed)
  <2>1. rec' = r /\ CommandCancelled(m) /\ UNCHANGED << boot, push, trouble >>
    BY <1>4 DEF TerminalStep
  <2>2. Fresh(r, m, link)
    BY <1>2 DEF Fresh, Recaptures, isTerminal, Terminal
  <2> QED BY <1>1, <1>2, <2>1, <2>2, Cancels
<1> QED BY <1>3, <1>4

\* Dropped: another detector is disconnected.
LEMMA Dropped ==
  ASSUME NEW r, NEW m, Ready(r, m), DropWrongDetector(r, m), UNCHANGED trouble
  PROVE  IInv'
<1>1. Kept(r, m, boot, link, push, hist) /\ m \in Gates
  BY DEF Ready, Kept, Typed
<1> DEFINE n == [ m EXCEPT !.wrong = FALSE ]
<1>2. Keeps(n, m)
  <2>1. PICK no \in BOOLEAN : ~no
    OBVIOUS
  <2>2. n = [ m EXCEPT !.wrong = no ]
    BY <2>1
  <2> QED BY <1>1, <2>2 DEF Gates, Keeps
<1>3. /\ rec' = r /\ link' = NoLink /\ ram' = LinkLost(n) /\ push' = Lost(push)
      /\ UNCHANGED << boot, hist >>
  BY DEF DropWrongDetector
<1> HIDE DEF n
<1>4. Keeps(ram', m)
  BY <1>2, <1>3, LinkLostKeeps DEF Keeps
<1> QED BY <1>1, <1>3, <1>4, Leaves DEF Ready

\* GivenUp: a frame of another operation is given up.
LEMMA GivenUp ==
  ASSUME NEW r, NEW m, Ready(r, m), InFlight, rec' = r, CommandCancelled(Bookkept(r, m)),
         UNCHANGED << boot, push, hist, trouble >>
  PROVE  IInv'
<1> DEFINE b == Bookkept(r, m)
<1>1. Kept(r, b, boot, NoLink, push, hist) /\ b \in Gates
  BY BookkeptKept, NoLinkIs DEF Kept, Typed
<1>2. link' = NoLink /\ ram' = LinkLost(b)
  BY DEF CommandCancelled
<1> HIDE DEF b
<1>3. Keeps(ram', b)
  BY <1>1, <1>2, LinkLostKeeps
<1>4. Kept(r, ram', boot, NoLink, push, hist)
  BY <1>1, <1>3
  DEF Kept, Typed, Sound, Recovers, Writes, Tells, Once, Still, Keeps
<1>5. Fresh(r, ram', NoLink)
  BY NoLinkIs DEF Fresh, Recaptures
<1> QED BY <1>2, <1>4, <1>5, Goes DEF Ready
-----------------------------------------------------------------------------
(* The factory reset.                                                      *)

\* Resetting: a reset that runs, or is about to.
Resetting(r, m) ==
    /\ Ready(r, m) /\ m.observed = r.id /\ r.state = "Running" /\ r.kind = "reset"

\* BothWritesAre: the outcomes of two writes.
LEMMA BothWritesAre ==
  ASSUME NEW oks \in BothWrites
  PROVE  DOMAIN oks = 1..2 /\ oks[1] \in BOOLEAN
<1>1. PICK a \in BOOLEAN, b \in BOOLEAN : oks = << a, a => b >>
  BY DEF BothWrites
<1> QED BY <1>1

\* Written: both writes of an outcome.
LEMMA Written ==
  ASSUME NEW r, NEW m, NEW l, NEW h, NEW oks, NEW parts \in { "failed", "sent" },
         NEW reason \in { "ResetScopeUnverified", "ResetSendFailed" },
         Kept(r, m, boot, l, push, h), r.state = "Running", r.kind = "reset", ~m.pending,
         boot.mode = "drive", parts = "sent" => h.acked,
         SetReset(r, m, l, h, oks, parts, reason), DOMAIN oks = 1..2,
         trouble \in 0..MaxTrouble, UNCHANGED << boot, push >>
  PROVE  IInv'
<1>1. r \in Snapshots /\ Wellformed(r) /\ isActive(r) /\ (r.parts = "sent" => h.acked)
      /\ ~push.active /\ r.id # 0
  BY DEF Kept, Typed, Sound, Tells, Writes, isActive, Active, requiresExclusiveDetectorAdmission
<1> DEFINE k == Stored(r, WithParts(r, parts, 0), oks[1])
<1>2. /\ ram' = m /\ link' = l /\ hist' = h /\ Spends(oks)
      /\ rec' = CASE parts = "failed" -> Stored(k, Finished(k, "Failed", reason), oks[2])
                  [] parts = "sent" /\ oks[1] -> Stored(k, To(k, "Recapturing", reason), oks[2])
                  [] OTHER -> k
  BY DEF SetReset
<1>3. trouble' \in 0..MaxTrouble
  BY <1>2, TokensSpent
<1>4. /\ k \in Snapshots /\ Wellformed(k) /\ k.id = r.id /\ k.kind = "reset" /\ k.state = "Running"
      /\ k.parts \in { r.parts, parts }
  <2>1. parts \in PartStates /\ 0 \in 0..MaxPush
    BY BoundAssumption DEF PartStates
  <2>2. Has(WithParts(r, parts, 0), r, parts, 0)
    BY <1>1, <2>1, PartsSet
  <2> QED BY <1>1, <2>2, StoredIs DEF Has
<1> HIDE DEF k
<1>5. /\ Is(Finished(k, "Failed", reason), k, "Failed", reason)
      /\ Is(To(k, "Recapturing", reason), k, "Recapturing", reason)
  BY <1>4, ToMoves DEF Terminal, Active, Reasons, BeforeSend
<1>6. \/ rec' = k
      \/ rec' = Finished(k, "Failed", reason) /\ Wellformed(rec')
      \/ rec' = To(k, "Recapturing", reason) /\ Wellformed(rec')
  BY <1>2, StoredIs
<1>7. /\ rec' \in Snapshots /\ Wellformed(rec') /\ rec'.id = r.id /\ rec'.kind = "reset"
      /\ rec'.state \in { "Running", "Failed", "Recapturing" } /\ rec'.parts \in { r.parts, parts }
  BY <1>4, <1>5, <1>6 DEF Is
<1>8. Kept(rec', m, boot, l, push, h)
  BY <1>1, <1>7, Replaced DEF Early
<1>9. Fresh(rec', m, l)
  BY <1>7 DEF Fresh, Recaptures
<1> QED BY <1>2, <1>3, <1>8, <1>9, Goes

\* Unanswered: an attempt that only waits.
LEMMA Unanswered ==
  ASSUME NEW r, NEW m, NEW l, NEW h, Kept(r, m, boot, l, push, h), r.kind = "reset",
         boot.mode = "drive", ResetWaits(r, m, l, h), trouble \in 0..MaxTrouble,
         UNCHANGED << boot, push >>
  PROVE  IInv'
<1>1. Fresh(r, m, l)
  BY DEF Fresh, Recaptures
<1> QED BY <1>1, Goes DEF ResetWaits

\* Attempts: a frame is made when none was, and the record follows its outcome.
LEMMA Attempts ==
  ASSUME NEW r, NEW m, Resetting(r, m), AttemptReset(r, m), UNCHANGED << boot, push >>
  PROVE  IInv'
<1>1. /\ Kept(r, m, boot, link, push, hist) /\ boot.mode = "drive" /\ trouble \in 0..MaxTrouble
      /\ r \in Snapshots /\ Wellformed(r) /\ m \in Gates /\ ~m.pending
      /\ link \in Sessions /\ hist \in Latches /\ m.observed = r.id
      /\ r.state = "Running" /\ r.kind = "reset" /\ boot.loaded
  BY DEF Resetting, Ready, Kept, Typed, Sound
<1>2. PICK yes \in BOOLEAN : yes = TRUE
  OBVIOUS
<1>3. \* the frame is out, its record is not yet
      CASE m.sent
  <2>1. hist.acked
    BY <1>1, <1>3 DEF Kept, Tells
  <2>2. PICK oks \in BothWrites :
          LET known == IF m.saved THEN r ELSE Stored(r, WithParts(r, "sent", 0), oks[1])
          IN /\ Spends(<< m.saved \/ oks[1], (m.saved \/ oks[1]) => oks[2] >>)
             /\ rec' = IF m.saved \/ oks[1]
                       THEN Stored(known, To(known, "Recapturing", "ResetScopeUnverified"), oks[2])
                       ELSE r
             /\ ram' = [ m EXCEPT !.saved = m.saved \/ oks[1] ]
             /\ UNCHANGED << link, hist >>
    BY <1>3 DEF AttemptReset
  <2>3. trouble' \in 0..MaxTrouble
    BY <1>1, <2>2, TwoSpent
  <2> DEFINE k == IF m.saved THEN r ELSE Stored(r, WithParts(r, "sent", 0), oks[1])
  <2>4. /\ k \in Snapshots /\ Wellformed(k) /\ k.id = r.id /\ k.kind = "reset"
        /\ k.state = "Running"
    <3>1. "sent" \in PartStates /\ 0 \in 0..MaxPush
      BY BoundAssumption DEF PartStates
    <3>2. Has(WithParts(r, "sent", 0), r, "sent", 0)
      BY <1>1, <3>1, PartsSet
    <3> QED BY <1>1, <3>2, StoredIs DEF Has
  <2>5. rec' = r \/ rec' = k
        \/ (rec' = To(k, "Recapturing", "ResetScopeUnverified") /\ Wellformed(rec'))
    BY <2>2, StoredIs
  <2> HIDE DEF k
  <2>6. Is(To(k, "Recapturing", "ResetScopeUnverified"), k, "Recapturing", "ResetScopeUnverified")
    BY <2>4, ToMoves DEF Active, Reasons
  <2>7. /\ rec' \in Snapshots /\ Wellformed(rec') /\ rec'.id = r.id /\ rec'.kind = "reset"
        /\ rec'.state \in { "Running", "Recapturing" }
    BY <1>1, <2>4, <2>5, <2>6 DEF Is
  <2>8. /\ ram' \in Gates
        /\ ram'.pending = m.pending /\ ram'.observed = m.observed /\ ram'.sent = m.sent
        /\ ram'.started = m.started /\ ram'.boundary = m.boundary /\ ram'.admitted = m.admitted
    <3>1. PICK saved \in BOOLEAN : saved <=> (m.saved \/ oks[1])
      OBVIOUS
    <3>2. ram' = [ m EXCEPT !.saved = saved ]
      BY <2>2, <3>1
    <3> QED BY <1>1, <3>2 DEF Gates, Keeps
  <2>9. Kept(r, ram', boot, link, push, hist)
    BY <1>1, <2>8 DEF Kept, Typed, Sound, Recovers, Writes, Tells, Once, Still
  <2>10. ~push.active /\ isActive(r)
    BY <1>1 DEF Kept, Writes, isActive, Active, requiresExclusiveDetectorAdmission
  <2>11. Kept(rec', ram', boot, link, push, hist)
    BY <1>1, <2>1, <2>7, <2>8, <2>9, <2>10, Replaced DEF Early
  <2>12. Fresh(rec', ram', link)
    BY <2>7 DEF Fresh, Recaptures
  <2>13. link' = link /\ hist' = hist
    BY <2>2
  <2> QED BY <1>1, <2>3, <2>11, <2>12, <2>13, Goes
<1>4. ASSUME NEW n, NEW l, NEW h, Kept(r, n, boot, l, push, h), ~n.pending, ResetFailed(r, n, l, h)
      PROVE  IInv'
  <2>1. PICK oks \in BOOLEAN \X BOOLEAN :
          SetReset(r, n, l, h, oks, "failed",
                   IF n.admitted # "no" THEN "ResetScopeUnverified" ELSE "ResetSendFailed")
    BY <1>4 DEF ResetFailed
  <2>2. DOMAIN oks = 1..2
    OBVIOUS
  <2> QED BY <1>1, <1>4, <2>1, <2>2, Written
<1>5. ASSUME NEW n \in Gates, NEW l, NEW h, Kept(r, n, boot, l, push, h), ~n.pending, h.acked,
             ResetSent(r, n, l, h)
      PROVE  IInv'
  <2>1. PICK oks \in BothWrites :
          SetReset(r, [ n EXCEPT !.sent = TRUE, !.saved = oks[1] ], l, h, oks, "sent",
                   "ResetScopeUnverified")
    BY <1>5 DEF ResetSent
  <2> DEFINE sent == [ n EXCEPT !.sent = TRUE, !.saved = oks[1] ]
  <2>2. DOMAIN oks = 1..2 /\ oks[1] \in BOOLEAN
    BY BothWritesAre
  <2>3. /\ sent \in Gates /\ sent.pending = n.pending /\ sent.observed = n.observed
        /\ sent.started = n.started /\ sent.boundary = n.boundary /\ sent.admitted = n.admitted
    <3>1. sent = [ n EXCEPT !.sent = yes, !.saved = oks[1] ]
      BY <1>2
    <3> QED BY <1>5, <2>2, <3>1 DEF Gates
  <2>4. SetReset(r, sent, l, h, oks, "sent", "ResetScopeUnverified")
    BY <2>1
  <2> HIDE DEF sent
  <2>5. Kept(r, sent, boot, l, push, h)
    BY <1>5, <2>3 DEF Kept, Typed, Sound, Recovers, Writes, Tells, Once, Still
  <2>6. "sent" \in { "failed", "sent" }
        /\ "ResetScopeUnverified" \in { "ResetScopeUnverified", "ResetSendFailed" }
    OBVIOUS
  <2>7. ~sent.pending
    BY <1>5, <2>3
  <2> QED BY <1>1, <1>5, <2>2, <2>4, <2>5, <2>6, <2>7, Written
<1>6. CASE ~m.sent /\ JobLost(m)
  BY <1>1, <1>4, <1>6 DEF AttemptReset
<1> DEFINE here == [ m EXCEPT !.admitted = "here" ]
<1>7. /\ here \in Gates /\ here.pending = m.pending /\ here.observed = m.observed
      /\ here.sent = m.sent /\ here.started = m.started /\ here.boundary = m.boundary
      /\ here.admitted = "here"
  BY <1>1 DEF Gates
<1> HIDE DEF here
<1>8. Kept(r, here, boot, link, push, hist)
  BY <1>1, <1>7 DEF Kept, Typed, Sound, Recovers, Writes, Tells, Once, Still
<1>9. \* the frame is in flight
      CASE ~m.sent /\ ~JobLost(m) /\ link.cmd = "flight"
  <2>1. ResetWaits(r, here, link, hist)
    BY <1>9 DEF AttemptReset, here
  <2> QED BY <1>1, <1>8, <2>1, Unanswered
<1>10. \* it was acknowledged
       CASE ~m.sent /\ ~JobLost(m) /\ link.cmd = "done"
  <2> DEFINE l == [ link EXCEPT !.cmd = "idle" ]
  <2>1. ResetSent(r, m, l, hist)
    BY <1>10 DEF AttemptReset
  <2>2. l \in Sessions /\ l.cmd = "idle"
    BY <1>1 DEF Sessions
  <2> HIDE DEF l
  <2>3. hist.acked
    BY <1>1, <1>10 DEF Kept, Tells
  <2>4. Kept(r, m, boot, l, push, hist)
    BY <1>1, <2>2, <2>3 DEF Kept, Typed, Tells, Still
  <2> QED BY <1>1, <1>5, <2>1, <2>3, <2>4
<1>11. \* no frame was made
       CASE ~m.sent /\ ~JobLost(m) /\ link.cmd \notin { "flight", "done" }
  <2> DEFINE l == Delivered(link)
             f == [ l EXCEPT !.cmd = "flight" ]
             made == [ hist EXCEPT !.frames = Frames ]
             made2 == [ hist EXCEPT !.frames = Frames, !.acked = TRUE ]
  <2>1. \/ ResetWaits(r, m, link, hist)
        \/ ResetFailed(r, m, link, hist)
        \/ Acknowledged /\ ResetWaits(r, here, f, made)
        \/ ~Acknowledged /\ ResetSent(r, m, l, made2)
        \/ ~Acknowledged /\ ResetFailed(r, LinkLost(m), NoLink, made)
    BY <1>11 DEF AttemptReset, here
  <2>2. m.admitted = "no" /\ link.cmd = "idle"
    BY <1>1, <1>11 DEF JobLost, InFlight, Gates, Sessions
  <2>3. Acknowledged => hist.frames = 0
    BY <1>1, <2>2 DEF Kept, Once
  <2>4. Frames \in 0..2 /\ (hist.frames = 0 => Frames = 1)
    BY <1>1 DEF Frames, Latches
  <2>5. made \in Latches /\ made.frames = Frames /\ made.acked = hist.acked
    BY <1>1, <2>4 DEF Latches
  <2>6. made2 \in Latches /\ made2.acked
    <3>1. made2 = [ hist EXCEPT !.frames = Frames, !.acked = yes ]
      BY <1>2
    <3> QED BY <1>1, <1>2, <2>4, <3>1 DEF Latches
  <2>7. l \in Sessions /\ l.cmd = link.cmd /\ f \in Sessions /\ f.cmd = "flight"
    BY <1>1 DEF Delivered, Sessions
  <2> HIDE DEF l, f, made, made2
  <2>8. CASE ResetWaits(r, m, link, hist)
    BY <1>1, <2>8, Unanswered
  <2>9. CASE ResetFailed(r, m, link, hist)
    BY <1>1, <1>4, <2>9
  <2>10. CASE Acknowledged /\ ResetWaits(r, here, f, made)
    <3>1. Kept(r, here, boot, f, push, made)
      BY <1>1, <1>7, <2>3, <2>4, <2>5, <2>7, <2>10
      DEF Kept, Typed, Sound, Recovers, Writes, Tells, Once, Still, Proven, Early
    <3> QED BY <1>1, <2>10, <3>1, Unanswered
  <2>11. CASE ~Acknowledged /\ ResetSent(r, m, l, made2)
    <3>1. Kept(r, m, boot, l, push, made2)
      BY <1>1, <2>6, <2>7, <2>11
      DEF Kept, Typed, Sound, Recovers, Writes, Tells, Still, Proven
    <3> QED BY <1>1, <1>5, <2>6, <2>11, <3>1
  <2>12. CASE ~Acknowledged /\ ResetFailed(r, LinkLost(m), NoLink, made)
    <3>1. Kept(r, LinkLost(m), boot, NoLink, push, made) /\ ~LinkLost(m).pending
      BY <1>1, <2>5, <2>12, LinkLostKeeps, NoLinkIs
      DEF Kept, Typed, Sound, Recovers, Writes, Tells, Still, Proven, Keeps
    <3> QED BY <1>1, <1>4, <2>12, <3>1
  <2> QED BY <2>1, <2>8, <2>9, <2>10, <2>11, <2>12
<1> QED BY <1>3, <1>6, <1>9, <1>10, <1>11
-----------------------------------------------------------------------------
(* The capture before the first write, and the loop as a whole.            *)

\* Captures: what was captured is stored, then the operation runs.
LEMMA Captures ==
  ASSUME NEW r, NEW m, Attended(r, m), CaptureStep(r, m)
  PROVE  IInv'
<1>1. /\ Kept(r, m, boot, link, push, hist) /\ boot.mode = "drive" /\ trouble \in 0..MaxTrouble
      /\ r \in Snapshots /\ Wellformed(r) /\ m \in Gates /\ ~m.pending
      /\ push \in Executions /\ m.observed = r.id
  BY DEF Attended, Ready, Kept, Typed, Sound
<1>2. r.state \in { "WaitingForDetector", "Preparing" } /\ boot' = boot
  BY DEF CaptureStep, Capturable
<1>3. /\ isActive(r) /\ r.reason = "None" /\ r.exec = 0 /\ ~push.active
      /\ (r.kind = "reset" /\ r.parts = "sent" => hist.acked)
  BY <1>1, <1>2
  DEF Kept, Tells, Writes, Wellformed, isActive, Active, Terminal, requiresExclusiveDetectorAdmission
\* A record the capture leads to is one that follows r.
<1>4. ASSUME NEW n \in Snapshots, Wellformed(n), n.id = r.id, n.kind = r.kind,
             n.state \in { r.state, "Running", "Failed" }, n.parts = "sent" => n.parts = r.parts
      PROVE  Kept(n, m, boot, link, push, hist) /\ Fresh(n, m, link)
  <2>1. Kept(n, m, boot, link, push, hist)
    BY <1>1, <1>2, <1>3, <1>4, Replaced DEF Early
  <2>2. Fresh(n, m, link)
    BY <1>2, <1>4 DEF Fresh, Recaptures
  <2> QED BY <2>1, <2>2
<1>5. CASE /\ \E ok \in BOOLEAN :
                /\ Spends(<< FALSE, ok >>)
                /\ rec' = Stored(r, Finished(r, "Failed", "SnapshotStoreUnavailable"), ok)
           /\ ram' = m /\ UNCHANGED << link, push, hist >>
  <2>1. PICK ok \in BOOLEAN :
          /\ Spends(<< FALSE, ok >>)
          /\ rec' = Stored(r, Finished(r, "Failed", "SnapshotStoreUnavailable"), ok)
    BY <1>5
  <2>2. trouble' \in 0..MaxTrouble
    BY <1>1, <2>1, TwoSpent
  <2>3. Is(Finished(r, "Failed", "SnapshotStoreUnavailable"), r, "Failed", "SnapshotStoreUnavailable")
    BY <1>1, ToMoves DEF Terminal, Reasons, BeforeSend
  <2>4. /\ rec' \in Snapshots /\ Wellformed(rec') /\ rec'.id = r.id /\ rec'.kind = r.kind
        /\ rec'.state \in { r.state, "Failed" } /\ rec'.parts = r.parts
    BY <1>1, <2>1, <2>3, StoredIs DEF Is
  <2>5. Kept(rec', m, boot, link, push, hist) /\ Fresh(rec', m, link)
    BY <1>4, <2>4
  <2> QED BY <1>1, <1>2, <1>5, <2>2, <2>5, Goes
<1>6. CASE /\ r.kind = "reset" /\ UNCHANGED push
           /\ LET pending == WithParts(r, "pending", 0)
                  running == To(pending, "Running", "None")
              IN \/ /\ \E kept \in { r, pending } : rec' = kept
                    /\ Spends(<< FALSE >>) /\ ram' = m /\ UNCHANGED << link, hist >>
                 \/ AttemptReset(running, m)
  <2> DEFINE pending == WithParts(r, "pending", 0)
             running == To(pending, "Running", "None")
  <2>1. Has(pending, r, "pending", 0)
    <3>1. "pending" \in PartStates /\ 0 \in 0..MaxPush
      BY BoundAssumption DEF PartStates
    <3> QED BY <1>1, <3>1, PartsSet
  <2>2. Wellformed(pending)
    BY <1>1, <1>2, <1>3, <2>1 DEF Has, Wellformed, BeganReset, Active, Terminal
  <2>3. Is(running, pending, "Running", "None")
    BY <2>1, ToMoves DEF Has, Active, Reasons
  <2>4. Wellformed(running)
    BY <2>1, <2>3 DEF Has, Is, Wellformed, BeganReset, Active, Terminal
  <2>5. \/ rec' \in { r, pending } /\ Spends(<< FALSE >>) /\ ram' = m /\ UNCHANGED << link, hist >>
        \/ AttemptReset(running, m)
    BY <1>6
  <2> HIDE DEF pending, running
  <2>6. CASE rec' \in { r, pending } /\ Spends(<< FALSE >>) /\ ram' = m /\ UNCHANGED << link, hist >>
    <3>1. trouble' \in 0..MaxTrouble
      BY <1>1, <2>6, OneSpent
    <3>2. Kept(rec', m, boot, link, push, hist) /\ Fresh(rec', m, link)
      BY <1>1, <1>4, <2>1, <2>2, <2>6 DEF Has
    <3> QED BY <1>1, <1>2, <1>6, <2>6, <3>1, <3>2, Goes
  <2>7. CASE AttemptReset(running, m)
    <3>1. Kept(running, m, boot, link, push, hist)
      BY <1>4, <2>1, <2>3, <2>4 DEF Has, Is
    <3>2. Resetting(running, m)
      BY <1>1, <1>6, <2>1, <2>3, <3>1 DEF Attended, Ready, Resetting, Has, Is
    <3> QED BY <1>2, <1>6, <2>7, <3>2, Attempts
  <2> QED BY <2>5, <2>6, <2>7
<1>7. CASE /\ r.kind = "apply" /\ ram' = m /\ UNCHANGED << link, hist >>
           /\ LET running == [ To(r, "Running", "None") EXCEPT !.exec = 0 ] IN
              \/ rec' = r /\ Spends(<< FALSE >>) /\ UNCHANGED push
              \/ \E ok \in BOOLEAN :
                   /\ Spends(<< ok >>) /\ UNCHANGED push
                   /\ rec' = Stored(running, Finished(running, "Failed", "QueueRejected"), ok)
              \/ \E ok \in BOOLEAN :
                   /\ ~push.active /\ push.id < MaxPush
                   /\ Spends(<< ok >>) /\ push' = Queued(r.id)
                   /\ rec' = Stored(running, WithParts(running, "none", push.id + 1), ok)
  <2> DEFINE t == To(r, "Running", "None")
             running == [ t EXCEPT !.exec = 0 ]
  <2>1. Is(t, r, "Running", "None")
    BY <1>1, ToMoves DEF Active, Reasons
  <2>2. /\ running \in Snapshots /\ running.id = r.id /\ running.kind = "apply"
        /\ running.state = "Running" /\ running.reason = "None" /\ running.exec = 0
        /\ running.parts = r.parts
    <3> HIDE DEF t
    <3>1. PICK zero \in 0..MaxPush : zero = 0
      BY BoundAssumption
    <3>2. running = [ t EXCEPT !.exec = zero ]
      BY <3>1
    <3> QED BY <1>7, <2>1, <3>1, <3>2 DEF Is, Snapshots
  <2>3. \/ rec' = r /\ Spends(<< FALSE >>) /\ UNCHANGED push
        \/ \E ok \in BOOLEAN :
             /\ Spends(<< ok >>) /\ UNCHANGED push
             /\ rec' = Stored(running, Finished(running, "Failed", "QueueRejected"), ok)
        \/ \E ok \in BOOLEAN :
             /\ ~push.active /\ push.id < MaxPush
             /\ Spends(<< ok >>) /\ push' = Queued(r.id)
             /\ rec' = Stored(running, WithParts(running, "none", push.id + 1), ok)
    BY <1>7
  <2> HIDE DEF running
  <2>4. Wellformed(running)
    BY <2>2 DEF Wellformed, BeganReset, Active, Terminal
  <2>5. trouble' \in 0..MaxTrouble
    BY <1>1, <2>3, OneSpent
  <2>6. CASE rec' = r /\ UNCHANGED push
    <3>1. Kept(rec', m, boot, link, push, hist) /\ Fresh(rec', m, link)
      BY <1>1, <1>4, <2>6
    <3> QED BY <1>1, <1>2, <1>7, <2>5, <2>6, <3>1, Goes
  <2>7. CASE \E ok \in BOOLEAN : /\ UNCHANGED push
                                 /\ rec' = Stored(running, Finished(running, "Failed", "QueueRejected"), ok)
    <3>1. Is(Finished(running, "Failed", "QueueRejected"), running, "Failed", "QueueRejected")
      BY <2>2, ToMoves DEF Terminal, Reasons
    <3>2. /\ rec' \in Snapshots /\ Wellformed(rec') /\ rec'.id = r.id /\ rec'.kind = r.kind
          /\ rec'.state \in { "Running", "Failed" } /\ rec'.parts = r.parts
      BY <1>7, <2>2, <2>4, <2>7, <3>1, StoredIs DEF Is
    <3>3. Kept(rec', m, boot, link, push, hist) /\ Fresh(rec', m, link)
      BY <1>4, <3>2
    <3> QED BY <1>1, <1>2, <1>7, <2>5, <2>7, <3>3, Goes
  <2>8. CASE \E ok \in BOOLEAN :
               /\ push.id < MaxPush /\ push' = Queued(r.id)
               /\ rec' = Stored(running, WithParts(running, "none", push.id + 1), ok)
    <3>1. push.id + 1 \in 0..MaxPush /\ "none" \in PartStates /\ push.id # MaxPush
      BY <1>1, <2>8, BoundAssumption DEF Executions, PartStates
    <3>2. Has(WithParts(running, "none", push.id + 1), running, "none", push.id + 1)
      BY <2>2, <3>1, PartsSet
    <3>3. /\ rec' \in Snapshots /\ Wellformed(rec') /\ rec'.id = r.id /\ rec'.kind = r.kind
          /\ rec'.state = "Running" /\ rec'.parts \in { r.parts, "none" }
      BY <1>7, <2>2, <2>4, <2>8, <3>2, StoredIs DEF Has
    <3>4. Kept(rec', m, boot, link, push, hist) /\ Fresh(rec', m, link)
      BY <1>4, <3>3
    <3>5. push' \in Executions /\ push'.op = r.id
      <4>1. r.id \in 0..MaxOperation
        BY <1>1 DEF Snapshots
      <4> QED BY <1>1, <2>8, <3>1, <4>1, QueuedIs
    <3>6. Kept(rec', m, boot, link, push', hist)
      BY <1>1, <1>7, <3>3, <3>4, <3>5 DEF Kept, Typed, Recovers, Writes
    <3> QED BY <1>1, <1>2, <1>7, <2>5, <3>4, <3>6, Goes
  <2> QED BY <2>3, <2>6, <2>7, <2>8
<1> QED BY <1>5, <1>6, <1>7 DEF CaptureStep

\* Acts: the step of an operation that runs in time.
LEMMA Acts ==
  ASSUME NEW r, NEW m, Attended(r, m), FreshGate(r, m, link), ActiveStep(r, m)
  PROVE  IInv'
<1> DEFINE n == SessionObserved(r, m)
<1>1. Attended(r, n) /\ FreshGate(r, n, link) /\ n.age = m.age
  BY SessionIs
<1>2. ~TimedOut(r, n)
  BY <1>1 DEF ActiveStep, TimedOut
<1>3. \/ Waits(r, n) \/ CaptureStep(r, n) \/ BeginRecapture(r, n) \/ RunningReset(r, n)
      \/ RunningApply(r, n) \/ FinishStep(r, n) \/ IdleStep(r, n)
  BY DEF ActiveStep
<1> HIDE DEF n
<1>4. CASE Waits(r, n) \/ IdleStep(r, n)
  BY <1>1, <1>4, Waited
<1>5. CASE CaptureStep(r, n)
  BY <1>1, <1>5, Captures
<1>6. CASE BeginRecapture(r, n)
  BY <1>1, <1>6, Begins
<1>7. CASE RunningReset(r, n)
  <2>1. Resetting(r, n) /\ AttemptReset(r, n) /\ UNCHANGED << boot, push >>
    BY <1>1, <1>7 DEF RunningReset, Resetting, Attended
  <2> QED BY <2>1, Attempts
<1>8. CASE RunningApply(r, n)
  BY <1>1, <1>8, Runs
<1>9. CASE FinishStep(r, n)
  BY <1>1, <1>2, <1>9, Finishes
<1> QED BY <1>3, <1>4, <1>5, <1>6, <1>7, <1>8, <1>9

\* Loops: the body of the loop on a record it may look at.
LEMMA Loops ==
  ASSUME NEW r, NEW m, Ready(r, m), Fresh(r, m, link), Body(r, m)
  PROVE  IInv'
<1>1. CASE m.wrong
  BY <1>1, Dropped DEF Body
<1>2. CASE ~m.wrong
  <2> DEFINE b == Bookkept(r, m)
  <2>1. CASE r.id # m.observed /\ InFlight
    <3>1. rec' = r /\ CommandCancelled(b) /\ UNCHANGED << boot, push, hist, trouble >>
      BY <1>2, <2>1 DEF Body
    <3> QED BY <2>1, <3>1, GivenUp
  <2>2. CASE ~(r.id # m.observed /\ InFlight)
    <3>1. Attended(r, b) /\ FreshGate(r, b, link)
      <4>1. r.id # m.observed => link.cmd = "idle"
        BY <2>2 DEF InFlight
      <4>2. /\ Kept(r, b, boot, link, push, hist) /\ ~b.pending
            /\ b.observed = r.id /\ b.seen = r.state
        BY <4>1, BookkeptKept
      <4> HIDE DEF b
      <4> QED BY <4>2, BookkeptFresh DEF Attended, Ready, b
    <3>2. TerminalStep(r, b) \/ TimeoutStep(r, b) \/ ActiveStep(r, b)
      BY <1>2, <2>2 DEF Body
    <3> HIDE DEF b
    <3> QED BY <3>1, <3>2, Terminates, TimesOut, Acts
  <2> QED BY <2>1, <2>2
<1> QED BY <1>1, <1>2

\* Processes: the loop.
LEMMA Processes ==
  ASSUME IInv, processSettingsOperation
  PROVE  IInv'
<1>1. CASE ~ram.pending
  <2>1. Ready(rec, ram) /\ Fresh(rec, ram, link)
    BY <1>1 DEF IInv, Ready, processSettingsOperation, Driving
  <2>2. Body(rec, ram)
    BY <1>1 DEF processSettingsOperation
  <2> QED BY <2>1, <2>2, Loops
<1>2. CASE ram.pending
  <2> DEFINE r == NormalBoot(rec)
             m == [ ram EXCEPT !.pending = FALSE ]
  <2>1. Ready(r, m) /\ Fresh(r, m, link)
    BY <1>2, Recovered DEF processSettingsOperation
  <2>2. \/ Spends(<< FALSE >>) /\ UNCHANGED << rec, boot, ram, link, push, hist >>
        \/ Body(r, m)
    BY <1>2 DEF processSettingsOperation
  <2> HIDE DEF r, m
  <2>3. CASE Spends(<< FALSE >>) /\ UNCHANGED << rec, boot, ram, link, push, hist >>
    <3>1. trouble' \in 0..MaxTrouble
      BY <2>3, OneSpent DEF IInv
    <3> QED
      BY <2>3, <3>1
      DEF IInv, Kept, Typed, Sound, Recovers, Writes, Tells, Once, Still, Proven, Fresh,
          Recaptures, Parked
  <2>4. CASE Body(r, m)
    BY <2>1, <2>4, Loops
  <2> QED BY <2>2, <2>3, <2>4
<1> QED BY <1>1, <1>2
-----------------------------------------------------------------------------
\* Steps: every step keeps the invariant.
LEMMA Steps == IInv /\ [Next]_vars => IInv'
<1> SUFFICES ASSUME IInv, [Next]_vars PROVE IInv'
  OBVIOUS
<1>1. CASE UNCHANGED vars
  BY <1>1
  DEF vars, IInv, Kept, Typed, Sound, Recovers, Writes, Tells, Once, Still, Proven, Fresh,
      Recaptures, Parked
<1>2. ASSUME NEW peer \in { "target", "other" }, Connect(peer) PROVE IInv'
  BY <1>2, Connects
<1>3. CASE Disconnect \/ Observe \/ CommandAnswered \/ PowerLoss \/ Boot
  BY <1>3, Disconnects, Observes, Answers, LosesPower, Starts
<1>4. ASSUME NEW kind \in { "apply", "reset" }, StartFromUi(kind) PROVE IInv'
  BY <1>4, AsksFor
<1>5. CASE AcknowledgeDelivered \/ LeaveMaintenance \/ TripleTap
  BY <1>5, Delivers, LeavesMaintenance, Taps
<1>6. CASE PushWrites
  BY <1>6, Writing
<1>7. ASSUME NEW result \in { "Succeeded", "Partial", "Failed", "BoxFailed" }, PushEnds(result)
      PROVE IInv'
  BY <1>7, Ended
<1>8. CASE FollowupComplete \/ processSettingsOperation
  BY <1>8, Follows, Processes
<1>9. CASE Ages \/ ReturnDue \/ AskMaintenance
  BY <1>9, Ageing, AsksMaintenance
<1> QED
  BY <1>1, <1>2, <1>3, <1>4, <1>5, <1>6, <1>7, <1>8, <1>9 DEF Next

\* Invariant: the inductive invariant holds throughout.
THEOREM Invariant == Spec => []IInv
<1>1. Init => IInv
  BY AnyInit
<1>2. IInv /\ [Next]_vars => IInv'
  BY Steps
<1> QED BY <1>1, <1>2, PTL DEF Spec

\* TruthfulAlways: whatever a write without a response may leave open, the
\* record claims no reset the detector has not acknowledged, success rests on
\* settings read after the last write, and nothing else writes while an
\* operation holds the detector (finishSettingsRecapture, V1DestructiveSendLatch,
\* handleSettingsOperationStableConnection).
THEOREM TruthfulAlways == Spec => [](TypeOK /\ ResetClaimIsTrue /\ SuccessIsFresh /\ OneMutator)
<1>1. IInv => TypeOK /\ ResetClaimIsTrue /\ SuccessIsFresh /\ OneMutator
  BY DEF IInv, Kept, Typed, Tells, Writes, Proven, TypeOK, ResetClaimIsTrue, SuccessIsFresh,
         OneMutator, hasDurableFactoryResetSend
<1> QED BY <1>1, Invariant, PTL

\* OperationSafeAlways: with acknowledged writes, the reset frame is also sent at
\* most once (V1DestructiveSendLatch, beginNormalBoot).
THEOREM OperationSafeAlways ==
  ASSUME Acknowledged
  PROVE  Spec => []OperationSafe
<1>1. IInv => OperationSafe
  <2> SUFFICES ASSUME IInv PROVE OperationSafe
    OBVIOUS
  <2>1. TypeOK /\ ResetClaimIsTrue /\ SuccessIsFresh /\ OneMutator
    BY DEF IInv, Kept, Typed, Tells, Writes, Proven, TypeOK, ResetClaimIsTrue, SuccessIsFresh,
           OneMutator, hasDurableFactoryResetSend
  <2>2. hist.frames \in 0..2 /\ (hist.frames # 0 => hist.frames = 1)
    BY DEF IInv, Kept, Typed, Once, Latches
  <2> QED BY <2>1, <2>2 DEF OperationSafe, ResetAtMostOnce
<1> QED BY <1>1, Invariant, PTL
=============================================================================
