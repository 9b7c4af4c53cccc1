------------------------- MODULE SettingsOperation -------------------------
(***************************************************************************)
(* The one durable detector operation (V1SettingsOperationStore): a profile*)
(* apply or a factory reset, bound to one detector.  Maintenance mode      *)
(* writes its record and restarts; the drive runtime waits for the         *)
(* detector, captures its settings, lets the executor (auto push) write or *)
(* sends the reset frame, captures again and finishes the record; it then  *)
(* returns to maintenance.  Power may be lost between any two steps, every *)
(* write of the record may fail, the link may drop or show another         *)
(* detector.                                                               *)
(*                                                                         *)
(* A failed write leaves flash as it was, so that the copy in RAM of a     *)
(* record that could be read is the record itself.  Times are phases:      *)
(* age 1 is past the detector wait, age 2 past the operation timeout.      *)
(***************************************************************************)
EXTENDS Integers, FiniteSets

CONSTANTS MaxOperation,  \* operations started
          MaxPush,       \* executions of the auto push in one boot
          MaxBoots,      \* power losses
          MaxTrouble,    \* failed reads and writes
          Acknowledged   \* TRUE: commands are written with a response

ASSUME BoundAssumption ==
    /\ { MaxOperation, MaxPush, MaxBoots, MaxTrouble } \subseteq Nat
    /\ Acknowledged \in BOOLEAN

VARIABLES rec,      \* the record in flash (and in RAM, when it was read)
          boot,     \* how the device runs, and the maintenance boot request
          ram,      \* the drive runtime's bookkeeping of the operation
          link,     \* the detector connected, its follow-up and its answers
          push,     \* the auto push executor and its summary
          hist,     \* what really happened to the operation (ghost)
          trouble

vars == << rec, boot, ram, link, push, hist, trouble >>

Active == { "PendingNormalBoot", "WaitingForDetector", "Preparing", "Running",
            "Recapturing" }
Terminal == { "Succeeded", "Partial", "Failed" }
BeforeSend == { "DetectorTimeout", "SnapshotStoreUnavailable", "Interrupted",
                "StorageUnavailable" }
Reasons == BeforeSend \cup
           { "None", "QueueRejected", "ApplyPartial", "ApplyFailed", "InTheBoxPersistFailed",
             "ResetSendFailed", "ResetScopeUnverified", "RecaptureTimedOut",
             "SnapshotPersistFailed" }
\* The components of the record as a whole: what was requested of them, and
\* how far it came.
PartStates == { "none", "pending", "sent", "verified", "failed" }

NoRecord == [ id |-> 0, kind |-> "none", state |-> "None", reason |-> "None",
              ret |-> FALSE, exec |-> 0, parts |-> "none" ]
NoHistory == [ frames |-> 0, acked |-> FALSE, capture |-> "none" ]
FreshRam == [ pending |-> FALSE, observed |-> 0, seen |-> "None", age |-> 0,
              boundary |-> FALSE, started |-> FALSE, gate |-> "unset",
              sent |-> FALSE, admitted |-> "no", saved |-> FALSE,
              wrong |-> FALSE, armed |-> FALSE ]
NoLink == [ peer |-> "none", followup |-> FALSE, obs |-> "none", answered |-> FALSE,
            cmd |-> "idle" ]
IdlePush == [ id |-> 0, op |-> 0, active |-> FALSE, result |-> "None", parts |-> "none" ]

\* The stored record, the gate of fresh observations and what one boot keeps of
\* the operation, and what was sent of a reset.
Snapshots == [ id : 0..MaxOperation, kind : { "none", "apply", "reset" },
               state : Active \cup Terminal \cup { "None" }, reason : Reasons,
               ret : BOOLEAN, exec : 0..MaxPush, parts : PartStates ]
Gates == [ pending : BOOLEAN, observed : 0..MaxOperation,
           seen : Active \cup Terminal \cup { "None" }, age : 0..2,
           boundary : BOOLEAN, started : BOOLEAN, gate : { "unset", "begun", "done" },
           sent : BOOLEAN, admitted : { "no", "here", "gone" }, saved : BOOLEAN,
           wrong : BOOLEAN, armed : BOOLEAN ]
Latches == [ frames : 0..2, acked : BOOLEAN, capture : { "none", "before", "after" } ]
\* How the device runs, the session with the detector, and the executor.
Boots == [ mode : { "off", "drive", "maintenance" }, loaded : BOOLEAN,
           request : BOOLEAN, losses : 0..MaxBoots ]
Sessions == [ peer : { "none", "target", "other" }, followup : BOOLEAN,
              obs : { "none", "before", "after" }, answered : BOOLEAN,
              cmd : { "idle", "flight", "done" } ]
Results == { "None", "InProgress", "Succeeded", "Partial", "Failed", "BoxFailed" }
Executions == [ id : 0..MaxPush, op : 0..MaxOperation, active : BOOLEAN,
                result : Results, parts : PartStates ]

TypeOK ==
    /\ rec \in Snapshots /\ ram \in Gates /\ hist \in Latches /\ boot \in Boots
    /\ link \in Sessions /\ push \in Executions /\ trouble \in 0..MaxTrouble

-----------------------------------------------------------------------------
(* The record. *)

BeganReset(r) == \/ r.state \in { "Running", "Recapturing", "Partial" }
                 \/ r.state = "Failed" /\ r.reason \notin BeforeSend
\* What decodeRecord accepts, of records the store itself builds.
Wellformed(r) ==
    /\ r.state \in Active \ { "Recapturing" } => r.reason = "None"
    /\ r.state = "Succeeded" =>
         /\ r.reason = "None" /\ r.kind # "reset" /\ r.parts \in { "none", "verified" }
    /\ r.state \in { "Partial", "Failed" } => r.reason # "None"
    /\ r.kind = "reset" /\ BeganReset(r) => r.parts # "none"
    /\ r.exec # 0 => /\ r.kind # "reset"
                     /\ r.state \in { "Running", "Recapturing" } \cup Terminal

\* writeRecord: the record is replaced as a whole, or not at all.
Stored(old, new, ok) == IF ok /\ Wellformed(new) THEN new ELSE old

Failures(oks) == Cardinality({ i \in DOMAIN oks : ~oks[i] })
Spends(oks) == trouble' = trouble + Failures(oks) /\ trouble' <= MaxTrouble

isActive(r) == r.state \in Active
isTerminal(r) == r.state \in Terminal
requiresExclusiveDetectorAdmission(r) == isActive(r) \/ (isTerminal(r) /\ r.ret)
hasDurableFactoryResetSend(r) == r.kind = "reset" /\ r.parts = "sent"

To(r, state, reason) == [ r EXCEPT !.state = state, !.reason = reason ]
Finished(r, state, reason) == To(r, state, reason)
WithParts(r, parts, exec) == [ r EXCEPT !.parts = parts, !.exec = exec ]

\* mutant: an operation that was running is tried again.
TriesAgain(r) ==
    IF r.state \in Active \ { "PendingNormalBoot" }
    THEN [ To(r, "WaitingForDetector", "None") EXCEPT !.exec = 0 ]
    ELSE IF r.state = "PendingNormalBoot" THEN To(r, "WaitingForDetector", "None") ELSE r
\* beginNormalBoot: what the record of the last boot becomes.
NormalBoot(r) ==
    CASE r.state = "PendingNormalBoot" -> [ To(r, "WaitingForDetector", "None") EXCEPT !.exec = 0 ]
      [] r.state \in { "WaitingForDetector", "Preparing" } -> To(r, "Failed", "Interrupted")
      [] r.state = "Running" -> To(r, "Recapturing", "Interrupted")
      [] r.state = "Recapturing" -> To(r, "Partial", "Interrupted")
      [] OTHER -> r
MayBoot(r, ok) == r.state # "None" /\ (isTerminal(r) \/ ok)

\* A new record; identities are never reused.
NewRecord(kind, state, ret) ==
    [ NoRecord EXCEPT !.id = rec.id + 1, !.kind = kind, !.state = state, !.ret = ret ]
MayStart == boot.loaded /\ ~requiresExclusiveDetectorAdmission(rec) /\ rec.id < MaxOperation

-----------------------------------------------------------------------------
(* Links and power. *)

\* A session that ends takes its follow-up, its command and its freshness.
LinkLost(m) == [ m EXCEPT !.gate = "unset",
                          !.admitted = IF @ = "here" THEN "gone" ELSE @ ]
Lost(p) == IF p.active
           THEN [ p EXCEPT !.active = FALSE,
                           !.result = IF p.parts \in { "none", "pending" } THEN "Failed" ELSE "Partial",
                           !.parts = IF @ \in { "none", "pending" } THEN "failed" ELSE @ ]
           ELSE p

Driving == boot.mode = "drive"

Connect(peer) ==
    /\ Driving /\ link.peer = "none"
    /\ link' = [ NoLink EXCEPT !.peer = peer, !.followup = TRUE ]
    /\ UNCHANGED << rec, boot, ram, push, hist, trouble >>

Disconnect ==
    /\ Driving /\ link.peer # "none"
    /\ link' = NoLink /\ ram' = LinkLost(ram) /\ push' = Lost(push)
    /\ UNCHANGED << rec, boot, hist, trouble >>

\* The detector reports its settings.
Observe ==
    /\ Driving /\ link.peer # "none" /\ (link.obs # "after" \/ ~link.answered)
    /\ link' = [ link EXCEPT !.obs = "after", !.answered = TRUE ]
    /\ UNCHANGED << rec, boot, ram, push, hist, trouble >>

\* The command worker's write of the reset frame is acknowledged.
CommandAnswered ==
    /\ Driving /\ link.cmd = "flight"
    /\ link' = [ link EXCEPT !.cmd = "done", !.obs = IF @ = "none" THEN @ ELSE "before" ]
    /\ hist' = [ hist EXCEPT !.acked = TRUE ]
    /\ UNCHANGED << rec, boot, ram, push, trouble >>

PowerOff(request) == boot' = [ boot EXCEPT !.mode = "off", !.loaded = FALSE, !.request = request ]
RamLost == /\ ram' = FreshRam /\ link' = NoLink /\ push' = IdlePush

PowerLoss ==
    /\ boot.mode # "off" /\ boot.losses < MaxBoots
    /\ boot' = [ boot EXCEPT !.mode = "off", !.loaded = FALSE, !.losses = @ + 1 ]
    /\ RamLost
    /\ UNCHANGED << rec, hist, trouble >>

\* setup: the boot request is read and cleared; the record is read; a
\* maintenance boot consumes a return intent, a normal boot recovers the job.
Boot ==
    /\ boot.mode = "off"
    /\ \E read, ok \in BOOLEAN :
        /\ Spends(<< read, ok >>)
        /\ boot' = [ boot EXCEPT !.mode = IF boot.request THEN "maintenance" ELSE "drive",
                                 !.loaded = read, !.request = FALSE ]
        /\ rec' = IF ~read THEN rec
                  ELSE IF boot.request
                       THEN IF isTerminal(rec) THEN Stored(rec, [ rec EXCEPT !.ret = FALSE ], ok) ELSE rec
                       ELSE Stored(rec, NormalBoot(rec), ok)
        /\ ram' = [ FreshRam EXCEPT !.pending = ~boot.request /\ read /\ rec.id # 0 /\ ~MayBoot(rec, ok) ]
    /\ UNCHANGED << link, push, hist >>

-----------------------------------------------------------------------------
(* Starting an operation. *)

\* A request of the maintenance UI: the record first, then the restart.
StartFromUi(kind) ==
    /\ boot.mode = "maintenance" /\ MayStart
    /\ \E ok \in BOOLEAN :
        /\ Spends(<< ok >>)
        /\ IF ok
           THEN /\ rec' = NewRecord(kind, "PendingNormalBoot", TRUE)
                /\ hist' = NoHistory /\ PowerOff(FALSE) /\ RamLost
           ELSE UNCHANGED << rec, hist, boot, ram, link, push >>

\* The UI has been given the result, or asks again for it.
AcknowledgeDelivered ==
    /\ boot.mode = "maintenance" /\ boot.loaded /\ isTerminal(rec) /\ rec.ret
    /\ rec' = [ rec EXCEPT !.ret = FALSE ]
    /\ UNCHANGED << boot, ram, link, push, hist, trouble >>

LeaveMaintenance ==
    /\ boot.mode = "maintenance" /\ PowerOff(FALSE) /\ RamLost
    /\ UNCHANGED << rec, hist, trouble >>

\* beginTripleTapProfileCycle: an apply to the detector that is connected.
TripleTap ==
    /\ Driving /\ link.peer # "none" /\ ~push.active /\ MayStart
    /\ \E ok, prepared, failed \in BOOLEAN :
        /\ Spends(<< ok, ok => prepared, (ok /\ ~prepared) => failed >>)
        /\ LET new == NewRecord("apply", "WaitingForDetector", FALSE) IN
           IF ~ok THEN UNCHANGED << rec, ram, link, hist >>
           ELSE /\ rec' = IF prepared THEN To(new, "Preparing", "None")
                          ELSE IF failed THEN Finished(new, "Failed", "StorageUnavailable") ELSE new
                /\ ram' = IF prepared THEN [ ram EXCEPT !.observed = 0 ] ELSE ram
                /\ link' = [ link EXCEPT !.peer = "target" ]
                /\ hist' = NoHistory
    /\ UNCHANGED << boot, push >>

-----------------------------------------------------------------------------
(* The executor. *)

Queued(op) == [ id |-> push.id + 1, op |-> op, active |-> TRUE, result |-> "InProgress",
                parts |-> "none" ]

PushWrites ==
    /\ Driving /\ push.active /\ link.peer # "none"
    /\ push' = [ push EXCEPT !.parts = "sent" ]
    /\ link' = [ link EXCEPT !.obs = IF @ = "none" THEN @ ELSE "before" ]
    /\ UNCHANGED << rec, boot, ram, hist, trouble >>

PushEnds(result) ==
    /\ Driving /\ push.active /\ link.peer # "none"
    /\ push' = [ push EXCEPT !.active = FALSE, !.result = result,
                             !.parts = IF result \in { "Succeeded", "BoxFailed" } THEN "verified"
                                       ELSE IF @ = "sent" THEN "sent" ELSE "failed" ]
    /\ UNCHANGED << rec, boot, ram, link, hist, trouble >>

\* Without an operation the slot of the detector is applied, where that is on.
OrdinaryPush == { push } \cup IF push.active \/ push.id = MaxPush THEN {} ELSE { Queued(0) }

\* onV1Connected: the follow-up of a connection or of a recapture is complete.
\* A durable operation takes the connection; an unreadable one blocks it.
FollowupComplete ==
    /\ Driving /\ link.followup
    /\ link' = [ link EXCEPT !.followup = FALSE ]
    /\ IF ~boot.loaded THEN UNCHANGED << ram, push >>
       ELSE IF requiresExclusiveDetectorAdmission(rec)
            THEN /\ ram' = IF link.peer # "target" THEN [ ram EXCEPT !.wrong = TRUE ]
                           ELSE IF rec.state \in { "Recapturing", "WaitingForDetector", "Preparing" }
                           THEN [ ram EXCEPT !.gate = "done" ] ELSE ram
                 /\ UNCHANGED push
            ELSE /\ push' \in OrdinaryPush
                 /\ UNCHANGED ram
    /\ UNCHANGED << rec, boot, hist, trouble >>

-----------------------------------------------------------------------------
(* processSettingsOperation.  r and m are the record and the bookkeeping   *)
(* after its prologue: the recovery of a boot whose write had failed, and  *)
(* the reset of the bookkeeping when the operation or its state changed.   *)

NewOperation(r) == [ FreshRam EXCEPT !.observed = r.id, !.seen = r.state ]
NewState(r, m) == IF r.state = "Recapturing"
                  THEN [ m EXCEPT !.seen = r.state, !.boundary = FALSE, !.started = FALSE,
                                  !.gate = "unset" ]
                  ELSE [ m EXCEPT !.seen = r.state ]
Bookkept(r, m) ==
    IF r.id # m.observed THEN NewOperation(r)
    ELSE IF r.state # m.seen THEN NewState(r, m) ELSE m

InFlight == link.cmd # "idle"
\* cancelCommand: a frame in flight is given up with its session.
CommandCancelled(m) ==
    IF InFlight THEN link' = NoLink /\ ram' = LinkLost(m) ELSE link' = link /\ ram' = m

matchingDetector == link.peer = "target"
\* observeSession: what was captured in an earlier session is not fresh.
SessionObserved(r, m) ==
    IF matchingDetector /\ m.gate = "unset"
    THEN IF r.state \in { "Preparing", "Recapturing" }
         THEN [ m EXCEPT !.gate = "begun", !.boundary = FALSE, !.started = FALSE ]
         ELSE [ m EXCEPT !.gate = "begun" ]
    ELSE m

Complete(bounded) == link.obs # "none" /\ (bounded => link.answered)

\* requestMaintenanceBootRestart: the boot request, then the acknowledgement,
\* and the request rolled back when that fails.
ReturnToMaintenance(r, m) ==
    \E flushed, asked, acked, undone \in BOOLEAN :
        LET tried == flushed /\ asked
            done == tried /\ acked
        IN /\ Spends(<< flushed, flushed => asked, tried => acked, (tried /\ ~acked) => undone >>)
           /\ IF done
              THEN /\ rec' = IF isTerminal(r) THEN [ r EXCEPT !.ret = FALSE ] ELSE r
                   /\ PowerOff(TRUE) /\ RamLost
              ELSE /\ rec' = r /\ CommandCancelled(m) /\ UNCHANGED push
                   /\ boot' = [ boot EXCEPT !.request = IF tried THEN ~undone ELSE @ ]

TerminalStep(r, m) ==
    /\ isTerminal(r)
    /\ IF r.ret /\ ~m.armed
       THEN ReturnToMaintenance(r, [ m EXCEPT !.armed = TRUE ])
       ELSE /\ rec' = r /\ CommandCancelled(m) /\ UNCHANGED << boot, push, trouble >>
    /\ UNCHANGED hist

\* mutant: the operation as a whole is not timed.
WaitTimed(r, m) == r.state \in { "WaitingForDetector", "Preparing" } /\ m.age >= 1
TimedOut(r, m) == (r.state \in { "WaitingForDetector", "Preparing" } /\ m.age >= 1) \/ m.age = 2

MineToCancel(r) == /\ r.state = "Running" /\ r.kind = "apply" /\ push.id # 0
                   /\ r.exec \in { 0, push.id }

TimeoutStep(r, m) ==
    /\ isActive(r) /\ TimedOut(r, m)
    /\ CommandCancelled(m)
    /\ \E updated, ok \in BOOLEAN :
        LET waiting == r.state \in { "WaitingForDetector", "Preparing" }
            mine == ~waiting /\ MineToCancel(r)
            cut == IF mine THEN Lost(push) ELSE push
            known == IF mine THEN Stored(r, WithParts(r, cut.parts, cut.id), updated) ELSE r
            stored == mine => updated
            terminal == IF r.state = "Recapturing" \/ (mine /\ cut.parts \in { "sent", "verified" })
                        THEN "Partial" ELSE "Failed"
            reason == IF r.state = "Recapturing" THEN "RecaptureTimedOut" ELSE "DetectorTimeout"
        IN /\ Spends(<< mine => updated, stored => ok >>)
           /\ push' = IF InFlight THEN Lost(cut) ELSE cut
           /\ rec' = IF stored THEN Stored(known, Finished(known, terminal, reason), ok) ELSE r
    /\ UNCHANGED << boot, hist >>

Capturable(r, m) == /\ r.state \in { "WaitingForDetector", "Preparing" }
                    /\ matchingDetector /\ m.gate = "done"
PreApplyComplete(r, m) == Complete(r.state = "Preparing" /\ m.boundary)
\* The observation is not complete and its wait has not passed.
Waits(r, m) ==
    /\ \/ Capturable(r, m) /\ ~PreApplyComplete(r, m)
       \/ r.state = "Recapturing" /\ matchingDetector /\ m.gate = "done" /\ ~Complete(m.boundary)
    /\ rec' = r /\ ram' = m
    /\ UNCHANGED << boot, link, push, hist, trouble >>

\* attemptFactoryReset on record r: poll the frame that was admitted, never
\* make another, and latch what was sent before it is written down.
SetReset(r, m, l, h, oks, parts, reason) ==
    \* both writes of an outcome: components, then the next state
    LET known == Stored(r, WithParts(r, parts, 0), oks[1])
    IN /\ ram' = m /\ link' = l /\ hist' = h /\ Spends(oks)
       /\ rec' = CASE parts = "failed" -> Stored(known, Finished(known, "Failed", reason), oks[2])
                   [] parts = "sent" /\ oks[1] -> Stored(known, To(known, "Recapturing", reason), oks[2])
                   [] OTHER -> known

\* A second write that is not reached does not fail.
BothWrites == { << a, a => b >> : a, b \in BOOLEAN }
JobLost(m) == m.admitted = "gone" \/ (m.admitted = "here" /\ ~InFlight)
Frames == IF hist.frames < 2 THEN hist.frames + 1 ELSE 2
Delivered(l) == [ l EXCEPT !.obs = IF @ = "none" THEN @ ELSE "before" ]

ResetSent(r, m, l, h) ==
    \E oks \in BothWrites :
        SetReset(r, [ m EXCEPT !.sent = TRUE, !.saved = oks[1] ], l, h, oks, "sent",
                 "ResetScopeUnverified")
ResetFailed(r, m, l, h) ==
    \E oks \in BOOLEAN \X BOOLEAN :
        SetReset(r, m, l, h, oks, "failed",
                 IF m.admitted # "no" THEN "ResetScopeUnverified" ELSE "ResetSendFailed")
ResetWaits(r, m, l, h) == ram' = m /\ link' = l /\ hist' = h /\ rec' = r /\ UNCHANGED trouble

AttemptReset(r, m) ==
    IF m.sent
    THEN \E oks \in BothWrites :
            LET known == IF m.saved THEN r ELSE Stored(r, WithParts(r, "sent", 0), oks[1])
            IN /\ Spends(<< m.saved \/ oks[1], (m.saved \/ oks[1]) => oks[2] >>)
               /\ rec' = IF m.saved \/ oks[1]
                         THEN Stored(known, To(known, "Recapturing", "ResetScopeUnverified"), oks[2])
                         ELSE r
               /\ ram' = [ m EXCEPT !.saved = m.saved \/ oks[1] ]
               /\ UNCHANGED << link, hist >>
    ELSE IF JobLost(m) THEN ResetFailed(r, m, link, hist)
    ELSE CASE link.cmd = "flight" -> ResetWaits(r, [ m EXCEPT !.admitted = "here" ], link, hist)
           [] link.cmd = "done" -> ResetSent(r, m, [ link EXCEPT !.cmd = "idle" ], hist)
           [] OTHER ->
              \* factoryResetDetector makes a frame, or none
              \/ ResetWaits(r, m, link, hist)
              \/ ResetFailed(r, m, link, hist)
              \/ /\ Acknowledged
                 /\ ResetWaits(r, [ m EXCEPT !.admitted = "here" ], [ Delivered(link) EXCEPT !.cmd = "flight" ],
                               [ hist EXCEPT !.frames = Frames ])
              \/ /\ ~Acknowledged
                 /\ ResetSent(r, m, Delivered(link), [ hist EXCEPT !.frames = Frames, !.acked = TRUE ])
              \/ /\ ~Acknowledged   \* written, and then the session was gone
                 /\ ResetFailed(r, LinkLost(m), NoLink, [ hist EXCEPT !.frames = Frames ])

\* The capture before the first write is stored, then the operation runs.
\* queueSettingsApply: Running first, then the executor, then its identity.
CaptureStep(r, m) ==
    /\ Capturable(r, m)
    /\ \/ /\ \E ok \in BOOLEAN :   \* the snapshot cannot be recorded
                /\ Spends(<< FALSE, ok >>)
                /\ rec' = Stored(r, Finished(r, "Failed", "SnapshotStoreUnavailable"), ok)
          /\ ram' = m /\ UNCHANGED << link, push, hist >>
       \/ /\ r.kind = "reset" /\ UNCHANGED push
          /\ LET pending == WithParts(r, "pending", 0)
                 running == To(pending, "Running", "None")
             IN \/ /\ \E kept \in { r, pending } : rec' = kept   \* either write fails
                   /\ Spends(<< FALSE >>) /\ ram' = m /\ UNCHANGED << link, hist >>
                \/ AttemptReset(running, m)
       \/ /\ r.kind = "apply" /\ ram' = m /\ UNCHANGED << link, hist >>
          /\ LET running == [ To(r, "Running", "None") EXCEPT !.exec = 0 ] IN
             \/ rec' = r /\ Spends(<< FALSE >>) /\ UNCHANGED push
             \/ \E ok \in BOOLEAN :   \* the executor refuses
                  /\ Spends(<< ok >>) /\ UNCHANGED push
                  /\ rec' = Stored(running, Finished(running, "Failed", "QueueRejected"), ok)
             \/ \E ok \in BOOLEAN :
                  /\ ~push.active /\ push.id < MaxPush
                  /\ Spends(<< ok >>) /\ push' = Queued(r.id)
                  /\ rec' = Stored(running, WithParts(running, "none", push.id + 1), ok)
    /\ UNCHANGED boot

\* A fresh capture is asked for; what the session sends from here on counts.
BeginRecapture(r, m) ==
    /\ matchingDetector /\ ~m.started
    /\ \/ r.state = "Preparing" /\ ~Capturable(r, m)
       \/ r.state = "Recapturing" /\ m.gate # "done"
    /\ rec' = r
    /\ IF link.followup
       THEN /\ ram' = [ m EXCEPT !.boundary = TRUE ] /\ link' = [ link EXCEPT !.answered = FALSE ]
       ELSE /\ ram' = [ m EXCEPT !.boundary = TRUE, !.started = TRUE, !.gate = "begun" ]
            /\ link' = [ link EXCEPT !.followup = TRUE, !.answered = FALSE ]
    /\ UNCHANGED << boot, push, hist, trouble >>

RunningReset(r, m) ==
    /\ r.state = "Running" /\ r.kind = "reset" /\ matchingDetector
    /\ AttemptReset(r, m)
    /\ UNCHANGED << boot, push >>

ResultReason == CASE push.result = "Succeeded" -> "None"
                  [] push.result = "Partial" -> "ApplyPartial"
                  [] push.result = "BoxFailed" -> "InTheBoxPersistFailed"
                  [] OTHER -> "ApplyFailed"
RunningApply(r, m) ==
    /\ r.state = "Running" /\ r.kind = "apply" /\ ram' = m
    /\ IF push.id = 0 \/ r.exec \notin { 0, push.id }
       THEN rec' = r /\ UNCHANGED trouble
       ELSE LET changed == r.exec # push.id \/ r.parts # push.parts
                new == WithParts(r, push.parts, push.id)
            IN \E updated, ok \in BOOLEAN :
                /\ Spends(<< changed => updated, ((changed => updated) /\ ~push.active) => ok >>)
                /\ LET known == IF changed THEN Stored(r, new, updated) ELSE r IN
                   rec' = IF (changed /\ ~updated) \/ push.active THEN known
                          ELSE Stored(known, To(known, "Recapturing", ResultReason), ok)
    /\ UNCHANGED << boot, link, push, hist >>

\* finishSettingsRecapture: the result, from the reason the record carries
\* and from whether the capture is complete.
Verdict(r, complete) ==
    LET reset == r.kind = "reset"
        proven == hasDurableFactoryResetSend(r)
        base == CASE reset /\ ~proven -> << "Partial", "Interrupted" >>
                  [] reset -> << "Partial", "ResetScopeUnverified" >>
                  [] r.reason = "ApplyFailed" -> << "Failed", r.reason >>
                  [] r.reason \in { "ApplyPartial", "InTheBoxPersistFailed", "Interrupted" }
                       -> << "Partial", r.reason >>
                  [] OTHER -> << "Succeeded", "None" >>
    IN IF ~complete /\ base[1] # "Failed" /\ base[2] # "InTheBoxPersistFailed" /\ ~(reset /\ ~proven)
       THEN << "Partial", "RecaptureTimedOut" >> ELSE base

FinishStep(r, m) ==
    /\ r.state = "Recapturing" /\ matchingDetector /\ m.gate = "done"
    /\ ram' = m
    /\ LET v == Verdict(r, Complete(m.boundary)) IN
       \/ \E ok \in BOOLEAN, why \in { "SnapshotStoreUnavailable", "SnapshotPersistFailed" } :
            /\ Spends(<< FALSE, ok >>)
            /\ rec' = Stored(r, Finished(r, "Failed", why), ok)
            /\ UNCHANGED hist
       \/ \E ok \in BOOLEAN :
            /\ Spends(<< ok >>)
            /\ rec' = Stored(r, Finished(r, v[1], v[2]), ok)
            /\ hist' = [ hist EXCEPT !.capture = IF ok /\ v[1] = "Succeeded" THEN link.obs ELSE @ ]
    /\ UNCHANGED << boot, link, push >>

IdleStep(r, m) ==
    /\ isActive(r)
    /\ ~matchingDetector \/ ~Capturable(r, m)
    /\ \/ r.state = "WaitingForDetector"
       \/ r.state = "Running" /\ r.kind = "reset" /\ ~matchingDetector
       \/ r.state \in { "Preparing", "Recapturing" } /\ (~matchingDetector \/ m.started) /\
          (r.state = "Recapturing" => ~matchingDetector \/ m.gate # "done")
    /\ rec' = r /\ ram' = m
    /\ UNCHANGED << boot, link, push, hist, trouble >>

ActiveStep(r, m0) ==
    /\ isActive(r) /\ ~TimedOut(r, m0)
    /\ LET m == SessionObserved(r, m0) IN
       \/ Waits(r, m) \/ CaptureStep(r, m) \/ BeginRecapture(r, m) \/ RunningReset(r, m)
       \/ RunningApply(r, m) \/ FinishStep(r, m) \/ IdleStep(r, m)

\* A detector that is not the target is disconnected.
DropWrongDetector(r, m) ==
    /\ m.wrong
    /\ rec' = r /\ link' = NoLink /\ ram' = LinkLost([ m EXCEPT !.wrong = FALSE ]) /\ push' = Lost(push)
    /\ UNCHANGED << boot, hist >>

Body(r, m) ==
    IF m.wrong THEN DropWrongDetector(r, m) /\ UNCHANGED trouble
    ELSE LET b == Bookkept(r, m) IN
         /\ r.id # 0
         /\ IF r.id # m.observed /\ InFlight
            THEN rec' = r /\ CommandCancelled(b) /\ UNCHANGED << boot, push, hist, trouble >>
            ELSE TerminalStep(r, b) \/ TimeoutStep(r, b) \/ ActiveStep(r, b)

processSettingsOperation ==
    /\ Driving /\ boot.loaded
    /\ IF ~ram.pending THEN Body(rec, ram)
       ELSE \/ /\ Spends(<< FALSE >>)       \* the recovery fails again
               /\ UNCHANGED << rec, boot, ram, link, push, hist >>
            \/ Body(NormalBoot(rec), [ ram EXCEPT !.pending = FALSE ])

\* Time passes: the operation ages, the return is due again.
Ages ==
    /\ Driving /\ isActive(rec) /\ ram.observed = rec.id /\ ram.age < 2
    /\ ram' = [ ram EXCEPT !.age = @ + 1 ]
    /\ UNCHANGED << rec, boot, link, push, hist, trouble >>
ReturnDue ==
    /\ Driving /\ ram.armed
    /\ ram' = [ ram EXCEPT !.armed = FALSE ]
    /\ UNCHANGED << rec, boot, link, push, hist, trouble >>
\* The driver asks for maintenance mode at any moment.
AskMaintenance ==
    /\ Driving /\ boot.losses < MaxBoots
    /\ \E ok \in BOOLEAN :
        IF isTerminal(rec) /\ rec.ret /\ boot.loaded
        THEN ReturnToMaintenance(rec, ram)
        ELSE /\ Spends(<< ok >>) /\ UNCHANGED rec
             /\ IF ok THEN /\ boot' = [ boot EXCEPT !.mode = "off", !.loaded = FALSE, !.request = TRUE,
                                                    !.losses = @ + 1 ]
                           /\ RamLost
                ELSE UNCHANGED << boot, ram, link, push >>
    /\ UNCHANGED hist

Init ==
    /\ rec = NoRecord /\ hist = NoHistory /\ trouble = 0
    /\ boot = [ mode |-> "maintenance", loaded |-> TRUE, request |-> FALSE, losses |-> 0 ]
    /\ ram = FreshRam /\ link = NoLink /\ push = IdlePush

Next ==
    \/ \E peer \in { "target", "other" } : Connect(peer)
    \/ Disconnect \/ Observe \/ CommandAnswered \/ PowerLoss \/ Boot
    \/ \E kind \in { "apply", "reset" } : StartFromUi(kind)
    \/ AcknowledgeDelivered \/ LeaveMaintenance \/ TripleTap
    \/ PushWrites \/ \E result \in { "Succeeded", "Partial", "Failed", "BoxFailed" } : PushEnds(result)
    \/ FollowupComplete \/ processSettingsOperation \/ Ages \/ ReturnDue \/ AskMaintenance

Spec == Init /\ [][Next]_vars
\* The loop runs, time passes, and a device that is switched off by its own
\* restart starts again.
\* Connections take seconds, the loop milliseconds: it also runs while no wrong
\* detector waits to be dropped, and the clock advances whatever connects.
Fairness == /\ WF_vars(processSettingsOperation) /\ SF_vars(processSettingsOperation /\ ~ram.wrong)
            /\ SF_vars(Ages) /\ WF_vars(ReturnDue) /\ WF_vars(Boot)
FairSpec == Spec /\ Fairness

-----------------------------------------------------------------------------
(* Properties. *)

\* A factory reset reaches the detector at most once: no lost acknowledgement,
\* failed write, reconnection or power loss sends the frame again.
ResetAtMostOnce == hist.frames <= 1
\* The record claims a reset only when the detector acknowledged one.
ResetClaimIsTrue == hasDurableFactoryResetSend(rec) => hist.acked
\* A result of success rests on settings read after the last write.
SuccessIsFresh == rec.state = "Succeeded" => hist.capture = "after"
\* While an operation holds the detector no other execution writes to it.
OneMutator == push.active /\ requiresExclusiveDetectorAdmission(rec) => push.op = rec.id
\* The durable operation as a whole: one reset frame at most, a record that tells
\* the truth and no second writer (V1DestructiveSendLatch, beginNormalBoot,
\* finishSettingsRecapture, handleSettingsOperationStableConnection).
OperationSafe == TypeOK /\ ResetAtMostOnce /\ ResetClaimIsTrue /\ SuccessIsFresh /\ OneMutator

\* An operation that a running drive mode can read gives the detector back: it
\* ends, and its return intent is consumed (unless the driver leaves first).
Held == requiresExclusiveDetectorAdmission(rec) /\ Driving /\ boot.loaded
GivenBack ==
    \/ ~requiresExclusiveDetectorAdmission(rec) \/ boot.mode = "maintenance"
    \/ Driving /\ ~boot.loaded
OperationEnds == Held ~> GivenBack

\* A record of success is about its own execution.
SuccessIsOwn ==
    [][rec.state = "Running" /\ rec'.state = "Recapturing" /\ rec'.reason = "None"
         => push.op = rec.id]_vars
=============================================================================
