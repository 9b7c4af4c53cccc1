------------------------------ MODULE AutoPush ------------------------------
(***************************************************************************)
(* The executor of one detector configuration (AutoPushModule): a queued   *)
(* plan is checked against the live detector, written component by         *)
(* component and read back; it ends as succeeded, partial or failed.  The  *)
(* command channel of the V1 client, the notifications of the detector, a  *)
(* hand on its knobs and a phone on the proxy run beside it.               *)
(*                                                                         *)
(* A value of a component is "p" or "q"; a table of custom frequencies is  *)
(* a set of definitions of the K and the Ka band, whose factory contents   *)
(* depend on the region.  Outcomes and reasons are kept as far as they     *)
(* decide the result.                                                      *)
(***************************************************************************)
EXTENDS Integers, Sequences, FiniteSets

CONSTANTS Plans,         \* what may be queued: see IsPlan
          StartUser,     \* the user bytes the detector begins with
          MaxOps,        \* operations queued
          MaxSessions,   \* sessions of the V1 client
          MaxHand,       \* changes made by hand or by a phone
          MaxAir,        \* notifications on their way
          Acknowledged   \* TRUE: commands are written with a response

VARIABLES op,      \* state_ of the executor
          status,  \* status_: result, and the components' flags
          edge,    \* the verified-apply edge of the client
          lease,   \* the volume transaction of the quiet coordinator
          snap,    \* preApplySnapshot_
          link,    \* the session of the V1 client
          cmd,     \* its one command, on the worker task
          air,     \* what the detector sent and was not received yet
          seen,    \* the latest observations, and which are past the boundary
          det,     \* the detector itself
          hand     \* changes nobody commanded

vars == << op, status, edge, lease, snap, link, cmd, air, seen, det, hand >>

Components == { "user", "display", "mode", "volume", "custom" }
Kinds == { "user", "display", "mode", "volume", "table", "sections", "max", "commit" }
KBand == { "k0", "k1", "k2" }
KaBand == { "a0", "a1", "a2" }
Factory(region) == IF region = "usa" THEN { "k0", "a0" } ELSE { "k1", "a1" }
UserBytes == [ region : { "usa", "euro" }, filter : BOOLEAN, rest : { "p", "q" } ]
IsPlan(p) == /\ p.req \subseteq Components /\ p.user \in UserBytes
             /\ p.display \in { "p", "q" } /\ p.mode \in { "advanced", "logic" }
             /\ p.volume \in { "p", "q" } /\ p.custom \subseteq KBand \cup KaBand

NoPlan == [ req |-> {}, user |-> StartUser, display |-> "p", mode |-> "logic",
            volume |-> "p", custom |-> {} ]
NoSnap == [ gen |-> 0, old |-> FALSE, val |-> << >> ]
Idle == [ step |-> "Idle", plan |-> NoPlan, before |-> NoSnap, gen |-> 0, send |-> "off",
          over |-> FALSE, inter |-> FALSE, final |-> FALSE, deferred |-> FALSE,
          write |-> StartUser, table |-> {}, left |-> {}, tx |-> FALSE, watch |-> "none" ]
NoCommand == [ ph |-> "idle", what |-> "ask", arg |-> "user", id |-> 0 ]

SendSteps == { "UserWrite", "UserRead", "DisplayWrite", "ModeWrite", "VolumeWrite",
               "VolumeRead", "CustomRefreshSections", "CustomRefreshMax",
               "CustomRefreshDefinitions", "CustomWrite", "CustomRead" }
VerifySteps == { "UserVerify", "DisplayVerify", "ModeVerify", "VolumeVerify",
                 "CustomRefreshVerify", "CustomCommitVerify", "CustomVerify" }

TypeOK ==
    /\ \A p \in Plans : IsPlan(p)
    /\ op.step \in { "Idle", "WaitReady", "Preflight" } \cup SendSteps \cup VerifySteps
    /\ op.send \in { "off", "on", "over" } /\ op.watch \in { "none", "ours", "other", "rejected" }
    /\ op.write \in UserBytes /\ op.left \subseteq op.table
    /\ op.gen \in 0..MaxSessions /\ snap.gen \in 0..MaxSessions
    /\ status.id \in 0..MaxOps
    /\ status.result \in { "NONE", "QUEUED", "SUCCEEDED", "PARTIAL", "FAILED" }
    /\ status.verified \subseteq status.req /\ status.needed \subseteq status.req
    /\ link.state \in { "up", "quiescing", "down" } /\ link.gen \in 0..MaxSessions
    /\ cmd.ph \in { "idle", "admitted", "started", "applied", "acked" }
    /\ Len(air) <= MaxAir /\ seen.fresh \subseteq Kinds
    /\ det.user \in UserBytes /\ det.table \subseteq KBand \cup KaBand
    /\ lease \in BOOLEAN /\ edge.pending \in BOOLEAN /\ hand.changes \in 0..MaxHand

NoSummary == [ id |-> 0, result |-> "NONE", reason |-> "NONE", req |-> {}, needed |-> {}, verified |-> {} ]
Init ==
    /\ det = [ user |-> StartUser, display |-> "p", mode |-> "advanced", volume |-> "p",
               table |-> Factory(StartUser.region), staged |-> {} ]
    /\ op = Idle /\ edge = [ pending |-> FALSE, gen |-> 0 ] /\ lease = FALSE /\ snap = NoSnap
    /\ status = NoSummary
    /\ link = [ state |-> "down", gen |-> 0, phone |-> FALSE ]
    /\ cmd = NoCommand /\ air = << >> /\ hand = [ changes |-> 0, touched |-> {} ]
    /\ seen = [ val |-> [ k \in { "user", "display", "mode", "volume", "table" } |-> det[k] ],
                fresh |-> {}, committed |-> FALSE ]

isActive == op.step # "Idle"
isConnected == link.state = "up"
liveSessionMatches == isConnected /\ link.gen = op.gen

-----------------------------------------------------------------------------
(* The detector. *)

Observable(k) == k \in { "user", "display", "mode", "volume", "table" }
Note(k, v) == [ k |-> k, v |-> v ]
\* The user bytes: a change of region resets the table, and Euro has no
\* advanced logic.
UserEffect(d, bytes) ==
    LET moved == bytes.region # d.user.region
    IN  [ d EXCEPT !.user = bytes,
                   !.table = IF moved THEN Factory(bytes.region) ELSE @,
                   !.staged = IF moved THEN {} ELSE @,
                   !.mode = IF moved /\ bytes.region = "euro" THEN "logic" ELSE @ ]
\* A definition waits for the commit, which replaces the table by the set
\* written since the last one.
DefinitionEffect(d, arg) ==
    IF arg.commit THEN [ d EXCEPT !.table = d.staged \cup { arg.def }, !.staged = {} ]
                  ELSE [ d EXCEPT !.staged = @ \cup { arg.def } ]
\* What a command does, and what the detector sends in return.  A volume or a
\* table may be refused; a question may stay without answer.
Reactions(what, arg) ==
    CASE what = "ask" ->
           { << det, << >> >>,
             << det, << Note(arg, IF Observable(arg) THEN det[arg] ELSE "x") >> >> }
      [] what = "user" -> { << UserEffect(det, arg), << >> >> }
      [] what \in { "display", "mode" } -> { << [ det EXCEPT ![what] = arg ], << >> >> }
      [] what = "volume" -> { << [ det EXCEPT !.volume = arg ], << >> >>,
                              << det, << Note("reject", "x") >> >> }
      [] what = "definition" ->
           LET done == DefinitionEffect(det, arg)
           IN  IF arg.commit THEN { << done, << >> >>, << done, << Note("commit", TRUE) >> >>,
                                    << det, << Note("commit", FALSE) >> >> }
                             ELSE { << done, << >> >> }

\* Display packets are sent all the time, and answers to what others asked.
Emit(k) ==
    /\ isConnected /\ Observable(k) /\ Len(air) < MaxAir - 1
    /\ \A i \in DOMAIN air : air[i].k # k
    /\ k \in { "display", "mode", "volume", "table" } /\ k \in status.req
    /\ air' = Append(air, Note(k, det[k]))
    /\ UNCHANGED << op, status, edge, lease, snap, link, cmd, seen, det, hand >>

ByHand(k) ==
    /\ isConnected /\ hand.changes < MaxHand /\ k \in { "display", "mode", "volume" }
    /\ k \in status.req
    /\ det' = [ det EXCEPT ![k] = IF k = "mode" THEN "logic" ELSE IF @ = "p" THEN "q" ELSE "p" ]
    /\ hand' = [ changes |-> hand.changes + 1, touched |-> hand.touched \cup { k } ]
    /\ UNCHANGED << op, status, edge, lease, snap, link, cmd, air, seen >>

-----------------------------------------------------------------------------
(* The session and its command channel. *)

Connect ==
    /\ link.state = "down" /\ link.gen < MaxSessions
    /\ link' = [ state |-> "up", gen |-> link.gen + 1, phone |-> FALSE ]
    /\ seen' = [ val |-> [ k \in DOMAIN seen.val |-> det[k] ], fresh |-> {}, committed |-> FALSE ]
    /\ hand' = [ hand EXCEPT !.touched = {} ]
    /\ UNCHANGED << op, status, edge, lease, snap, cmd, air, det >>

Quiesced == [ link EXCEPT !.state = "quiescing", !.phone = FALSE ]
\* The link dies, or a command that failed or timed out retires the session.
Retire ==
    /\ isConnected /\ link' = Quiesced
    /\ UNCHANGED << op, status, edge, lease, snap, cmd, air, seen, det, hand >>
\* The client is released once no worker uses it.
Released ==
    /\ link.state = "quiescing" /\ cmd.ph \in { "idle", "applied", "acked" }
    /\ link' = [ link EXCEPT !.state = "down" ] /\ cmd' = NoCommand /\ air' = << >>
    /\ UNCHANGED << op, status, edge, lease, snap, seen, det, hand >>

\* The boundary of an answer: nothing received before counts for it.
Awaited(what, arg) == IF what = "ask" THEN { arg }
                      ELSE IF what = "definition" THEN { "commit" } ELSE {}
\* The worker gives up a command of a session that ended, or notes what was
\* received before it writes.
WorkerStarts ==
    /\ cmd.ph = "admitted"
    /\ IF isConnected
       THEN /\ cmd' = [ cmd EXCEPT !.ph = "started" ]
            /\ seen' = [ seen EXCEPT !.fresh = @ \ Awaited(cmd.what, cmd.arg) ]
       ELSE cmd' = NoCommand /\ UNCHANGED seen
    /\ UNCHANGED << op, status, edge, lease, snap, link, air, det, hand >>
\* The write reaches the detector, or the dying link loses it.
WorkerWrites ==
    /\ cmd.ph = "started"
    /\ \/ /\ Len(air) < MaxAir
          /\ \E r \in Reactions(cmd.what, cmd.arg) :
               /\ det' = r[1] /\ Len(air) + Len(r[2]) < MaxAir
               /\ air' = air \o Append(r[2], Note("ack", "x"))
          /\ cmd' = [ cmd EXCEPT !.ph = "applied" ]
       \/ ~isConnected /\ cmd' = NoCommand /\ UNCHANGED << det, air >>
    /\ UNCHANGED << op, status, edge, lease, snap, link, seen, hand >>

Receive ==
    /\ isConnected /\ air # << >>
    /\ air' = Tail(air)
    /\ LET n == Head(air)
       IN  /\ cmd' = IF n.k = "ack" THEN [ cmd EXCEPT !.ph = "acked" ] ELSE cmd
           /\ op' = IF n.k = "reject" /\ (op.watch # "none" \/ op.step = "VolumeWrite")
                    THEN [ op EXCEPT !.watch = "rejected" ] ELSE op
           /\ seen' = CASE Observable(n.k) -> [ seen EXCEPT !.val[n.k] = n.v, !.fresh = @ \cup { n.k } ]
                        [] n.k \in { "sections", "max" } -> [ seen EXCEPT !.fresh = @ \cup { n.k } ]
                        [] n.k = "commit" -> [ seen EXCEPT !.fresh = @ \cup { n.k }, !.committed = n.v ]
                        [] OTHER -> seen
    /\ UNCHANGED << status, edge, lease, snap, link, det, hand >>

\* A phone takes over the detector; it may write the volume.
PhoneConnects ==
    /\ isConnected /\ ~link.phone /\ hand.changes < MaxHand
    /\ link' = [ link EXCEPT !.phone = TRUE ] /\ hand' = [ hand EXCEPT !.changes = @ + 1 ]
    /\ UNCHANGED << op, status, edge, lease, snap, cmd, air, seen, det >>
PhoneWritesVolume ==
    /\ isConnected /\ link.phone /\ "volume" \notin hand.touched
    /\ det' = [ det EXCEPT !.volume = IF @ = "p" THEN "q" ELSE "p" ]
    /\ hand' = [ hand EXCEPT !.touched = @ \cup { "volume" } ]
    /\ op' = IF op.watch = "none" THEN op ELSE [ op EXCEPT !.watch = "other" ]
    /\ UNCHANGED << status, edge, lease, snap, link, cmd, air, seen >>

-----------------------------------------------------------------------------
(* The end of an operation. *)

\* cancelCommand: a command still under way is not left for later.
Cancelled(c) == IF c.ph # "idle" /\ isConnected THEN Quiesced ELSE link
Allowed(st) == st.reason = "NONE" /\ st.req \subseteq st.verified
Judged(st) ==
    IF Allowed(st) THEN "SUCCEEDED"
    ELSE IF "custom" \in st.req \ st.verified \/ st.verified = {} THEN "FAILED" ELSE "PARTIAL"
\* finishOperation, with the flags and the reason collected in st; c is the
\* command the channel holds by then.
FinishHolding(st, c) ==
    \E stored \in BOOLEAN :
      LET reason == IF ~Allowed(st) THEN st.reason
                    ELSE IF ~liveSessionMatches THEN "SESSION_CHANGED"
                    ELSE IF ~stored THEN "IN_THE_BOX_PERSIST_FAILED" ELSE "NONE"
          ended == [ st EXCEPT !.reason = reason ]
          result == Judged(ended)
      IN  /\ stored \/ Allowed(st)
          /\ status' = [ ended EXCEPT !.result = result ]
          /\ edge' = [ pending |-> result = "SUCCEEDED",
                       gen |-> IF result = "SUCCEEDED" THEN op.gen ELSE edge.gen ]
          /\ lease' = (lease /\ ~op.tx)
          /\ link' = Cancelled(c) /\ op' = Idle /\ snap' = NoSnap /\ cmd' = c
          /\ UNCHANGED << air, seen, det, hand >>
FinishOperation(st) == FinishHolding(st, cmd)

\* failWholePlan, for component c ("none": no component of its own).
Failure(c, reason) == [ status EXCEPT !.verified = @ \ { c },
                                      !.reason = IF @ = "NONE" THEN reason ELSE @ ]
FailWholePlan(c, reason) == FinishOperation(Failure(c, reason))

-----------------------------------------------------------------------------
(* Queueing. *)

\* setPreApplySnapshot, at the end of a capture: the follow-up of a new
\* session, or the one a settings operation waits for, has read the detector.
\* An operation of an older session is ended first.
SetPreApplySnapshot ==
    LET read == [ k \in DOMAIN seen.val |-> det[k] ]
    IN  /\ isConnected /\ status.id < MaxOps /\ air = << >> /\ cmd.ph = "idle"
        /\ snap # [ gen |-> link.gen, old |-> FALSE, val |-> read ]
        /\ isActive => op.gen # link.gen
        /\ IF isActive
           THEN LET st == Failure("none", "SESSION_CHANGED")
                IN  /\ status' = [ st EXCEPT !.result = Judged(st) ]
                    /\ edge' = [ edge EXCEPT !.pending = FALSE ]
                    /\ lease' = (lease /\ ~op.tx) /\ op' = Idle
           ELSE UNCHANGED << status, edge, lease, op >>
        /\ seen' = [ seen EXCEPT !.val = read ]
        /\ snap' = [ gen |-> link.gen, old |-> FALSE, val |-> read ]
        /\ hand' = [ hand EXCEPT !.touched = {} ]
        /\ UNCHANGED << link, cmd, air, det >>

SnapshotAges ==
    /\ \/ snap.gen # 0 /\ ~snap.old /\ snap' = [ snap EXCEPT !.old = TRUE ] /\ UNCHANGED op
       \/ op.before.gen # 0 /\ ~op.before.old /\ op.step \in { "WaitReady", "Preflight" }
          /\ op' = [ op EXCEPT !.before.old = TRUE ] /\ UNCHANGED snap
    /\ UNCHANGED << status, edge, lease, link, cmd, air, seen, det, hand >>

\* A plan is staged, the slot made active if asked, and the operation begins;
\* it takes the snapshot with it.
Queue(plan) ==
    /\ isConnected /\ ~isActive /\ status.id < MaxOps
    /\ edge' = [ edge EXCEPT !.pending = FALSE ]
    /\ op' = [ Idle EXCEPT !.step = "WaitReady", !.plan = plan, !.before = snap, !.gen = link.gen ]
    /\ status' = [ id |-> status.id + 1, result |-> "QUEUED", reason |-> "NONE", req |-> plan.req,
                   needed |-> {}, verified |-> {} ]
    /\ snap' = NoSnap
    /\ UNCHANGED << lease, link, cmd, air, seen, det, hand >>

\* The drive runtime gives the operation up after a time limit of its own.
CancelForTimeout == isActive /\ FailWholePlan("none", "OPERATION_TIMEOUT")

-----------------------------------------------------------------------------
(* Preflight. *)

Bands(table) == { b \in { KBand, KaBand } : table \cap b # {} }
\* mutant: a band the plan has no definition for keeps those captured before.
CompiledFromOld(authored, live) ==
    authored \cup UNION { op.before.val.table \cap b : b \in { KBand, KaBand } \ Bands(authored) }
\* compileCustomDefinitions: bands without a definition of the plan keep
\* what the detector has.
Compiled(authored, live) ==
    authored \cup UNION { live \cap b : b \in { KBand, KaBand } \ Bands(authored) }

BeforeUser == op.before.val.user
RegionChanged == "user" \in op.plan.req /\ op.plan.user.region # BeforeUser.region
\* The live values still are those of the snapshot.
Baseline ==
    ({ "user" : c \in op.plan.req \cap { "user", "custom" } } \cup
     (op.plan.req \cap { "display", "mode", "volume" }) \cup
     { "table" : c \in op.plan.req \cap { "custom" } } \cup
     (IF RegionChanged /\ op.plan.user.region = "euro" THEN { "mode" } ELSE {}))
FilterWithoutTable ==
    /\ "user" \in op.plan.req /\ op.plan.user.filter /\ "custom" \notin op.plan.req
    /\ ~BeforeUser.filter \/ RegionChanged
EuroWithoutLogic ==
    LET region == IF "user" \in op.plan.req THEN op.plan.user.region ELSE BeforeUser.region
    IN  region = "euro" /\
        \/ "mode" \in op.plan.req /\ op.plan.mode = "advanced"
        \/ RegionChanged /\ op.before.val.mode = "advanced" /\ "mode" \notin op.plan.req
Admissible ==
    /\ op.before.gen # 0 /\ ~op.before.old /\ op.before.gen = op.gen
    /\ ~link.phone
    /\ \A k \in Baseline : seen.val[k] = op.before.val[k]
    /\ ~FilterWithoutTable /\ ~EuroWithoutLogic

\* What has to be written; a temporary volume always is.
Needed(table) ==
    { c \in op.plan.req :
        CASE c = "user" -> op.plan.user # BeforeUser
          [] c \in { "display", "mode" } -> op.plan[c] # op.before.val[c]
          [] c = "volume" -> TRUE
          [] c = "custom" -> RegionChanged \/ table # op.before.val.table }
\* The filter is enabled last, once a table is committed and read back.
EnablesLast ==
    /\ { "user", "custom" } \subseteq op.plan.req /\ op.plan.user.filter
    /\ ~BeforeUser.filter \/ RegionChanged

customEntryStep(deferred) == IF deferred THEN "CustomRefreshSections" ELSE "CustomWrite"
\* The first of the steps that are left, in their fixed order.
FirstStep(needed, verified, deferred) ==
    IF "display" \in needed THEN "DisplayWrite"
    ELSE IF "mode" \in needed THEN "ModeWrite"
    ELSE IF "volume" \in needed THEN "VolumeWrite"
    ELSE IF "custom" \in needed \ verified THEN customEntryStep(deferred) ELSE "Idle"

Proceeds(step) ==
    /\ op.step = step /\ liveSessionMatches /\ op.watch \notin { "other", "rejected" }

Ready == /\ Proceeds("WaitReady") /\ op' = [ op EXCEPT !.step = "Preflight" ]
         /\ UNCHANGED << status, edge, lease, snap, link, cmd, air, seen, det, hand >>

\* A plan the firmware or the live detector cannot take is refused as a
\* whole, before anything is written.
Preflight ==
    /\ Proceeds("Preflight")
    /\ \/ FailWholePlan("none", "REFUSED")
       \/ LET table == Compiled(op.plan.custom, op.before.val.table)
              deferred == "custom" \in op.plan.req /\ RegionChanged
              final == EnablesLast
              inter == final /\ RegionChanged
              needed == Needed(table) \cup (IF final THEN { "custom" } ELSE {})
              verified == op.plan.req \ needed
              first == IF inter THEN "UserWrite"
                       ELSE IF final THEN customEntryStep(deferred)
                       ELSE IF "user" \in needed THEN "UserWrite"
                       ELSE FirstStep(needed, verified, deferred)
              st == [ status EXCEPT !.needed = needed, !.verified = verified ]
          IN  /\ Admissible
              /\ "custom" \in op.plan.req /\ ~deferred => Bands(table) = { KBand, KaBand }
              /\ IF first = "Idle" THEN FinishOperation(st)
                 ELSE /\ op' = [ op EXCEPT !.step = first, !.inter = inter, !.final = final,
                                           !.deferred = deferred, !.table = table, !.left = table,
                                           !.write = [ op.plan.user EXCEPT !.filter = @ /\ ~inter ] ]
                      /\ status' = st
                      /\ UNCHANGED << edge, lease, snap, link, cmd, air, seen, det, hand >>

-----------------------------------------------------------------------------
(* process(): one step of the plan. *)

Gone == isActive /\ ~liveSessionMatches /\ FailWholePlan("none", "SESSION_CHANGED")
\* Another volume write, or a refusal of ours, is noticed at any later step.
VolumeContested ==
    /\ isActive /\ liveSessionMatches /\ op.watch \in { "other", "rejected" }
    /\ FailWholePlan("volume", "VOLUME_CONTESTED")

\* acceptSendResult, for NOT_YET and IN_FLIGHT; c is the command held then.
Waits(component, c) ==
    IF op.send = "over" THEN FinishHolding(Failure(component, "TIMEOUT"), c)
    ELSE /\ op' = [ op EXCEPT !.send = "on" ] /\ cmd' = c
         /\ UNCHANGED << status, edge, lease, snap, link, air, det, hand >>

Command(what, arg) == [ ph |-> "admitted", what |-> what, arg |-> arg, id |-> status.id ]
Sent(o, next) == [ o EXCEPT !.send = "off", !.over = FALSE, !.step = next ]
\* A display or mode observation counts once the write is done.
OnlyAfterWrite(what) == IF what \in { "display", "mode" } THEN { what } ELSE {}

\* One call of a command: o is the operation when it is sent, ours the lease.
Send(component, what, arg, o, ours) ==
    LET written == what # "ask"
        started == cmd.ph \in { "admitted", "started", "applied" }
        fresh == seen.fresh \ Awaited(what, arg)
    IN  \/ written /\ link.phone /\ FailWholePlan(component, "WRITE_FAILED")
        \/ /\ ~(written /\ link.phone)
           /\ \/ cmd.ph = "idle" /\ FailWholePlan(component, "WRITE_FAILED")
              \/ (started \/ cmd.ph = "idle") /\ Waits(component, cmd) /\ UNCHANGED seen
              \/ /\ Acknowledged /\ cmd.ph = "idle"
                 /\ Waits(component, Command(what, arg))
                 /\ op.send # "over" => seen' = [ seen EXCEPT !.fresh = fresh ]
              \/ /\ cmd.ph = "acked" /\ cmd' = NoCommand
                 /\ op' = o /\ lease' = ours
                 /\ seen' = [ seen EXCEPT !.fresh = @ \ OnlyAfterWrite(what) ]
                 /\ UNCHANGED << status, edge, snap, link, air, det, hand >>
              \/ /\ ~Acknowledged /\ op' = o /\ lease' = ours
                 /\ seen' = [ seen EXCEPT !.fresh = fresh \ OnlyAfterWrite(what) ]
                 /\ \E r \in Reactions(what, arg) :
                      /\ det' = r[1] /\ air' = air \o r[2] /\ Len(air') <= MaxAir
                 /\ UNCHANGED << status, edge, snap, link, cmd, hand >>

Verified(c) == [ status EXCEPT !.verified = @ \cup { c } ]
\* The next step after a component was verified, or the end.
Advance(st, next, o) ==
    IF next = "Idle" THEN FinishOperation(st)
    ELSE /\ op' = [ o EXCEPT !.step = next, !.over = FALSE ] /\ status' = st
         /\ UNCHANGED << edge, lease, snap, link, cmd, air, seen, det, hand >>
\* Nothing conclusive was observed by the deadline.
Deadline(component) == op.over /\ FailWholePlan(component, "TIMEOUT")

UserWrite == Proceeds("UserWrite") /\ Send("user", "user", op.write, Sent(op, "UserRead"), lease)
UserRead == Proceeds("UserRead") /\ Send("user", "ask", "user", Sent(op, "UserVerify"), lease)
UserVerify ==
    /\ Proceeds("UserVerify")
    /\ IF "user" \notin seen.fresh THEN Deadline("user")
       ELSE IF seen.val.user # op.write THEN FailWholePlan("user", "MISMATCH")
       ELSE IF op.inter THEN Advance(status, customEntryStep(op.deferred), [ op EXCEPT !.inter = FALSE ])
       ELSE Advance(Verified("user"),
                    FirstStep(status.needed, status.verified, op.deferred), op)

\* Display and mode: a fresh observation that differs is not the last word.
Heard(c, needed) ==
    IF c \in seen.fresh /\ seen.val[c] = op.plan[c]
    THEN Advance(Verified(c), FirstStep(needed, status.verified, op.deferred), op)
    ELSE Deadline(c)
DisplayWrite ==
    /\ Proceeds("DisplayWrite")
    /\ Send("display", "display", op.plan.display, Sent(op, "DisplayVerify"), lease)
DisplayVerify == Proceeds("DisplayVerify") /\ Heard("display", status.needed \ { "display" })
ModeWrite == /\ Proceeds("ModeWrite")
             /\ Send("mode", "mode", op.plan.mode, Sent(op, "ModeVerify"), lease)
ModeVerify == Proceeds("ModeVerify") /\ Heard("mode", status.needed \ { "display", "mode" })

\* The quiet coordinator lends the volume until the operation ends.
BeginVolume ==
    /\ Proceeds("VolumeWrite") /\ ~op.tx
    /\ \/ FailWholePlan("volume", "VOLUME_OWNER_BUSY")
       \/ /\ op' = [ op EXCEPT !.tx = TRUE ] /\ lease' = TRUE
          /\ UNCHANGED << status, edge, snap, link, cmd, air, seen, det, hand >>
VolumeWrite ==
    /\ Proceeds("VolumeWrite") /\ op.tx
    /\ Send("volume", "volume", op.plan.volume, [ Sent(op, "VolumeRead") EXCEPT !.watch = "ours" ], lease)
VolumeRead == Proceeds("VolumeRead") /\ Send("volume", "ask", "volume", Sent(op, "VolumeVerify"), lease)
VolumeVerify ==
    /\ Proceeds("VolumeVerify")
    /\ IF "volume" \notin seen.fresh THEN Deadline("volume")
       ELSE IF seen.val.volume # op.plan.volume THEN FailWholePlan("volume", "MISMATCH")
       ELSE Advance(Verified("volume"), FirstStep(status.needed \cap { "custom" }, status.verified, op.deferred), op)

CustomRefresh(step, kind, next) == Proceeds(step) /\ Send("custom", "ask", kind, Sent(op, next), lease)
CustomRefreshSections == CustomRefresh("CustomRefreshSections", "sections", "CustomRefreshMax")
CustomRefreshMax == CustomRefresh("CustomRefreshMax", "max", "CustomRefreshDefinitions")
CustomRefreshDefinitions == CustomRefresh("CustomRefreshDefinitions", "table", "CustomRefreshVerify")
\* The plan is compiled from what the new region brought.
CustomRefreshVerify ==
    LET table == Compiled(op.plan.custom, seen.val.table)
        same == table = seen.val.table
        st == [ status EXCEPT !.needed = IF same /\ ~op.final THEN @ \ { "custom" } ELSE @ \cup { "custom" },
                              !.verified = IF same /\ ~op.final THEN @ \cup { "custom" } ELSE @ \ { "custom" } ]
    IN  /\ Proceeds("CustomRefreshVerify")
        /\ IF ~({ "sections", "max", "table" } \subseteq seen.fresh) THEN Deadline("custom")
           ELSE IF Bands(table) # { KBand, KaBand } THEN FailWholePlan("custom", "INVALID")
           ELSE Advance(st, IF "custom" \in st.needed \ st.verified THEN "CustomWrite" ELSE "Idle",
                        [ op EXCEPT !.deferred = FALSE, !.table = table, !.left = table ])

\* The definitions one by one, the last one with the commit.
CustomWrite ==
    /\ Proceeds("CustomWrite")
    /\ LET d == CHOOSE x \in op.left : TRUE
           commit == op.left = { d }
       IN  Send("custom", "definition", [ def |-> d, commit |-> commit ],
                [ Sent(op, IF commit THEN "CustomCommitVerify" ELSE "CustomWrite") EXCEPT !.left = @ \ { d } ],
                lease)
CustomCommitVerify ==
    /\ Proceeds("CustomCommitVerify")
    /\ IF "commit" \notin seen.fresh THEN Deadline("custom")
       ELSE IF ~seen.committed THEN FailWholePlan("custom", "REJECTED")
       ELSE Advance(status, "CustomRead", op)
CustomRead == Proceeds("CustomRead") /\ Send("custom", "ask", "table", Sent(op, "CustomVerify"), lease)
CustomVerify ==
    /\ Proceeds("CustomVerify")
    /\ IF "table" \notin seen.fresh THEN Deadline("custom")
       ELSE IF seen.val.table # op.table THEN FailWholePlan("custom", "MISMATCH")
       ELSE Advance(Verified("custom"), IF op.final THEN "UserWrite" ELSE "Idle",
                    [ op EXCEPT !.final = FALSE, !.write = op.plan.user ])

TimePasses ==
    /\ \/ op.send = "on" /\ op' = [ op EXCEPT !.send = "over" ]
       \/ op.step \in VerifySteps /\ ~op.over /\ op' = [ op EXCEPT !.over = TRUE ]
    /\ UNCHANGED << status, edge, lease, snap, link, cmd, air, seen, det, hand >>

process ==
    \/ Gone \/ VolumeContested \/ Ready \/ Preflight
    \/ UserWrite \/ UserRead \/ UserVerify
    \/ DisplayWrite \/ DisplayVerify \/ ModeWrite \/ ModeVerify
    \/ BeginVolume \/ VolumeWrite \/ VolumeRead \/ VolumeVerify
    \/ CustomRefreshSections \/ CustomRefreshMax \/ CustomRefreshDefinitions
    \/ CustomRefreshVerify \/ CustomWrite \/ CustomCommitVerify
    \/ CustomRead \/ CustomVerify

Channel == Released \/ WorkerStarts \/ WorkerWrites \/ Receive
World ==
    \/ Connect \/ Retire \/ Channel \/ PhoneConnects \/ PhoneWritesVolume
    \/ \E k \in Kinds : Emit(k) \/ ByHand(k)
Requests == SetPreApplySnapshot \/ SnapshotAges \/ CancelForTimeout \/ \E p \in Plans : Queue(p)

Next == process \/ World \/ Requests \/ TimePasses
Spec == Init /\ [][Next]_vars
\* The drive loop calls process() on every pass, and time goes on.
Fairness == WF_vars(process) /\ WF_vars(TimePasses)
FairSpec == Spec /\ Fairness

-----------------------------------------------------------------------------
(* Properties. *)

\* What an ended operation leaves behind: no lease on the volume, no command
\* that could still reach a session in use, no edge but that of a success in
\* the session that ended it.
NothingLeft ==
    /\ lease => op.tx
    /\ cmd.ph # "idle" /\ isConnected => isActive /\ op.gen = link.gen /\ cmd.id = status.id
    /\ edge.pending => status.result = "SUCCEEDED" /\ ~isActive

\* Whenever custom frequencies filter the alerts, the table is one the
\* operation's plan asked for, or the region and its table are those from
\* before: a factory table of another region is never exposed.
FilterOnOwnTable ==
    det.user.filter => \/ det.user.region = StartUser.region
                       \/ \E p \in Plans : p.custom \subseteq det.table /\ p.custom # {}

\* The enable bit is written last: when filtering is switched on, the
\* operation has committed its table and read it back.
EnabledOnlyWhenReadStep ==
    det'.user.filter /\ ~det.user.filter /\ op.step = "UserWrite"
      => /\ "custom" \in status.verified /\ det.table = op.table
         /\ op.plan.custom \subseteq op.table

\* A success is true: the detector holds all the plan asked for, a band the
\* plan leaves alone has the contents the region gives it, unless a hand or a
\* phone has changed the component since the session began.
SuccessIsTrueStep ==
    status'.result = "SUCCEEDED" /\ status.result # "SUCCEEDED" =>
          \A c \in op.plan.req \ hand.touched :
             IF c = "custom"
             THEN LET base == IF RegionChanged THEN Factory(det.user.region) ELSE op.before.val.table
                  IN  \A b \in { KBand, KaBand } :
                        det.table \cap b =
                          (IF b \in Bands(op.plan.custom) THEN op.plan.custom ELSE base) \cap b
             ELSE det[c] = op.plan[c]

PushSafe == NothingLeft /\ FilterOnOwnTable
PushHonestStep == EnabledOnlyWhenReadStep /\ SuccessIsTrueStep
PushHonest == [][PushHonestStep]_vars

\* Every operation ends, whatever answers, acknowledgements or sessions are lost.
OperationEnds == isActive ~> ~isActive

=============================================================================
