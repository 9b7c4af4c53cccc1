--------------------------- MODULE AutomaticMute ---------------------------
(***************************************************************************)
(* The automatic mute of the quiet coordinator: alerts that are all        *)
(* outside the boxes of the driver are muted, and the mute is given back   *)
(* when one of them is not.  The driver mutes and unmutes by touch and at  *)
(* the detector, a phone may take the detector over, alert data may be     *)
(* lost or grow old, and a mute that was on its way when the session ended *)
(* may or may not have reached the detector.                               *)
(*                                                                         *)
(* Ingress sequence numbers and revisions are kept as what they are        *)
(* compared for; commands are written with a response.                     *)
(***************************************************************************)
EXTENDS Naturals, Sequences

CONSTANTS Tables,     \* tables of alerts: sets of "out", "in", "unknown", "laser"
          Detectors,
          MaxEvents,  \* of: a touch, a press at the detector, a visit of a phone, a
                      \* change of the alerts, of their freshness, of the settings,
                      \* a session after the first
          MaxAir      \* packets on their way

VARIABLES det,    \* per detector "off", or who muted it: "box", "tap", "user"; "left" by
                  \* a mute that was complete when its session ended
          link,   \* the session of the V1 client, the phone's, and whether no phone
                  \* and no other detector came so far
          cmd,    \* the command of the V1 client, on its worker task
          air,    \* display packets not yet parsed: whether muted
          obs,    \* the latest display packet of this session
          alerts, \* the parser's table, and who has not yet seen its lifetime change
          box,    \* the inTheBox members of QuietCoordinatorModule
          tap,    \* TapGestureModule: the mute that is retried
          asked,  \* the driver has decided about these alerts
          count, turn

vars == << det, link, cmd, air, obs, alerts, box, tap, asked, count, turn >>

NoCommand == [ ph |-> "idle", owner |-> "box", mute |-> FALSE, since |-> FALSE, permit |-> TRUE ]
NoObs == [ known |-> FALSE, muted |-> FALSE ]
\* resetInTheBoxSession, after its command is cancelled.
NoSession(b) ==
    [ session |-> 0, on |-> FALSE, lifeKnown |-> FALSE, owns |-> FALSE, manual |-> FALSE, inside |-> FALSE,
      pending |-> FALSE, mute |-> FALSE, sent |-> FALSE, confirmed |-> FALSE, after |-> FALSE, seen |-> FALSE,
      flying |-> b.flying, recovery |-> b.recovery, addr |-> b.addr ]

TypeOK ==
    /\ \A d \in Detectors : det[d] \in { "off", "box", "tap", "user", "left" }
    /\ cmd.ph \in { "idle", "admitted", "started", "done" } /\ cmd.owner \in { "box", "tap" }
    /\ Len(air) <= MaxAir /\ alerts.table \in Tables \cup { {} }
    /\ box.flying => cmd.ph # "idle" /\ cmd.owner = "box" /\ cmd.mute
    /\ box.flying => box.pending /\ box.session # 0

Init ==
    /\ det = [ d \in Detectors |-> "off" ]
    /\ link = [ up |-> FALSE, d |-> CHOOSE d \in Detectors : TRUE, gen |-> 0, phone |-> FALSE, ours |-> TRUE ]
    /\ cmd = NoCommand /\ air = << >> /\ obs = NoObs
    /\ alerts = [ table |-> {}, fresh |-> FALSE, cont |-> FALSE, boxSaw |-> TRUE, tapSaw |-> TRUE ]
    /\ box = NoSession([ flying |-> FALSE, recovery |-> FALSE, addr |-> "none" ])
    /\ tap = [ pending |-> FALSE, mute |-> FALSE ]
    /\ asked = FALSE /\ count = 0 /\ turn = FALSE

-----------------------------------------------------------------------------
(* A pass works on the coordinator b, the tap t, the command c, whether the *)
(* session is up, and whether a mute of the session is left behind.        *)

Now == [ b |-> box, t |-> tap, c |-> cmd, up |-> link.up, left |-> FALSE, boxSaw |-> alerts.boxSaw,
         tapSaw |-> alerts.tapSaw ]
hasAlerts == alerts.table # {}
InFlight(m, owner) == m.c.ph # "idle" /\ m.c.owner = owner
\* cancelCommand: the session is retired rather than the command left queued.
Cancel(m, owner) == IF InFlight(m, owner) THEN [ m EXCEPT !.up = FALSE ] ELSE m

\* cancelInTheBoxCommand: what was on its way may have been applied.
CancelBox(m) == Cancel([ m EXCEPT !.b.recovery = @ \/ m.b.flying, !.b.flying = FALSE ], "box")
ResetSession(m) ==
    LET c == CancelBox(m) IN [ c EXCEPT !.b = NoSession(c.b), !.left = c.b.owns ]

Result(m, res) == [ m |-> m, res |-> res, since |-> FALSE ]
\* setMuteResult; the automatic mute needs alert data without a gap.
Write(m, owner, mute) ==
    IF link.phone \/ ~m.up THEN { Result(m, "FAILED") }
    ELSE IF m.c.ph = "idle"
    THEN { Result(m, "NOT_YET") } \cup
         { Result([ m EXCEPT !.c = [ NoCommand EXCEPT !.ph = "admitted", !.owner = owner, !.mute = mute ] ],
                  "IN_FLIGHT") : z \in IF owner = "box" /\ mute /\ ~alerts.cont THEN {} ELSE { 0 } }
    ELSE IF m.c.owner # owner THEN { Result(m, "NOT_YET") }
    ELSE IF m.c.mute # mute THEN { Result(Cancel(m, owner), "FAILED") }
    ELSE IF m.c.ph # "done" THEN { Result(m, "IN_FLIGHT") }
    ELSE { [ m |-> [ m EXCEPT !.c = NoCommand ], res |-> "SENT", since |-> m.c.since ] }

\* mutant: a mute by touch leaves the automatic mute its ownership.
StillOwns(m, owner, mute, r) == r
\* sendMuteResult: what a command of the driver takes from the automatic mute.
Displaced(m, owner, mute, r) ==
    LET admitted == IF r.res = "SENT" \/ (mute /\ r.res = "IN_FLIGHT")
                    THEN [ r EXCEPT !.m.b.flying = FALSE, !.m.b.recovery = FALSE ] ELSE r
    IN  IF owner = "box" THEN r
        ELSE IF r.res = "SENT"
        THEN [ admitted EXCEPT !.m.b.owns = FALSE, !.m.b.confirmed = FALSE, !.m.b.manual = TRUE,
                               !.m.b.inside = FALSE, !.m.b.pending = FALSE ]
        ELSE admitted
SendMute(m, owner, mute) == { Displaced(m, owner, mute, r) : r \in Write(m, owner, mute) }

-----------------------------------------------------------------------------
(* processInTheBox. *)

\* InTheBoxModule::process: an alert of unknown place proves neither that an
\* encounter ended nor that one is new.
Decision(b) ==
    LET sure == "unknown" \notin alerts.table
        inside == "in" \in alerts.table
    IN  [ mute |-> b.on /\ hasAlerts /\ alerts.table \subseteq { "out" },
          inside |-> b.on /\ inside, new |-> b.on /\ inside /\ sure /\ ~b.seen,
          seen |-> IF sure THEN inside ELSE b.seen ]
NoDecision(b) == [ mute |-> FALSE, inside |-> FALSE, new |-> FALSE, seen |-> b.seen ]

\* A later display packet shows the state that was asked for.
Confirm(m) ==
    IF m.b.pending /\ m.b.sent /\ ~InFlight(m, "box") /\ m.b.after /\ obs.muted = m.b.mute
    THEN LET c == [ m EXCEPT !.b.pending = FALSE, !.b.sent = FALSE, !.b.confirmed = m.b.mute ]
         IN  IF m.b.mute THEN c
             ELSE [ c EXCEPT !.b.recovery = FALSE, !.b.owns = FALSE, !.b.inside = FALSE ]
    ELSE m

\* A later unmute at the detector wins.
Yield(m, changed) ==
    IF m.b.owns /\ m.b.confirmed /\ ~obs.muted /\ ~m.b.pending /\ ~changed
    THEN [ m EXCEPT !.b.owns = FALSE, !.b.confirmed = FALSE, !.b.manual = TRUE ] ELSE m

\* A new lifetime of alerts: what the driver decided about the old one is over.
NewLifetime(m) ==
    LET r == [ m EXCEPT !.b.seen = FALSE, !.b.manual = FALSE, !.b.inside = FALSE ]
    IN  IF InFlight(r, "box") THEN [ CancelBox(r) EXCEPT !.b.pending = FALSE ] ELSE r

\* The mute or unmute wanted is sent, unless the detector is seen to be there.
Submit(m, target, due) ==
    LET flying == InFlight(m, "box")
        reverses == ~m.b.pending \/ target # m.b.mute
        m1 == IF reverses
              THEN [ (IF flying THEN CancelBox(m) ELSE m) EXCEPT
                       !.b.pending = TRUE, !.b.mute = target, !.b.sent = FALSE ]
              ELSE m
    IN  IF ~m.b.pending /\ target /\ obs.muted THEN { m }
        ELSE IF reverses /\ flying THEN { CancelBox(m) }
        ELSE IF ~m1.b.sent /\ ~flying /\ obs.muted = target /\ ~m1.b.owns
        THEN { [ m1 EXCEPT !.b.pending = FALSE, !.b.inside = FALSE ] }
        ELSE IF ~reverses /\ ~due THEN { m1 }
        ELSE { CASE r.res = "IN_FLIGHT" -> [ r.m EXCEPT !.b.flying = @ \/ target ]
                 [] r.res = "SENT" -> [ r.m EXCEPT !.b.flying = FALSE, !.b.sent = TRUE, !.b.after = r.since,
                                                   !.b.owns = @ \/ target ]
                 [] r.res = "FAILED" -> IF r.m.b.flying THEN CancelBox(r.m) ELSE r.m
                 [] OTHER -> r.m
               : r \in SendMute(m1, "box", target) }

Policy(m0, due) ==
    LET fresh == alerts.fresh /\ alerts.cont
        d == IF fresh THEN Decision(m0.b) ELSE NoDecision(m0.b)
        flying == InFlight(m0, "box")
        muting == m0.b.owns \/ (flying /\ m0.b.mute)
        m == [ m0 EXCEPT !.b.seen = d.seen, !.b.manual = @ /\ (fresh => hasAlerts),
                         !.b.inside = fresh /\ d.inside /\ (@ \/ d.new),
                         !.b.recovery = @ /\ (obs.muted \/ flying) ]
        unmutes == m.b.recovery \/ (muting /\ ~d.mute) \/ m.b.inside
        mutes == ~unmutes /\ d.mute /\ ~m.b.manual /\ (muting \/ ~obs.muted)
    IN  IF unmutes \/ mutes THEN Submit(m, mutes, due)
        ELSE { [ (IF flying THEN CancelBox(m) ELSE m) EXCEPT !.b.pending = FALSE ] }

ProcessBox(m0, due) ==
    LET changed == m0.b.lifeKnown /\ ~m0.boxSaw
        m1 == IF changed THEN NewLifetime(m0) ELSE m0
        m2 == [ m1 EXCEPT !.b.lifeKnown = TRUE, !.boxSaw = TRUE ]
    IN  IF ~m0.up \/ m0.b.session # link.gen THEN { ResetSession(m0) }
        ELSE IF link.phone
        THEN { [ CancelBox(m0) EXCEPT !.b.recovery = FALSE, !.b.owns = FALSE, !.b.inside = FALSE,
                                      !.b.pending = FALSE, !.b.manual = TRUE ] }
        ELSE IF ~obs.known THEN { m0 }
        ELSE IF ~m1.up THEN { m1 }
        ELSE Policy(Yield(Confirm(m2), changed), due)

-----------------------------------------------------------------------------
(* TapGestureModule::process, while there are alerts. *)

ProcessTap(m0, due) ==
    LET m == IF m0.tapSaw THEN m0 ELSE [ Cancel(m0, "tap") EXCEPT !.t.pending = FALSE, !.tapSaw = TRUE ]
        flying == InFlight(m, "tap")
    IN  IF ~m.t.pending THEN { m }
        ELSE IF ~hasAlerts THEN { [ Cancel(m, "tap") EXCEPT !.t.pending = FALSE ] }
        ELSE IF obs.muted = m.t.mute /\ ~flying THEN { [ m EXCEPT !.t.pending = FALSE ] }
        ELSE IF ~due THEN { m }
        ELSE { [ r.m EXCEPT !.t.pending = r.res \in { "NOT_YET", "IN_FLIGHT" } ] :
                 r \in SendMute(m, "tap", m.t.mute) }

\* performMuteToggle
Toggle(m) ==
    { [ r.m EXCEPT !.t = IF r.res \in { "NOT_YET", "IN_FLIGHT" }
                         THEN [ pending |-> TRUE, mute |-> ~obs.muted ] ELSE @ ] :
        r \in SendMute(m, "tap", ~obs.muted) }

-----------------------------------------------------------------------------
(* The loop and the world around it. *)

Settled ==
    /\ link.up /\ link.ours /\ obs.known /\ ~tap.pending
    /\ ~(box.on /\ alerts.fresh /\ alerts.cont /\ hasAlerts /\ alerts.table \subseteq { "out" })
\* A command of the driver that completed, or a mute that was admitted, takes
\* over a mute that was automatic.
Set(m) ==
    /\ box' = m.b /\ tap' = m.t /\ cmd' = m.c
    /\ link' = [ link EXCEPT !.up = m.up, !.phone = @ /\ m.up ]
    /\ alerts' = [ alerts EXCEPT !.boxSaw = m.boxSaw, !.tapSaw = m.tapSaw ]
    /\ LET done == cmd.ph = "done" /\ cmd.owner = "tap" /\ m.c # cmd
           muting == m.c.ph = "admitted" /\ m.c.owner = "tap" /\ m.c.mute
       IN  /\ asked' = (asked \/ done)
           /\ det' = [ det EXCEPT ![link.d] = IF @ # "box" THEN @ ELSE IF done \/ muting THEN "tap"
                                              ELSE IF m.left THEN "left" ELSE @ ]
Counted == count < MaxEvents /\ count' = count + 1

\* One pass over what the tap gesture left; due: the retry intervals have passed.
Pass(taps, due) ==
    LET passes == UNION { ProcessBox(m, due) : m \in taps }
        writes == { m \in passes : cmd.ph = "idle" /\ m.c.ph # "idle" }
    IN  /\ \E m \in passes :
              /\ Set(m)
              /\ turn' = (turn # (Settled /\ due /\ (writes = {} \/ m \in writes)))
        /\ UNCHANGED << air, obs >>
Loop(due) == Pass(ProcessTap(Now, due), due) /\ UNCHANGED count
Touch(due) == hasAlerts /\ Counted /\ Pass(UNION { Toggle(m) : m \in ProcessTap(Now, due) }, due)

\* A packet is received behind those of before, and parsed.
ParsePacket ==
    /\ link.up /\ air # << >> /\ air' = Tail(air)
    /\ obs' = [ known |-> TRUE, muted |-> Head(air) ]
    /\ box' = [ box EXCEPT !.after = @ \/ (box.sent /\ box.pending) ]
    /\ cmd' = [ cmd EXCEPT !.since = @ \/ cmd.ph \in { "started", "done" } ]
    /\ UNCHANGED << det, link, alerts, tap, asked, count, turn >>
Emit ==
    /\ link.up /\ Len(air) < MaxAir /\ air' = Append(air, det[link.d] # "off")
    /\ UNCHANGED << det, link, cmd, obs, alerts, box, tap, asked, count, turn >>

\* A change of the table; its first row and its last change the lifetime.  A
\* detector without alerts may drop its mute.
TableChanges(t) ==
    /\ link.up /\ alerts.cont /\ IF t = {} THEN UNCHANGED count ELSE Counted
    /\ t # alerts.table \/ ~alerts.fresh
    /\ LET saw == (t = {}) <=> ~hasAlerts
       IN  /\ alerts' = [ alerts EXCEPT !.table = t, !.fresh = TRUE, !.boxSaw = @ /\ saw, !.tapSaw = @ /\ saw ]
           /\ asked' = (asked /\ saw)
    /\ \/ UNCHANGED det
       \/ t = {} /\ det' = [ det EXCEPT ![link.d] = "off" ]
    /\ UNCHANGED << link, cmd, air, obs, box, tap, turn >>
\* 1.5 s without a table, or an operation that suspends the policy.
GrowsOld ==
    /\ link.up /\ alerts.fresh /\ Counted /\ alerts' = [ alerts EXCEPT !.fresh = FALSE ]
    /\ UNCHANGED << det, link, cmd, air, obs, box, tap, asked, turn >>
\* noteV1NotificationLoss withdraws the permission of what is admitted.
InputLost ==
    /\ link.up /\ alerts.cont /\ Counted /\ alerts' = [ alerts EXCEPT !.cont = FALSE ]
    /\ cmd' = [ cmd EXCEPT !.permit = FALSE ]
    /\ UNCHANGED << det, link, air, obs, box, tap, asked, turn >>
InputQualified ==
    /\ link.up /\ ~alerts.cont /\ alerts' = [ alerts EXCEPT !.cont = TRUE, !.fresh = TRUE ]
    /\ UNCHANGED << det, link, cmd, air, obs, box, tap, asked, count, turn >>

\* The worker gives up the write of a session that ended, or of a permission
\* that was withdrawn, which retires the session.
Permitted == cmd.owner = "box" /\ cmd.mute => cmd.permit
WorkerStarts ==
    /\ cmd.ph = "admitted"
    /\ IF link.up /\ Permitted THEN cmd' = [ cmd EXCEPT !.ph = "started", !.since = FALSE ] /\ UNCHANGED link
       ELSE cmd' = [ cmd EXCEPT !.ph = "done" ] /\ link' = [ link EXCEPT !.up = FALSE, !.phone = FALSE ]
    /\ UNCHANGED << det, air, obs, alerts, box, tap, asked, count, turn >>
Answers == link.up => air = << >>
Applied ==
    /\ cmd.ph = "started" /\ Answers /\ cmd' = [ cmd EXCEPT !.ph = "done" ]
    /\ det' = [ det EXCEPT ![link.d] = IF cmd.mute THEN cmd.owner ELSE "off" ]
    /\ UNCHANGED << link, air, obs, alerts, box, tap, asked, count, turn >>
NotApplied ==
    /\ cmd.ph = "started" /\ Answers /\ cmd' = [ cmd EXCEPT !.ph = "done" ]
    /\ UNCHANGED << det, link, air, obs, alerts, box, tap, asked, count, turn >>
Retire ==
    /\ link.up /\ link' = [ link EXCEPT !.up = FALSE, !.phone = FALSE ]
    /\ UNCHANGED << det, cmd, air, obs, alerts, box, tap, asked, count, turn >>

SameDetector(d) == box.addr = d
\* beginDetectorVolumeSession and setInTheBoxSettings, when a session opens.
\* What may be owed to one detector is given to no other.
Connect(d) ==
    /\ ~link.up /\ cmd.ph \notin { "admitted", "started" }
    /\ IF link.gen = 0 THEN d = link.d /\ UNCHANGED count ELSE Counted
    /\ link' = [ up |-> TRUE, d |-> d, gen |-> link.gen + 1, phone |-> FALSE, ours |-> link.ours /\ d = link.d ]
    /\ LET b == NoSession([ box EXCEPT !.recovery = SameDetector(d) /\ (@ \/ box.flying),
                                       !.flying = FALSE, !.addr = d ])
       IN  box' = [ b EXCEPT !.session = link.gen + 1, !.on = TRUE ]
    /\ det' = [ det EXCEPT ![link.d] = IF box.owns /\ @ = "box" THEN "left" ELSE @ ]
    /\ cmd' = NoCommand /\ air' = << >> /\ obs' = NoObs /\ asked' = FALSE
    /\ alerts' = [ table |-> {}, fresh |-> FALSE, cont |-> TRUE, boxSaw |-> FALSE, tapSaw |-> FALSE ]
    /\ UNCHANGED << tap, turn >>
\* setInTheBoxSettings from a profile: ownership of a mute is kept.
SetSettings ==
    /\ link.up /\ Counted
    /\ LET m == CancelBox(Now)
       IN  Set([ m EXCEPT !.b.on = ~@, !.b.lifeKnown = FALSE, !.b.seen = FALSE, !.b.manual = FALSE,
                          !.b.inside = FALSE, !.b.pending = FALSE ])
    /\ UNCHANGED << air, obs, turn >>

\* A press at the detector.
ByHand ==
    /\ link.up /\ hasAlerts /\ Counted
    /\ det' = [ det EXCEPT ![link.d] = IF @ = "off" THEN "user" ELSE "off" ]
    /\ UNCHANGED << link, cmd, air, obs, alerts, box, tap, asked, turn >>
PhoneConnects ==
    /\ link.up /\ ~link.phone /\ Counted /\ link' = [ link EXCEPT !.phone = TRUE, !.ours = FALSE ]
    /\ UNCHANGED << det, cmd, air, obs, alerts, box, tap, asked, turn >>
PhoneLeaves ==
    /\ link.phone /\ box.manual /\ link' = [ link EXCEPT !.phone = FALSE ]
    /\ UNCHANGED << det, cmd, air, obs, alerts, box, tap, asked, count, turn >>

Next ==
    \/ \E due \in BOOLEAN : Loop(due) \/ Touch(due)
    \/ ParsePacket \/ Emit \/ WorkerStarts \/ Applied \/ NotApplied \/ Retire
    \/ \E t \in Tables \cup { {} } : TableChanges(t)
    \/ GrowsOld \/ InputLost \/ InputQualified \/ SetSettings \/ ByHand \/ PhoneConnects \/ PhoneLeaves
    \/ \E d \in Detectors : Connect(d)
Spec == Init /\ [][Next]_vars

\* The loop, the worker and the detector's packets never stop; turn flips at
\* the passes in which the retry interval and the pacing of the client let a
\* write through; a detector that is asked again and again takes the write.
Fairness ==
    /\ WF_vars(ParsePacket) /\ WF_vars(Emit) /\ WF_vars(WorkerStarts \/ Applied \/ NotApplied)
    /\ WF_turn(Settled /\ turn' = ~turn) /\ SF_vars(Applied)
FairSpec == Spec /\ Fairness

-----------------------------------------------------------------------------
(* Properties. *)

\* What the driver decided by touch about these alerts stands: the automatic
\* mute does not mute them again, and takes no mute of the driver back unless
\* an alert inside a box came.
DriverWinsStep ==
    cmd'.ph = "admitted" /\ cmd.ph = "idle" /\ cmd'.owner = "box" =>
        /\ cmd'.mute => ~asked
        /\ ~cmd'.mute /\ asked /\ det[link.d] = "tap" => box'.inside
DriverWins == [][DriverWinsStep]_vars

\* setInTheBoxSettings: a detector the automatic mute has muted, or may have
\* muted, is not left muted once its alerts are not all outside the boxes, or
\* the policy was changed.
LeftMuted == Settled /\ det[link.d] = "box"

=============================================================================
