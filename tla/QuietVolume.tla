---------------------------- MODULE QuietVolume ----------------------------
(***************************************************************************)
(* Who owns the volume of the detector.  The quiet coordinator lowers it   *)
(* at low speed and gives it back, the volume fade lowers it on a long     *)
(* alert and gives it back, an operation of auto push borrows it, a phone  *)
(* on the proxy takes it over, and the driver turns the knob.  Writes go   *)
(* through the one command of the V1 client, observations come back in the *)
(* packets of the detector, and either may be late, refused or cut off.    *)
(*                                                                         *)
(* A volume is the pair << main, muted >>.  Ingress sequence numbers and   *)
(* write revisions are kept as what they are compared for: whether the     *)
(* latest observation is newer than a boundary, and whether another write  *)
(* came after one's own.  Commands are written with a response.            *)
(***************************************************************************)
EXTENDS Integers, Sequences, FiniteSets

CONSTANTS Choices,     \* pairs a driver, a phone or a profile may choose
          FadeTo,      \* main volume of a fade, at least 1
          DropTo,      \* main volume at low speed
          Threats,     \* alerts told apart: frequencies and "laser"
          Detectors,
          MaxEvents,   \* of: a choice at the knob, a visit of a phone, an operation
                       \* of auto push, a change of the speed decision, an alert, a
                       \* session after the first
          MaxAir       \* packets on their way

VARIABLES det,    \* the volume of each detector
          link,   \* the session of the V1 client, the phone's, and the detectors for
                  \* which a reduction was dropped, for a phone or another detector
          cmd,    \* the command of the V1 client, on its worker task
          air,    \* display packets not yet parsed
          obs,    \* the latest canonical volume of this session
          threat, \* the priority alert, and whether one ended since the last look
          slow,   \* SpeedMuteState.muteActive
          quiet,  \* QuietCoordinatorModule
          fade,   \* VolumeFadeModule
          count,  \* events so far
          heard   \* per detector, the latest choice seen, and what auto push wrote since

volumeVars == << det, link, cmd, air, obs, threat, slow, quiet, fade, count, heard >>

None == << >>
Owners == { "speed", "fade", "push" }
NoCommand == [ ph |-> "idle", owner |-> "speed", pair |-> None, since |-> FALSE, refused |-> FALSE ]

\* Boundaries the latest observation is compared with, and the write
\* revisions kept.
Boundaries == { "speedObs", "speedSent", "fadeWrite", "fadeSent", "fadeObs" }
Revisions == { "speed", "fade", "auth" }

\* resetVolumeState, without the detector's address.
NoVolumeState(q) ==
    [ addr |-> q.addr, speedOn |-> FALSE, saved |-> None, updated |-> FALSE, pend |-> None,
      reduced |-> None, prev |-> None, obsGen |-> 0, sent |-> FALSE, sentGen |-> 0, hintGone |-> FALSE,
      owner |-> "none", want |-> None, wantPending |-> FALSE, active |-> "none", lease |-> FALSE,
      fpend |-> FALSE, fpair |-> None, fthreat |-> "none", fgen |-> 0, fwritten |-> FALSE,
      fbase |-> None, authGen |-> 0, lifeKnown |-> FALSE,
      newer |-> q.newer, fresh |-> q.fresh, rejected |-> q.rejected ]
NoFade == [ orig |-> None, target |-> None, on |-> FALSE, sentDown |-> FALSE, timing |-> FALSE,
            seen |-> {}, pend |-> None, sent |-> FALSE, sentGen |-> 0, hint |-> None,
            manual |-> "none", obsGen |-> 0 ]

VolumeTypeOK ==
    /\ \A d \in Detectors : Len(det[d]) = 2
    /\ link.gen \in 0..(MaxEvents + 1) /\ link.up \in BOOLEAN /\ link.phone \in BOOLEAN /\ link.lost \subseteq Detectors
    /\ cmd.ph \in { "idle", "admitted", "started", "done" } /\ cmd.owner \in Owners
    /\ Len(air) <= MaxAir /\ obs.known \in BOOLEAN
    /\ threat.now \in Threats \cup { "none" } /\ threat.ended \in BOOLEAN /\ slow \in BOOLEAN
    /\ quiet.speedOn <=> quiet.saved # None
    /\ quiet.owner \in Owners \cup { "none" } /\ quiet.active \in Owners \cup { "none" }
    /\ quiet.newer \subseteq Revisions /\ quiet.fresh \subseteq Boundaries
    /\ fade.on => fade.orig # None
    /\ fade.pend # None => fade.orig = fade.pend
    /\ fade.seen \subseteq Threats

VolumeInit ==
    /\ LET c == CHOOSE c \in Choices : TRUE IN
         /\ det = [ d \in Detectors |-> c ]
         /\ heard = [ d \in Detectors |-> { c } ]
    /\ link = [ up |-> FALSE, d |-> CHOOSE d \in Detectors : TRUE, gen |-> 0, phone |-> FALSE, lost |-> {} ]
    /\ cmd = NoCommand /\ air = << >> /\ obs = [ known |-> FALSE, pair |-> None, new |-> FALSE ]
    /\ threat = [ now |-> "none", ended |-> FALSE ] /\ slow \in BOOLEAN
    /\ quiet = NoVolumeState([ addr |-> "none", newer |-> {}, fresh |-> {}, rejected |-> FALSE ]) /\ fade = NoFade
    /\ count = 0

-----------------------------------------------------------------------------
(* A pass of the loop works on what it may change: the coordinator q, the  *)
(* fade f, the command c, whether the session is up, and whether an alert  *)
(* ended since the last look.                                              *)

Now == [ q |-> quiet, f |-> fade, c |-> cmd, up |-> link.up, ended |-> threat.ended ]
InFlight(m, owner) == m.c.ph # "idle" /\ m.c.owner = owner
\* cancelCommand: the session is retired rather than the command left queued.
Cancel(m, owner) == IF InFlight(m, owner) THEN [ m EXCEPT !.up = FALSE ] ELSE m
Fresh(m, b) == obs.known /\ b \in m.q.fresh
Bound(m, b) == [ m EXCEPT !.q.fresh = @ \ { b } ]
hasAlerts == threat.now # "none"
\* An alert without a priority that can be shown has no frequency to remember.
Named == { threat.now } \ { "unnamed" }

\* The client's command: what comes of one call of a volume write.
Result(m, res) == [ m |-> m, res |-> res, since |-> FALSE ]
Write(m, owner, pair) ==
    IF link.phone \/ ~m.up THEN { Result(m, "FAILED") }
    ELSE IF m.c.ph = "idle"
    THEN { Result(m, "NOT_YET"),
           Result([ m EXCEPT !.c = [ NoCommand EXCEPT !.ph = "admitted", !.owner = owner, !.pair = pair ] ],
                  "IN_FLIGHT") }
    ELSE IF m.c.owner # owner THEN { Result(m, "NOT_YET") }
    ELSE IF m.c.pair # pair THEN { Result(Cancel(m, owner), "FAILED") }
    ELSE IF m.c.ph # "done" THEN { Result(m, "IN_FLIGHT") }
    ELSE { [ m |-> [ m EXCEPT !.c = NoCommand, !.q.newer = Revisions, !.q.rejected = m.c.refused ],
             res |-> "SENT", since |-> m.c.since ] }

\* sendVolumeResult.  A write that completes is the latest; the boundary of
\* its owner is the one the worker noted.
SendVolume(m, owner, pair) ==
    IF m.q.lease /\ owner # "push" THEN { Result(m, "NOT_YET") }
    ELSE { IF r.res = "SENT" THEN [ r EXCEPT !.m.q.active = owner ] ELSE r :
             r \in Write([ m EXCEPT !.q.owner = owner, !.q.want = pair,
                                    !.q.wantPending = (obs.pair # pair) ], owner, pair) }

\* syncCommittedState: the pair asked for was observed.
Synced(m) == IF obs.pair = m.q.want THEN [ m EXCEPT !.q.wantPending = FALSE ] ELSE m
Marked(m, b, since) == [ m EXCEPT !.q.fresh = IF since THEN @ \cup { b } ELSE @ \ { b } ]

\* consumeFadeAlertEnd: whether an alert ended since the last look.
AlertEnded(m) == m.q.lifeKnown /\ m.ended
Looked(m) == [ m EXCEPT !.q.lifeKnown = TRUE, !.ended = FALSE ]

-----------------------------------------------------------------------------
(* The speed volume. *)

Dropped(pair) == << DropTo, pair[2] >>

NoteSpeedSent(r) ==
    LET m == [ r.m EXCEPT !.q.newer = @ \ { "speed" } ]
    IN  IF r.res # "SENT" THEN r.m ELSE IF m.q.sent /\ m.q.sentGen = link.gen THEN m
        ELSE Marked([ m EXCEPT !.q.sent = TRUE, !.q.sentGen = link.gen ], "speedSent", r.since)
SendSpeed(m, pair) == { r.m : r \in SendVolume(m, "speed", pair) }
SendRestore(m) == { NoteSpeedSent(r) : r \in SendVolume(m, "speed", m.q.pend) }

SetPendingSpeedRestore(m, pair) ==
    LET first == IF m.q.pend # None THEN m
                 ELSE Bound([ m EXCEPT !.q.reduced = m.q.want, !.q.prev = None, !.q.obsGen = link.gen ],
                            "speedObs")
        other == IF m.q.pend = pair THEN first
                 ELSE [ Cancel(first, "speed") EXCEPT
                          !.q.prev = IF m.q.sent THEN m.q.pend ELSE @, !.q.sent = FALSE ]
    IN  [ other EXCEPT !.q.pend = pair, !.q.newer = @ \ { "speed" } ]

\* mutant: any observation leaves the restoration pending.
NoChoice(m, fresh) == FALSE
\* A pair that is none of the coordinator's own is the driver's.
ManualPair(m, fresh) == fresh /\ obs.pair \notin { m.q.pend, m.q.reduced, m.q.prev }
ReconcileRestore(m, confirm) ==
    LET newSession == link.gen # m.q.obsGen
        newerWriter == ~newSession /\ "speed" \in m.q.newer
        fresh == obs.known /\ (newSession \/ "speedObs" \in m.q.fresh)
        manual == ManualPair(m, fresh)
        confirmed == /\ confirm /\ ~InFlight(m, "speed") /\ fresh /\ obs.pair = m.q.pend
                     /\ m.q.sent /\ m.q.sentGen = link.gen /\ "speedSent" \in m.q.fresh
        gives == (newerWriter \/ manual) /\
                 (m.q.owner = "speed" \/ (~newerWriter /\ m.q.owner = "push"))
    IN  IF m.q.pend = None \/ ~m.up THEN m
        ELSE IF newerWriter \/ manual \/ confirmed
        THEN [ Cancel(m, "speed") EXCEPT
                 !.q.pend = None, !.q.sent = FALSE, !.q.hintGone = newerWriter \/ manual,
                 !.q.owner = IF gives THEN "none" ELSE @,
                 !.q.wantPending = @ /\ ~gives,
                 !.q.active = IF @ = "speed" THEN "none" ELSE @ ]
        ELSE IF newSession /\ fresh
        THEN Bound([ m EXCEPT !.q.obsGen = link.gen, !.q.newer = @ \ { "speed" } ], "speedObs")
        ELSE m

Presented(m) ==
    [ m EXCEPT !.q.active = IF m.q.speedOn \/ m.q.pend # None THEN "speed"
                            ELSE IF @ = "speed" THEN "none" ELSE @ ]

Busy(m, busy) == [ m |-> m, busy |-> busy ]
\* mutant: a restoration is written once.
WritesOnce(m, due) == { Busy(ReconcileRestore(Synced(m), TRUE), FALSE) }
\* retryPendingSpeedVolRestore; due: 75 ms have passed.
RetryRestore(m, due) ==
    UNION { IF r.q.pend = None THEN { Busy(r, FALSE) }
            ELSE IF ~obs.known \/ ~r.up \/ ~due THEN { Busy(r, TRUE) }
            ELSE { Busy(s, TRUE) : s \in SendRestore(r) }
          : r \in { ReconcileRestore(s, TRUE) : s \in { Synced(m) } } }

-----------------------------------------------------------------------------
(* The volume fade. *)

hasActiveVolumeOverride(f) == f.orig # None \/ f.pend # None
\* What a manual choice leaves: no second fade of the same threat.
Chosen == [ NoFade EXCEPT !.manual = threat.now ]
\* observeVolumeOwnership; changed: another writer came since the last pass.
Observed(m, changed) ==
    LET f == m.f
        new == obs.known /\ (f.obsGen # link.gen \/ "fadeObs" \in m.q.fresh)
    IN  IF changed \/ (new /\ f.orig # None /\ obs.pair \notin { f.orig, f.target })
        THEN [ taken |-> TRUE, m |-> [ m EXCEPT !.f = Chosen ] ]
        ELSE [ taken |-> FALSE,
               m |-> IF new THEN Bound([ m EXCEPT !.f.obsGen = link.gen ], "fadeObs") ELSE m ]

Action(m, type, pair) == [ m |-> m, type |-> type, pair |-> pair ]
Nothing(m) == Action(m, "none", None)
\* What resetSessionState keeps: the restoration and the hint.
NoSession(f) == [ NoFade EXCEPT !.pend = f.pend, !.sent = f.sent, !.sentGen = f.sentGen, !.hint = f.hint ]
RestoreFade(m) ==
    Action([ m EXCEPT !.f.pend = m.f.orig, !.f.sent = @ /\ m.f.pend # None ], "RESTORE", m.f.orig)

\* The end of the alerts, or a mute from outside: give the volume back, until
\* the detector is seen to have it; starts: whether there is something to give.
GiveBack(m, starts, due) ==
    IF m.f.orig # None /\ (starts \/ m.f.pend # None)
    THEN IF due THEN RestoreFade(m) ELSE Nothing(m)
    ELSE Nothing([ m EXCEPT !.f = NoSession(m.f) ])

Confirmed(m) ==
    /\ m.f.pend # None /\ ~InFlight(m, "fade") /\ m.f.sent /\ m.f.sentGen = link.gen
    /\ Fresh(m, "fadeSent") /\ obs.pair = m.f.pend

\* A live alert: x tells what time and the detector's mute decide.
FadeAlert(m, ended, x) ==
    LET m1 == IF ~ended THEN m
              ELSE [ m EXCEPT !.f = [ (IF ~m.f.on /\ m.f.pend = None THEN NoSession(m.f) ELSE m.f)
                                      EXCEPT !.seen = {} ] ]
        f == m1.f
        isNew == ~(Named \subseteq f.seen)
        hinted == f.hint # None /\ obs.pair[1] < f.hint[1]
        m2 == IF f.timing THEN m1
              ELSE [ m1 EXCEPT !.f.timing = TRUE, !.f.orig = IF hinted THEN f.hint ELSE obs.pair,
                               !.f.hint = IF hinted THEN None ELSE @, !.f.on = FALSE,
                               !.f.sentDown = FALSE, !.f.seen = Named ]
        down == << FadeTo, m2.f.orig[2] >>
    IN  IF (f.on \/ f.pend # None) /\ (isNew \/ ended)
        THEN LET r == IF f.orig # None THEN RestoreFade(m1) ELSE Nothing(m1)
             IN  [ r EXCEPT !.m.f.on = FALSE, !.m.f.sentDown = FALSE, !.m.f.timing = TRUE,
                            !.m.f.seen = @ \cup Named ]
        ELSE IF f.pend # None
        THEN IF x.due THEN Action(m1, "RESTORE", f.pend) ELSE Nothing(m1)
        ELSE IF m2.f.sentDown \/ ~x.late THEN Nothing(m2)
        ELSE IF obs.pair[1] <= FadeTo THEN Nothing([ m2 EXCEPT !.f.sentDown = TRUE ])
        ELSE Action([ m2 EXCEPT !.f.sentDown = TRUE, !.f.on = TRUE, !.f.target = down,
                                !.f.seen = @ \cup Named ], "FADE_DOWN", down)

\* What an observation settles: a manual choice of another threat is
\* forgotten, a restoration that is seen is over, a hint that came true or is
\* old is dropped.
Forgotten(m) == IF m.f.manual = "none" THEN m ELSE [ m EXCEPT !.f = NoFade ]
Settled(m) == IF Confirmed(m) THEN [ m EXCEPT !.f.pend = None, !.f.sent = FALSE, !.f.on = FALSE ] ELSE m
Unhinted(m, x) == IF obs.pair = m.f.hint \/ x.old THEN [ m EXCEPT !.f.hint = None ] ELSE m
FadeDecides(m, ended, x) ==
    IF ~hasAlerts THEN GiveBack(m, m.f.on, x.due)
    ELSE IF x.muted /\ ~m.f.on THEN GiveBack(m, obs.pair # m.f.orig, x.due)
    ELSE FadeAlert(m, ended, x)

\* VolumeFadeModule::process: its one outcome, as a set.
Left(o, ended) ==
    o.taken \/ (o.m.f.manual # "none" /\ hasAlerts /\ ~ended /\ threat.now = o.m.f.manual)
FadeProcess(m, changed, ended, x) ==
    UNION { IF Left(o, ended) THEN { Nothing(o.m) }
            ELSE { FadeDecides(u, ended, x) :
                     u \in { Unhinted(t, x) : t \in { Settled(n) : n \in { Forgotten(o.m) } } } }
          : o \in { Observed(m, changed) } }

FadeStopped(m) == [ m EXCEPT !.q.fpend = FALSE, !.q.fwritten = FALSE ]
\* What became of the reduction that was written.
FadeWritten(m) ==
    LET freshVolume == Fresh(m, "fadeWrite")
        final == "fade" \in m.q.newer \/ m.q.owner # "fade"
                 \/ (freshVolume /\ (obs.pair = m.q.fpair \/ obs.pair # m.q.fbase))
    IN  IF ~m.q.fwritten THEN m
        ELSE IF final THEN FadeStopped(m)
        ELSE IF m.q.rejected THEN [ m EXCEPT !.q.fpend = TRUE ] ELSE m

SendFade(m, isNew, due) ==
    IF ~isNew /\ ~due THEN { m }
    ELSE { CASE r.res = "SENT" ->
                  Marked([ r.m EXCEPT !.q.fpend = FALSE, !.q.fwritten = TRUE,
                                      !.q.newer = @ \ { "fade", "auth" } ], "fadeWrite", r.since)
             [] r.res = "FAILED" -> FadeStopped(r.m)
             [] OTHER -> [ r.m EXCEPT !.q.fpend = TRUE ]
           : r \in SendVolume(m, "fade", m.q.fpair) }
SendFadeRestore(m, pair) ==
    { IF r.res # "SENT" THEN r.m
      ELSE LET n == [ r.m EXCEPT !.q.newer = @ \ { "auth" } ]
           IN  IF n.f.pend = None \/ (n.f.sent /\ n.f.sentGen = link.gen) THEN n
               ELSE Marked([ n EXCEPT !.f.sent = TRUE, !.f.sentGen = link.gen ], "fadeSent", r.since)
      : r \in SendVolume(FadeStopped(m), "fade", pair) }

\* What the fade asks for is carried out: it owns the volume from the first
\* step of a reduction to the end of the restoration.
Performed(a, x) ==
    LET owns == hasActiveVolumeOverride(a.m.f)
        m3 == [ a.m EXCEPT !.q.active = IF owns THEN "fade" ELSE IF @ = "fade" THEN "none" ELSE @ ]
        m4 == IF owns THEN m3 ELSE FadeStopped(Cancel(m3, "fade"))
        isNew == a.type = "FADE_DOWN"
        m5 == IF ~isNew THEN m4
              ELSE [ m4 EXCEPT !.q.fpend = TRUE, !.q.fpair = a.pair, !.q.fthreat = threat.now,
                               !.q.fgen = link.gen, !.q.fbase = obs.pair ]
    IN  UNION { IF a.type = "RESTORE" THEN SendFadeRestore(m, a.pair)
                ELSE IF m.q.fpend THEN SendFade(m, isNew, x.due)
                ELSE { m }
              : m \in { m5 } }

\* executeVolumeFade
ExecuteFade(m0, x) ==
    LET ended == AlertEnded(m0)
        m == Synced(Looked(m0))
        changed == /\ hasActiveVolumeOverride(m.f) /\ m.q.authGen = link.gen
                   /\ "auth" \in m.q.newer /\ m.q.owner # "speed"
        m1 == [ m EXCEPT !.q.newer = @ \ { "auth" }, !.q.authGen = link.gen ]
        stale == ~hasAlerts \/ ended \/ x.muted \/ m1.q.fgen # link.gen \/ m1.q.fthreat # threat.now
        m2 == IF stale THEN FadeStopped(IF m1.q.fpend THEN Cancel(m1, "fade") ELSE m1) ELSE m1
    IN  IF m0.q.lease \/ ~obs.known THEN { m0 }
        ELSE UNION { Performed(a, x) :
                       a \in UNION { FadeProcess(FadeWritten(n), changed, ended, x) : n \in { m2 } } }
-----------------------------------------------------------------------------
(* The speed volume's pass, which comes first. *)

\* syncProxyVolumeOwnership: a phone owns the volume, and all that comes after.
PhoneOwns(m) ==
    LET c == Cancel(Cancel(m, "speed"), "fade")
    IN  [ c EXCEPT !.q = NoVolumeState(c.q), !.f = NoFade ]

\* The pair to give back: one still owed, one auto push wrote and the detector
\* has not shown yet, or the one it shows.
Baseline(m) == IF m.q.pend # None THEN m.q.pend
               ELSE IF m.q.updated /\ m.q.wantPending THEN m.q.want ELSE obs.pair
StartDrop(m) ==
    LET changed == m.q.authGen = link.gen /\ "auth" \in m.q.newer /\ m.q.owner # "speed"
        m1 == IF m.q.pend = None /\ hasActiveVolumeOverride(m.f) THEN Observed(m, changed).m ELSE m
        m2 == IF m.q.pend = None THEN [ m1 EXCEPT !.q.updated = (m1.q.owner = "push") ] ELSE m1
        m3 == [ m2 EXCEPT !.q.saved = Baseline(m2) ]
    IN  [ Cancel(Cancel(m3, "speed"), "fade") EXCEPT !.q.pend = None, !.q.sent = FALSE, !.q.speedOn = TRUE ]

\* An alert that ends under the speed volume hands the pair of the fade over.
HandedOver(m) ==
    LET ended == ~hasAlerts \/ AlertEnded(m)
        owed == m.f.orig # None /\ (m.f.on \/ m.f.pend # None) /\ ~m.q.updated
        m1 == FadeStopped(Cancel([ Looked(m) EXCEPT !.f = NoFade ], "fade"))
    IN  IF ~m.q.speedOn /\ m.q.pend = None THEN m
        ELSE IF ~ended THEN Looked(m)
        ELSE IF ~owed THEN m1
        ELSE IF m.q.speedOn THEN [ m1 EXCEPT !.q.saved = m.f.orig ]
        ELSE [ SetPendingSpeedRestore(m1, m.f.orig) EXCEPT !.f.hint = m.f.orig ]

EndDrop(m, due) ==
    LET sends == SendRestore(SetPendingSpeedRestore(m, m.q.saved))
    IN  UNION { RetryRestore(Presented([ s EXCEPT !.f.hint = m.q.saved, !.q.speedOn = FALSE,
                                                  !.q.saved = None ]), FALSE) : s \in sends }

SpeedHolds(m, starts, x) ==
    LET down == Dropped(m.q.saved)
        reached == obs.pair = down /\ ~InFlight(m, "speed")
    IN  IF m.q.speedOn /\ ~slow THEN EndDrop(m, x.due)
        ELSE IF m.q.speedOn
        THEN IF starts \/ (~reached /\ x.due)
             THEN { Busy(Presented(s), TRUE) : s \in SendSpeed(m, down) }
             ELSE { Busy(Presented(m), TRUE) }
        ELSE RetryRestore(Presented(m), x.due)
HintDropped(m) == IF m.q.hintGone THEN [ m EXCEPT !.f.hint = None, !.q.hintGone = FALSE ] ELSE m
SpeedTurns(m, starts, x) ==
    IF starts /\ ~obs.known THEN { Busy(Presented(m), FALSE) }
    ELSE UNION { SpeedHolds(h, starts, x) :
                   h \in { HandedOver(n) : n \in { IF starts THEN StartDrop(m) ELSE m } } }

SpeedPass(m0, x) ==
    IF m0.q.lease THEN { Busy(Synced(m0), FALSE) }
    ELSE UNION { SpeedTurns(m, slow /\ ~m.q.speedOn, x) :
                   m \in { HintDropped(n) : n \in { ReconcileRestore(t, FALSE) : t \in { Synced(m0) } } } }

Passes(m, x) ==
    IF link.phone THEN { PhoneOwns(m) }
    ELSE UNION { IF b.busy THEN { b.m } ELSE ExecuteFade(b.m, x) : b \in SpeedPass(m, x) }

-----------------------------------------------------------------------------
(* The loop and the world around it. *)

\* Values that are set again before they are read are forgotten.
Live(q, f) == { b \in Boundaries :
    CASE b = "speedObs" -> q.pend # None [] b = "speedSent" -> q.sent [] b = "fadeWrite" -> q.fwritten
      [] b = "fadeSent" -> f.sent [] b = "fadeObs" -> f.orig # None }
Kept(q, f) ==
    LET fading == q.fpend \/ q.fwritten
        owed == q.pend # None
        owns == hasActiveVolumeOverride(f)
    IN  [ q EXCEPT !.fpair = IF fading THEN @ ELSE None, !.fbase = IF fading THEN @ ELSE None,
                   !.fthreat = IF fading THEN @ ELSE "none", !.fgen = IF fading THEN @ ELSE 0,
                   !.reduced = IF owed THEN @ ELSE None, !.prev = IF owed THEN @ ELSE None,
                   !.obsGen = IF owed THEN @ ELSE 0, !.sentGen = IF q.sent THEN @ ELSE 0,
                   !.authGen = IF owns THEN @ ELSE 0, !.active = IF @ = "fade" THEN @ ELSE "none",
                   !.rejected = @ /\ q.fwritten, !.updated = @ /\ q.speedOn,
                   !.fresh = @ \cap Live(q, f),
                   !.newer = { r \in @ : CASE r = "speed" -> owed [] r = "fade" -> q.fwritten
                                             [] r = "auth" -> owns } ]
Owes(q, f) == q.speedOn \/ q.pend # None \/ hasActiveVolumeOverride(f)
Dropping(drops) == IF drops /\ Owes(quiet, fade) THEN link.lost \cup { link.d } ELSE link.lost
Set(m) ==
    /\ quiet' = Kept(m.q, m.f) /\ cmd' = m.c
    /\ fade' = [ m.f EXCEPT !.obsGen = IF m.f.orig = None THEN 0 ELSE @ ]
    /\ link' = [ link EXCEPT !.up = m.up, !.phone = @ /\ m.up,
                             !.lost = Dropping(link.phone /\ ~Owes(m.q, m.f)) ]
    /\ threat' = [ threat EXCEPT !.ended = m.ended ]

Calm == link.up /\ link.d \notin link.lost /\ threat.now = "none" /\ ~slow /\ ~quiet.lease
Reduction(pair) == pair[1] \in { DropTo, FadeTo }
\* What a pair that is seen to change tells: the choice the detector is set to.
\* One made under the speed volume is overridden until the speed rises, and the
\* pair auto push wrote is carried until the detector shows it.
Carried == quiet.owner = "push" /\ quiet.wantPending /\ obs.pair # quiet.want
Told == IF obs.new /\ ~Reduction(obs.pair) /\ ~quiet.speedOn /\ obs.pair # quiet.prev
        THEN [ heard EXCEPT ![link.d] = { obs.pair } \cup (IF Carried THEN { quiet.want } ELSE {}) ]
        ELSE heard

\* One pass of the display loop.  x.due: the retry intervals have passed;
\* x.late: the delay of the fade has; x.old: the hint has expired; x.muted:
\* the detector is muted.
Loop(x) ==
    /\ heard' = Told /\ obs' = [ obs EXCEPT !.new = FALSE ]
    /\ UNCHANGED << det, air, slow, count >>
    /\ \E m \in Passes(Now, x) : Set(m)

Counted == count < MaxEvents /\ count' = count + 1

ParsePacket ==
    /\ link.up /\ air # << >> /\ air' = Tail(air)
    /\ obs' = [ known |-> TRUE, pair |-> Head(air), new |-> obs.new \/ ~obs.known \/ obs.pair # Head(air) ]
    /\ quiet' = [ quiet EXCEPT !.fresh = Live(quiet, fade) ]
    /\ cmd' = [ cmd EXCEPT !.since = @ \/ cmd.ph \in { "started", "done" } ]
    /\ UNCHANGED << det, link, threat, slow, fade, count, heard >>

\* The detector sends its volume all the time.
Emit ==
    /\ link.up /\ Len(air) < MaxAir
    /\ air' = Append(air, det[link.d])
    /\ UNCHANGED << det, link, cmd, obs, threat, slow, quiet, fade, count, heard >>

\* The worker gives up the write of a session that ended, notes the boundary,
\* and writes; the detector takes the pair, refuses it, or ignores it.  The link
\* keeps the order, so the answer comes behind the packets of before.
Answers == link.up => air = << >>
WorkerStarts ==
    /\ cmd.ph = "admitted"
    /\ cmd' = IF link.up THEN [ cmd EXCEPT !.ph = "started", !.since = FALSE ] ELSE NoCommand
    /\ UNCHANGED << det, link, air, obs, threat, slow, quiet, fade, count, heard >>
Applied ==
    /\ cmd.ph = "started" /\ Answers
    /\ det' = [ det EXCEPT ![link.d] = cmd.pair ]
    /\ cmd' = [ cmd EXCEPT !.ph = "done" ]
    /\ UNCHANGED << link, air, obs, threat, slow, quiet, fade, count, heard >>
NotApplied ==
    /\ cmd.ph = "started" /\ Answers
    /\ IF link.up THEN \E r \in BOOLEAN : cmd' = [ cmd EXCEPT !.ph = "done", !.refused = r ]
                  ELSE cmd' = NoCommand
    /\ UNCHANGED << det, link, air, obs, threat, slow, quiet, fade, count, heard >>

\* The link dies, or a write that failed or timed out retires the session.
Retire ==
    /\ link.up /\ link' = [ link EXCEPT !.up = FALSE, !.phone = FALSE ]
    /\ UNCHANGED << det, cmd, air, obs, threat, slow, quiet, fade, count, heard >>

SameDetector(d) == quiet.addr = d
\* beginDetectorVolumeSession: what is owed to one detector is given to no
\* other.  A detector may go back to its saved volume when a session ends.
Connect(d) ==
    /\ ~link.up /\ cmd.ph # "admitted" /\ cmd.ph # "started"
    /\ link' = [ up |-> TRUE, d |-> d, gen |-> link.gen + 1, phone |-> FALSE,
                lost |-> Dropping(~SameDetector(d)) ]
    /\ IF link.gen = 0 THEN d = link.d /\ UNCHANGED count ELSE Counted
    /\ cmd' = NoCommand /\ air' = << >> /\ threat' = [ now |-> "none", ended |-> FALSE ]
    /\ obs' = [ known |-> FALSE, pair |-> None, new |-> FALSE ]
    /\ LET q == IF SameDetector(d) THEN quiet ELSE NoVolumeState(quiet)
       IN  quiet' = [ q EXCEPT !.addr = d ]
    /\ fade' = IF SameDetector(d) THEN fade ELSE NoFade
    /\ \/ UNCHANGED det
       \/ \E c \in Choices : det' = [ det EXCEPT ![d] = c ]
    /\ UNCHANGED << slow, heard >>

\* The debounce counts from the last transition, not from a change of the
\* volume, and the release of an invalid speed comes at once.
SpeedChanges ==
    /\ Counted /\ slow' = ~slow
    /\ UNCHANGED << det, link, cmd, air, obs, threat, quiet, fade, heard >>

AlertChanges(t) ==
    /\ link.up /\ t # threat.now /\ (t = "none" \/ count < MaxEvents)
    /\ threat' = [ now |-> t, ended |-> threat.ended \/ t = "none" ]
    /\ count' = IF t = "none" THEN count ELSE count + 1
    /\ UNCHANGED << det, link, cmd, air, obs, slow, quiet, fade, heard >>

ByHand(c) ==
    /\ link.up /\ Counted /\ det[link.d] # c
    /\ det' = [ det EXCEPT ![link.d] = c ]
    /\ UNCHANGED << link, cmd, air, obs, threat, slow, quiet, fade, heard >>

PhoneConnects ==
    /\ link.up /\ ~link.phone /\ Counted
    /\ link' = [ link EXCEPT !.phone = TRUE ]
    /\ UNCHANGED << det, cmd, air, obs, threat, slow, quiet, fade, heard >>
\* The client forwards it in the same loop that saw the phone.
PhoneWrites(c) ==
    /\ link.phone /\ quiet = NoVolumeState(quiet) /\ det[link.d] # c /\ cmd.ph = "idle"
    /\ det' = [ det EXCEPT ![link.d] = c ]
    /\ quiet' = Kept([ quiet EXCEPT !.newer = Revisions ], fade)
    /\ UNCHANGED << link, cmd, air, obs, threat, slow, fade, count, heard >>
PhoneLeaves ==
    /\ link.phone /\ quiet = NoVolumeState(quiet)
    /\ link' = [ link EXCEPT !.phone = FALSE ]
    /\ UNCHANGED << det, cmd, air, obs, threat, slow, quiet, fade, count, heard >>

-----------------------------------------------------------------------------
(* Auto push, as far as it borrows the volume. *)

\* mutant: the lease is given while a restoration is owed.
AlwaysLends == TRUE
CanApplyExactly ==
    /\ ~quiet.speedOn /\ quiet.pend = None /\ ~quiet.fpend /\ quiet.active # "fade"
PushBegins ==
    /\ link.up /\ ~quiet.lease /\ CanApplyExactly /\ Counted
    /\ quiet' = [ quiet EXCEPT !.lease = TRUE ]
    /\ UNCHANGED << det, link, cmd, air, obs, threat, slow, fade, heard >>
\* sendAutoPushVolumeResult; only the write that completes changes the baseline.
\* Its branches for a reduction that is active or owed cannot be taken: see
\* LeaseIsExclusive.
PushWrites(c) ==
    /\ quiet.lease /\ quiet.want # c
    /\ \E r \in Write(Synced(Now), "push", c) :
         LET sent == r.res = "SENT"
         IN  /\ Set(IF ~sent THEN r.m
                    ELSE [ r.m EXCEPT !.q.owner = "push", !.q.want = c, !.q.wantPending = TRUE,
                                      !.q.active = "push" ])
             /\ heard' = IF sent THEN [ Told EXCEPT ![link.d] = @ \cup { c } ] ELSE heard
             /\ obs' = [ obs EXCEPT !.new = @ /\ ~sent ]
    /\ UNCHANGED << det, air, slow, count >>
\* The operation ends with its readback, by its deadline, or when it is
\* cancelled, and leaves no command behind.
PushEnds ==
    /\ quiet.lease
    /\ Set([ Cancel(Now, "push") EXCEPT !.q.lease = FALSE ])
    /\ UNCHANGED << det, air, obs, slow, count, heard >>

Inputs == { x \in [ due : BOOLEAN, late : BOOLEAN, old : BOOLEAN, muted : BOOLEAN ] :
              /\ x.late \/ x.muted => hasAlerts
              /\ x.old => fade.hint # None }
VolumeNext ==
    \/ \E x \in Inputs : Loop(x)
    \/ ParsePacket \/ Emit \/ WorkerStarts \/ Applied \/ NotApplied \/ Retire
    \/ \E d \in Detectors : Connect(d)
    \/ SpeedChanges \/ \E t \in Threats \cup { "none" } : AlertChanges(t)
    \/ \E c \in Choices : ByHand(c) \/ PhoneWrites(c) \/ PushWrites(c)
    \/ PhoneConnects \/ PhoneLeaves \/ PushBegins \/ PushEnds
VolumeSpec == VolumeInit /\ [][VolumeNext]_volumeVars

\* The loop, the worker and the detector's packets never stop, so the retry
\* intervals pass; the pacing of the client lets a write through; a detector
\* that is asked again and again takes the write.
LetThrough(passes) ==
    LET writes == { m \in passes : cmd.ph = "idle" /\ m.c.ph # "idle" }
    IN  IF writes = {} THEN passes ELSE writes
CalmPass ==
    /\ Calm
    /\ heard' = Told /\ obs' = [ obs EXCEPT !.new = FALSE ]
    /\ UNCHANGED << det, air, slow, count >>
    /\ \E x \in { x \in Inputs : x.due } : \E m \in LetThrough(Passes(Now, x)) : Set(m)
VolumeFairness ==
    /\ WF_volumeVars(ParsePacket) /\ WF_volumeVars(Emit) /\ WF_volumeVars(WorkerStarts \/ Applied \/ NotApplied)
    /\ WF_volumeVars(CalmPass) /\ SF_volumeVars(Applied) /\ WF_volumeVars(PushEnds)
VolumeFairSpec == VolumeSpec /\ VolumeFairness

-----------------------------------------------------------------------------
(* Properties. *)

\* While auto push has the volume, no other owner has a write under way, and no
\* reduction is active, owed or about to be written.
LeaseIsExclusive ==
    /\ VolumeTypeOK
    /\ quiet.lease => ~quiet.speedOn /\ quiet.pend = None /\ ~quiet.fpend /\ ~fade.on
    /\ quiet.lease /\ cmd.ph # "idle" /\ link.up => cmd.owner = "push"

\* What the coordinator or the fade gives back is the latest choice it was told
\* of for this very detector: never a pair it had reduced itself, one that was
\* superseded, or one of another detector.  A detector it has dropped a
\* reduction for may show the reduced pair later, which is then taken for a
\* choice.
GivesBack ==
    \/ cmd'.owner = "speed" /\ ~quiet'.speedOn
    \/ cmd'.owner = "fade" /\ fade'.pend # None
RestoresTheChoiceStep ==
    cmd'.ph = "admitted" /\ cmd.ph = "idle" /\ GivesBack =>
        \/ cmd'.pair \in heard'[link.d]
        \/ Reduction(cmd'.pair) /\ link.d \in link.lost
RestoresTheChoice == [][RestoresTheChoiceStep]_volumeVars

\* Once it is calm, the volume of the detector is not left reduced, but on one a
\* reduction was dropped for.
NotLeftQuiet == []<>~(Calm /\ Reduction(det[link.d]))

=============================================================================
