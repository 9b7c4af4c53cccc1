----------------------------- MODULE MCDetector -----------------------------
(***************************************************************************)
(* What runs on the drive loop against the detector's settings, one at a   *)
(* time: the durable operation of the web UI, the auto push executor, and  *)
(* the automatic mute of the In the Box feature.                           *)
(***************************************************************************)
EXTENDS SettingsOperation

CONSTANT Parts   \* which of "operation", "push", "mute"

VARIABLES part,
          op, status, edge, lease, snap, seen, hand,          \* AutoPush
          obs, alerts, box, tap, asked, count, turn,          \* AutomaticMute
          session, cmd, air, det                              \* both

-----------------------------------------------------------------------------
(* Instances. *)
User(r, f, x) == [ region |-> r, filter |-> f, rest |-> x ]
Plan(req, user, mode, custom) ==
    [ req |-> req, user |-> user, display |-> "q", mode |-> mode, volume |-> "q", custom |-> custom ]
Plans == { Plan({ "user", "custom", "mode" }, User("euro", TRUE, "p"), "logic", { "k2" }),
           Plan({ "display", "volume", "user" }, User("usa", FALSE, "q"), "logic", {}),
           Plan({ "user", "custom" }, User("usa", TRUE, "p"), "logic", { "k2", "a2" }) }
Push == INSTANCE AutoPush WITH
    StartUser <- User("usa", FALSE, "p"),
    MaxOps <- 1, MaxSessions <- 2, MaxHand <- 1, MaxAir <- 3, Acknowledged <- TRUE, link <- session

Mute == INSTANCE AutomaticMute WITH
    Tables <- { { "out" }, { "out", "in" }, { "out", "unknown" } },
    Detectors <- { "d1", "d2" }, MaxEvents <- 2, MaxAir <- 1, link <- session

-----------------------------------------------------------------------------
(* One of them at a time; the operation that does not run is as it begins. *)
pushVars == << op, status, edge, lease, snap, seen, hand >>
muteVars == << obs, alerts, box, tap, asked, count, turn >>
detectorVars == << part, vars, pushVars, muteVars, session, cmd, air, det >>

NoPush == op = 0 /\ status = 0 /\ edge = 0 /\ lease = 0 /\ snap = 0 /\ seen = 0 /\ hand = 0
NoMute == obs = 0 /\ alerts = 0 /\ box = 0 /\ tap = 0 /\ asked = 0 /\ count = 0 /\ turn = 0

DetectorInit ==
    /\ part \in Parts
    /\ Init
    /\ \/ part = "operation" /\ NoPush /\ NoMute /\ session = 0 /\ cmd = 0 /\ air = 0 /\ det = 0
       \/ part = "push" /\ Push!Init /\ NoMute
       \/ part = "mute" /\ Mute!Init /\ NoPush

Operates(A) == part = "operation" /\ A /\ UNCHANGED << part, pushVars, muteVars, session, cmd, air, det >>
Pushes(A) == part = "push" /\ A /\ UNCHANGED << part, vars, muteVars >>
Mutes(A) == part = "mute" /\ A /\ UNCHANGED << part, vars, pushVars >>

DetectorNext == Operates(Next) \/ Pushes(Push!Next) \/ Mutes(Mute!Next)

\* The fairness of the operation and of the executor.  The part never changes,
\* so the fairness of a disjunction over the parts is that of the part that runs.
DetectorSpec ==
    /\ DetectorInit /\ [][DetectorNext]_detectorVars
    /\ WF_detectorVars(Operates(processSettingsOperation) \/ Pushes(Push!process))
    /\ WF_detectorVars(Operates(ReturnDue) \/ Pushes(Push!TimePasses))
    /\ WF_detectorVars(Operates(Boot))
    /\ SF_detectorVars(Operates(processSettingsOperation /\ ~ram.wrong))
    /\ SF_detectorVars(Operates(Ages))

-----------------------------------------------------------------------------
(* Properties, besides those of the operation. *)

\* AutoPushModule::process: a factory table is never exposed, success is true,
\* and nothing is left behind.
PushSafe ==
    /\ [](part = "push" => Push!TypeOK /\ Push!PushSafe)
    /\ [][part = "push" => Push!PushHonestStep]_detectorVars

\* InTheBox: what the driver decided by touch stands.
DriverWins ==
    /\ [](part = "mute" => Mute!TypeOK)
    /\ [][part = "mute" => Mute!DriverWinsStep]_detectorVars

\* What holds the detector releases it: the operation gives it back and the
\* executor becomes idle.  The automatic mute does not always: see NotLeftMuted.
Holds ==
    \/ part = "operation" /\ Held
    \/ part = "push" /\ Push!isActive
Released ==
    \/ part = "operation" /\ GivenBack
    \/ part = "push" /\ ~Push!isActive
DetectorReleased == Holds ~> Released
=============================================================================
