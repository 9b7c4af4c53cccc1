------------------------------- MODULE MCLink -------------------------------
(***************************************************************************)
(* What runs beside the drive loop and must come to an end, one at a time: *)
(* the phases of the V1 client, the queue that takes its notifications, and *)
(* the writer that keeps a copy of the settings on the card.               *)
(***************************************************************************)
EXTENDS V1Link

CONSTANT Parts   \* which of "v1", "stream", "backup"

VARIABLES part,
          link, made, feed, stamp, callback, queue, session, input, rx, long,  \* NotificationStream
          flags, pass, parser, lost, mark,
          card, nvs, done, ram, cat, req, payload, writer, disk, main, seen, want, changes  \* SettingsBackup

Stream == INSTANCE NotificationStream WITH
    Sizes <- { 2 }, MaxSent <- 2, MaxLinks <- 2, Depth <- 2, Room <- 2, Budget <- 2

Backup == INSTANCE SettingsBackup WITH
    MaxEdits <- 2, MaxTrouble <- 1, MaxBoots <- 2, Fresh <- FALSE,
    queue <- payload, count <- changes

-----------------------------------------------------------------------------
(* One of them at a time; the client that does not run is as it begins.    *)
streamVars ==
    << link, made, feed, stamp, callback, queue, session, input, rx, long, flags, pass, parser, lost, mark >>
backupVars == << card, nvs, done, ram, cat, req, payload, writer, disk, main, seen, want, changes >>
besidesVars == << part, vars, streamVars, backupVars >>

NoStream ==
    /\ link = 0 /\ made = 0 /\ feed = 0 /\ stamp = 0 /\ callback = 0 /\ queue = 0 /\ session = 0 /\ input = 0
    /\ rx = 0 /\ long = 0 /\ flags = 0 /\ pass = 0 /\ parser = 0 /\ lost = 0 /\ mark = 0
NoBackup ==
    /\ card = 0 /\ nvs = 0 /\ done = 0 /\ ram = 0 /\ cat = 0 /\ req = 0 /\ payload = 0
    /\ writer = 0 /\ disk = 0 /\ main = 0 /\ seen = 0 /\ want = 0 /\ changes = 0

BesidesInit ==
    /\ part \in Parts
    /\ Init
    /\ IF part = "stream" THEN Stream!Init ELSE NoStream
    /\ IF part = "backup" THEN Backup!Init ELSE NoBackup

OnV1(A) == part = "v1" /\ A /\ UNCHANGED << part, streamVars, backupVars >>
OnStream(A) == part = "stream" /\ A /\ UNCHANGED << part, vars, backupVars >>
OnBackup(A) == part = "backup" /\ A /\ UNCHANGED << part, vars, streamVars >>

BesidesNext == OnV1(Next) \/ OnStream(Stream!Next) \/ OnBackup(Backup!Next)

\* The fairness of each module.  The part never changes, so the fairness of a
\* disjunction over the parts is the fairness of the part that runs.
BesidesSpec ==
    /\ BesidesInit /\ [][BesidesNext]_besidesVars
    /\ WF_besidesVars(OnV1(Loop) \/ OnStream(Stream!Process) \/ OnBackup(Backup!MainSteps))
    /\ WF_besidesVars(OnV1(HostStep) \/ OnBackup(Backup!WriterSteps))
    /\ WF_besidesVars(OnV1(Expire))
    /\ WF_besidesVars(OnV1(ScanEnd))

-----------------------------------------------------------------------------
(* Properties, besides those of the client. *)

\* BleQueueModule and V1BLEClient: what is staged is of this session, and
\* shown tables were sent together.
StreamSafe == part = "stream" => Stream!StreamSafe

\* The mute policy trusts the alert input only on a table received whole after
\* the last loss (qualifyV1AlertInput).
TrustNeedsAFreshTable == part = "stream" => Stream!TrustNeedsAFreshTable

\* SettingsManager and its backup writer: a complete revision is on the card,
\* a receipt is true, and no valid copy is lost to a rotation that is cut.
BackupKept ==
    /\ [](part = "backup" => Backup!TypeOK /\ Backup!IntentKept /\ Backup!ReceiptIsTrue)
    /\ [][part = "backup" => Backup!CopyKeptStep]_besidesVars

\* No phase and no teardown of the V1 client keeps it, the notification queue is
\* emptied, and a requested backup is written or found needless
\* (processClientQuiesce, BleQueueModule::process, deferredBackupWriterTask).
Waits ==
    \/ part = "v1" /\ ~AtRest
    \/ part = "stream" /\ queue # << >>
    \/ part = "backup" /\ Backup!Waits
WaitsEnd == Waits ~> ~Waits
=============================================================================
