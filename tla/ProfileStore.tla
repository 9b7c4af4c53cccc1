---------------------------- MODULE ProfileStore ----------------------------
(***************************************************************************)
(* One named profile of the detector, kept as a file with a version file   *)
(* beside it on the SD card and mirrored on the internal flash.  A save    *)
(* first writes an intent record to both, then moves the payloads, and is  *)
(* decided by one rename on the store that coordinates it.  A deletion is  *)
(* a version file that says so.  Whatever store is mounted at the next     *)
(* boot has to be brought back to a state that was acknowledged.           *)
(*                                                                         *)
(* Every file mutation is a step of its own and may fail; power may be     *)
(* lost between any two, and the card may be gone at the next boot.  A     *)
(* file that was written is read back as written: torn and corrupt files,  *)
(* which their checksums reject, are left out.                             *)
(***************************************************************************)
EXTENDS Naturals, FiniteSets

CONSTANTS
    Contents,       \* profile payloads
    None,           \* no payload, no store
    MaxVersion,     \* UINT32_MAX in the code
    MaxTrouble      \* bound on failed mutations and power losses

ASSUME ProfileAssumption ==
    None \notin Contents /\ MaxVersion \in Nat \ { 0 } /\ MaxTrouble \in Nat

VARIABLES
    disk,       \* the files of the profile on both stores
    mount,      \* fs_ and secondaryFs_, None when not mounted
    ready,      \* ready_
    task,         \* the operation that runs, see Op
    promise,    \* what the last acknowledgements allow a read to return
    behind,     \* stores that were not mounted when that was acknowledged
    forked,     \* both stores took edits the other one did not see
    trouble     \* failures and power losses so far

profileVars == << disk, mount, ready, task, promise, behind, forked, trouble >>
-----------------------------------------------------------------------------
Stores == { "card", "flash" }
Peer(s) == IF s = "card" THEN "flash" ELSE "card"
Payload == Contents \cup { None }

(* version 0 stands for a version file that is not there; status tells the *)
(* states of readSyncState apart.                                          *)
Sync == [ status : { "absent", "implicit", "current" },
          version : 0..MaxVersion, deleted : BOOLEAN ]
Absent == [ status |-> "absent", version |-> 0, deleted |-> FALSE ]
Implicit == [ status |-> "implicit", version |-> 1, deleted |-> FALSE ]
Current(v, gone) == [ status |-> "current", version |-> v, deleted |-> gone ]

Record == [ phase : { "none", "pending", "committed" }, coordinator : BOOLEAN,
            mirrored : BOOLEAN, had : Payload, before : Sync,
            version : 0..MaxVersion, content : Payload ]
NoRecord == [ phase |-> "none", coordinator |-> FALSE, mirrored |-> FALSE,
              had |-> None, before |-> Absent, version |-> 0, content |-> None ]

Files == [ live : Payload, bak : Payload, syncbak : Payload, prev : Payload,
           meta : Sync, record : Record ]

NoOp == [ kind |-> "none", step |-> "none", then |-> "none", content |-> None,
          to |-> None, state |-> Absent, was |-> [ s \in Stores |-> Absent ] ]
Op == [ kind : { "none", "boot", "save", "delete", "read" },
        step : { "none", "resolve", "repair", "reconcile", "winner", "winnerErase",
                 "loser", "loserMeta", "ready", "start", "intent", "intent2",
                 "aside", "promote", "meta", "drop", "keep", "prepare", "rotate",
                 "copy", "meta2", "commit", "tidy", "tomb", "tomb2", "erase",
                 "erased", "look" },
        then : { "none", "go", "undo", "finish" },
        content : Payload,                  \* what is being saved
        to : Stores \cup { None },          \* the store being repaired
        state : Sync,                       \* the generation being written
        was : [ Stores -> Sync ] ]          \* the version files found

Primary == mount[1]
Secondary == mount[2]
Off == Primary = None
Mounted == { mount[1], mount[2] } \ { None }
Idle == task.kind = "none"
Doing(k, p) == task.kind = k /\ task.step = p
-----------------------------------------------------------------------------
(* Reading the files.                                                      *)

(* readSyncState: a payload without a version file is of version 1.        *)
StateOf(f) == IF f.meta # Absent THEN f.meta
              ELSE IF f.live # None THEN Implicit ELSE Absent
State(s) == StateOf(disk[s])

(* selectProfilePayloadRollback: the payload kept aside that comes back    *)
(* when the live one is missing.                                           *)
Kept(f) == IF f.prev # None THEN "prev"
           ELSE IF f.syncbak # None THEN "syncbak" ELSE "bak"
HasKept(f) == f.prev # None \/ f.syncbak # None \/ f.bak # None
Rescued(f) == IF f.live = None /\ HasKept(f)
              THEN [ f EXCEPT !.live = f[Kept(f)], ![Kept(f)] = None ] ELSE f

RecordOf(s) == disk[s].record
Has(s) == s # None /\ disk[s].record.phase # "none"

MaxOf(a, b) == IF a >= b THEN a ELSE b
HasRoom(v) == v <= MaxVersion
NextVersion == MaxOf(State(Primary).version,
                     IF Secondary = None THEN 0 ELSE State(Secondary).version) + 1
-----------------------------------------------------------------------------
(* recoverProfileSave: what the records on the mounted stores decide.      *)

Matched ==
    LET a == RecordOf("card")  b == RecordOf("flash") IN
    /\ a.version = b.version /\ a.content = b.content
    /\ a.mirrored /\ b.mirrored /\ a.coordinator # b.coordinator

TrustsAny(r) == TRUE     \* mutant: a participant's intent counts as a decision
SelfAuthorising(r) == r.phase = "committed" \/ r.coordinator
Pair == Has(Primary) /\ Has(Secondary)

Verdict(s) ==
    IF Pair /\ Matched
    THEN IF \E t \in Stores : RecordOf(t).phase = "committed"
         THEN "commit" ELSE "undo"
    ELSE IF \E t \in Mounted : Has(t) /\ ~SelfAuthorising(RecordOf(t)) THEN "blocked"
    ELSE IF RecordOf(s).phase = "committed" THEN "commit" ELSE "undo"

(* verifyCommittedProfileSave *)
Verified(s) == /\ disk[s].meta = Current(RecordOf(s).version, FALSE)
               /\ disk[s].live = RecordOf(s).content

(* restoreProfileSaveRecord: the one mutation that comes next, on f.       *)
BackupName(r) == IF r.coordinator THEN "bak" ELSE "syncbak"
PayloadRestored(f) == f.live = f.record.had
Restorable(f) == \/ PayloadRestored(f) \/ f.record.had = None
                 \/ f[BackupName(f.record)] = f.record.had
MetaBefore(r) == IF r.before.status = "current" THEN r.before ELSE Absent
Restored(f) == PayloadRestored(f) /\ f.meta = MetaBefore(f.record)
RestoreNext(f) ==
    LET name == BackupName(f.record) IN
    IF PayloadRestored(f) THEN [ f EXCEPT !.meta = MetaBefore(f.record) ]
    ELSE IF f.live # None THEN [ f EXCEPT !.live = None ]
    ELSE [ f EXCEPT !.live = f[name], ![name] = None ]

(* The records a recovery still has to bring to their verdict, taken in    *)
(* the order of the stores, and the ones it then removes: the participant  *)
(* first, the coordinator last.                                            *)
Unsettled(s) == \/ Verdict(s) = "commit" /\ RecordOf(s).phase = "pending"
                \/ Verdict(s) = "undo" /\ ~Restored(disk[s])
HoldsDecision(s) == /\ Secondary = None /\ RecordOf(s).mirrored
                    /\ RecordOf(s).coordinator
Skipped == IF task.kind \in { "boot", "read" } /\ task.to # None THEN { Peer(task.to) } ELSE {}
Waiting == { s \in Mounted \ Skipped : Has(s) }
Turn(s) ==
    /\ s \in Waiting
    /\ IF Pair /\ ~Matched
       THEN s = Primary \/ Primary \notin Waiting
       ELSE IF \E t \in Waiting : Unsettled(t)
       THEN Unsettled(s) /\ (s = Primary \/ Primary \notin Waiting \/ ~Unsettled(Primary))
       ELSE ~RecordOf(s).coordinator \/ Waiting = { s }

Blocked(s) == \/ Verdict(s) = "blocked"
              \/ Verdict(s) = "commit" /\ ~Verified(s)
              \/ Verdict(s) = "undo" /\ ~Restorable(disk[s])

Settles(s) ==
    IF ~Unsettled(s) THEN [ disk[s] EXCEPT !.record = NoRecord ]
    ELSE IF Verdict(s) = "commit" THEN [ disk[s] EXCEPT !.record.phase = "committed" ]
    ELSE RestoreNext(disk[s])
-----------------------------------------------------------------------------
(* Steps of an operation.                                                  *)

Continue(p) == task' = [ task EXCEPT !.step = p ]
Ends == task' = NoOp
Writes(s, f) == disk' = [ disk EXCEPT ![s] = f ]
Promised == UNCHANGED << promise, behind, forked >>
Trouble == trouble < MaxTrouble /\ trouble' = trouble + 1

(* The mutation of store s that makes its files f, then step p; it may     *)
(* fail, and the operation then takes the way out that Failing describes.  *)
Mutates(s, f, p) ==
    Writes(s, f) /\ Continue(p) /\ Promised /\ UNCHANGED << mount, ready, trouble >>

(* recoverProfileSave(true) after a failed step of a save.                 *)
Undoing == task' = [ task EXCEPT !.step = "resolve", !.then = "undo" ]

Failing ==
    /\ Trouble
    /\ IF task.kind = "save" /\ task.step # "start" THEN Undoing ELSE Ends
    /\ UNCHANGED << disk, mount, ready, promise, behind, forked >>

(* What an acknowledged result means: every read returns it from now on.   *)
(* With one store mounted the other one is behind.  Two edits that cannot  *)
(* see each other fork the profile: the edit of a store that is behind, and *)
(* the edit of a generation the other store has already reached.           *)
Settled(s) == IF RecordOf(s).phase = "pending" THEN RecordOf(s).before.version
              ELSE State(s).version
Counts(values, version) ==
    /\ forked' = ( \/ forked
                   \/ /\ Secondary = None
                      /\ \/ Primary \in behind
                         \/ Settled(Peer(Primary)) >= version )
    /\ promise' = IF forked' THEN {} ELSE values
    /\ behind' = IF forked' THEN {} ELSE behind \cup (Stores \ Mounted)

(* ---- loading and recovering ---- *)

Resolving == task.step = "resolve"
RequireCleanup == task.kind \in { "save", "delete" }

(* What follows when recoverProfileSave returned true or false.            *)
Resolved(ok) ==
    LET Then(p) == task' = [ task EXCEPT !.step = p, !.to = None ] IN
    CASE task.then = "undo" -> Ends
      [] task.then = "finish" -> IF ok THEN Then("tidy") ELSE Then("erased")
      [] ~ok -> Ends
      [] task.kind = "boot" -> Then("repair")
      [] task.kind = "read" -> Then("look")
      [] OTHER -> Then("start")

(* An operation recovers first, unless there is no record to recover from. *)
Recovering(next) == IF \E s \in Mounted : Has(s) THEN "resolve" ELSE next

(* recoverProfileSave, one mutation at a time.                             *)
Resolve ==
    /\ Resolving
    /\ IF Waiting = {} THEN Resolved(TRUE) /\ UNCHANGED disk
       ELSE \E s \in Mounted :
         /\ Turn(s)
         /\ IF Blocked(s) THEN Resolved(FALSE) /\ UNCHANGED disk
            ELSE IF ~Unsettled(s) /\ HoldsDecision(s)
                 THEN Resolved(~RequireCleanup) /\ UNCHANGED disk
            ELSE Writes(s, Settles(s)) /\ UNCHANGED task
    /\ Promised /\ UNCHANGED << mount, ready, trouble >>

CleanupDeferred(s) == Verdict(s) = "commit" /\ ~RequireCleanup

(* One of its mutations fails: a commit decision stands all the same.      *)
ResolveFails ==
    /\ Resolving /\ Trouble
    /\ \E s \in Mounted :
         /\ Turn(s) /\ ~Blocked(s)
         /\ IF CleanupDeferred(s) /\ Pair /\ ~Matched /\ s = Primary
            THEN task' = [ task EXCEPT !.to = Secondary ]   \* the other record is still due
            ELSE Resolved(CleanupDeferred(s))
    /\ Promised /\ UNCHANGED << disk, mount, ready >>

(* Power on: the card is there or not, the flash mounts or not.            *)
Boot(m) ==
    /\ Off
    /\ mount' = m
    /\ task' = [ NoOp EXCEPT !.kind = "boot", !.step = "resolve", !.then = "go" ]
    /\ Promised /\ UNCHANGED << disk, ready, trouble >>

(* serviceRecovery: once a second while the store is not ready.            *)
ServiceRecovery ==
    /\ ~Off /\ ~ready /\ Idle
    /\ task' = [ NoOp EXCEPT !.kind = "boot", !.step = "resolve", !.then = "go" ]
    /\ Promised /\ UNCHANGED << disk, mount, ready, trouble >>

(* recoverInterruptedSaves: a payload kept aside becomes the live one that *)
(* is missing, unless the profile is deleted.                              *)
Repairable(s) == ~State(s).deleted /\ Rescued(disk[s]) # disk[s]
Repair ==
    /\ Doing("boot", "repair")
    /\ IF \E s \in Mounted : Repairable(s)
       THEN \E s \in Mounted : Repairable(s) /\ Writes(s, Rescued(disk[s])) /\ UNCHANGED task
       ELSE /\ IF Secondary = None THEN Continue("ready") ELSE Continue("reconcile")
            /\ UNCHANGED disk
    /\ Promised /\ UNCHANGED << mount, ready, trouble >>

(* ---- reconcileProfilesFrom ---- *)

Usable(s) == State(s).version > 0 /\ (State(s).deleted \/ disk[s].live # None)
Healthy ==
    LET a == State(Primary)  b == State(Secondary) IN
    /\ a = b /\ a.status = "current"
    /\ IF a.deleted THEN disk[Primary].live = None /\ disk[Secondary].live = None
       ELSE disk[Primary].live = disk[Secondary].live /\ disk[Primary].live # None

(* An equal generation that differs: a deletion wins, else the secondary   *)
(* store, which is where edits without the card go.                        *)
Conflict ==
    LET a == State(Primary)  b == State(Secondary) IN
    /\ Usable(Primary) /\ Usable(Secondary) /\ a.version = b.version
    /\ ~a.deleted /\ ~b.deleted /\ disk[Primary].live # disk[Secondary].live
SecondaryWins ==
    LET a == State(Primary)  b == State(Secondary) IN
    \/ Usable(Secondary) /\ ~Usable(Primary)
    \/ /\ Usable(Secondary) /\ Usable(Primary)
       /\ \/ b.version > a.version
          \/ b.version = a.version /\ b.deleted /\ ~a.deleted
          \/ Conflict
Winner == IF SecondaryWins THEN Secondary ELSE Primary
Loser == Peer(Winner)
Winning ==
    LET new == \/ Conflict
               \/ ~Usable(Loser) /\ State(Loser).version >= State(Winner).version
    IN Current(IF new THEN MaxOf(State(Primary).version, State(Secondary).version) + 1
               ELSE State(Winner).version, State(Winner).deleted)
LoserDiffers ==
    \/ State(Loser).version # Winning.version \/ State(Loser).deleted # Winning.deleted
    \/ (disk[Loser].live # None) = Winning.deleted
    \/ ~Winning.deleted /\ (disk[Loser].live # disk[Winner].live \/ ~Usable(Loser))

(* The winner is given the generation first; the loser then takes its      *)
(* payload and its version file.                                           *)
Reconcile ==
    /\ Doing("boot", "reconcile")
    /\ IF Healthy \/ ~(Usable(Primary) \/ Usable(Secondary))
       THEN Continue("ready") /\ UNCHANGED disk
       ELSE /\ HasRoom(Winning.version)
            /\ Writes(Winner, [ disk[Winner] EXCEPT !.meta = Winning ])
            /\ task' = [ task EXCEPT !.to = Loser, !.state = Winning,
                         !.step = IF ~LoserDiffers THEN "winnerErase"
                                  ELSE IF Winning.deleted THEN "loser" ELSE "prepare" ]
    /\ Promised /\ UNCHANGED << mount, ready, trouble >>

(* The generation counter is at its end: the operation is refused.         *)
Exhausted ==
    /\ \/ task.kind \in { "save", "delete" } /\ task.step = "start" /\ ~HasRoom(NextVersion)
       \/ /\ Doing("boot", "reconcile") /\ ~Healthy /\ \E s \in Stores : Usable(s)
          /\ ~HasRoom(Winning.version)
    /\ Ends /\ Promised /\ UNCHANGED << disk, mount, ready, trouble >>

EraseLoser ==
    /\ Doing("boot", "loser")
    /\ Mutates(task.to, [ disk[task.to] EXCEPT !.live = None ], "loserMeta")
LoserMeta ==
    /\ Doing("boot", "loserMeta")
    /\ Mutates(task.to, [ disk[task.to] EXCEPT !.meta = task.state ], "winnerErase")
WinnerErase ==
    /\ Doing("boot", "winnerErase")
    /\ LET w == Peer(task.to)  f == disk[w] IN
       Mutates(w, IF task.state.deleted THEN [ f EXCEPT !.live = None ] ELSE f, "winner")
(* The version file is written once more for a loser that never had one.   *)
MaterializeMeta ==
    /\ Doing("boot", "winner")
    /\ Mutates(task.to, [ disk[task.to] EXCEPT !.meta = task.state ], "ready")

(* ready_ = true.  With both stores mounted they are one again: what the   *)
(* code chose between two forks is the value from here on.                 *)
Agreed == IF State(Primary).deleted THEN None ELSE disk[Primary].live
BecomeReady ==
    /\ Doing("boot", "ready")
    /\ ready' = TRUE /\ Ends
    /\ IF Secondary = None THEN Promised
       ELSE /\ promise' = IF forked THEN { Agreed } ELSE promise
            /\ behind' = {} /\ forked' = FALSE
    /\ UNCHANGED << disk, mount, trouble >>

(* loadProfileUnlocked after its recovery: the value a caller is shown.  A *)
(* value read while both stores hold it is no longer in doubt.             *)
Begin(kind) ==
    /\ ready /\ Idle
    /\ task' = [ NoOp EXCEPT !.kind = kind, !.then = "go",
                            !.step = Recovering(IF kind = "read" THEN "look" ELSE "start") ]
    /\ Promised /\ UNCHANGED << disk, mount, ready, trouble >>
Look ==
    /\ Doing("read", "look")
    /\ LET f == disk[Primary] IN
       /\ IF State(Primary).deleted \/ Rescued(f) = f THEN UNCHANGED disk
          ELSE Writes(Primary, Rescued(f))
       /\ promise' = IF Secondary = None \/ State("card") # State("flash") THEN promise
                     ELSE IF State(Primary).deleted THEN { None } ELSE { Rescued(f).live }
    /\ Ends
    /\ UNCHANGED << mount, ready, behind, forked, trouble >>

(* ---- copyProfileFile onto the store task.to ---- *)

CopySource == IF task.kind = "save" THEN task.content ELSE disk[Peer(task.to)].live

(* prepareProfilePayloadReplacement for a mirror: one line of rollback.    *)
PrepareCopy ==
    /\ task.step = "prepare"
    /\ Mutates(task.to, [ Rescued(disk[task.to]) EXCEPT !.bak = None ], "rotate")

(* promoteTempFileWithRollback: the live payload moves to .prev ...        *)
RotateCopy ==
    /\ task.step = "rotate"
    /\ LET f == disk[task.to] IN
       Mutates(task.to, IF f.live = None THEN f
                      ELSE [ f EXCEPT !.prev = f.live, !.live = None ], "copy")

(* ... and the staged one takes its place; .prev may stay behind.          *)
PromoteCopy ==
    /\ task.step = "copy"
    /\ \E kept \in { None, disk[task.to].prev } :
         Mutates(task.to, [ disk[task.to] EXCEPT !.live = CopySource, !.prev = kept ],
                 IF task.kind = "save" THEN "meta2" ELSE "loserMeta")

(* The promotion fails and the way back succeeds.                          *)
PromoteFails ==
    /\ task.step = "copy" /\ Trouble
    /\ LET f == disk[task.to] IN
       Writes(task.to, IF f.prev = None THEN f ELSE [ f EXCEPT !.live = f.prev, !.prev = None ])
    /\ IF task.kind = "save" THEN Undoing ELSE Ends
    /\ Promised /\ UNCHANGED << mount, ready >>

(* ---- saveProfileUnlocked ---- *)

Save(content) ==
    /\ ready /\ Idle
    /\ task' = [ NoOp EXCEPT !.kind = "save", !.then = "go", !.content = content,
                            !.step = Recovering("start") ]
    /\ Promised /\ UNCHANGED << disk, mount, ready, trouble >>

(* One rollback lineage is kept, both version files are read, and the new  *)
(* generation is above both.                                               *)
SaveStart ==
    /\ Doing("save", "start") /\ HasRoom(NextVersion)
    /\ Writes(Primary, [ Rescued(disk[Primary]) EXCEPT !.prev = None, !.syncbak = None ])
    /\ task' = [ task EXCEPT !.step = "intent", !.state = Current(NextVersion, FALSE),
                         !.to = Secondary ]
    /\ Promised /\ UNCHANGED << mount, ready, trouble >>

Intent(s, coordinator) ==
    [ phase |-> "pending", coordinator |-> coordinator, mirrored |-> Secondary # None,
      had |-> disk[s].live, before |-> State(s),
      version |-> task.state.version, content |-> task.content ]

WriteIntent ==
    /\ Doing("save", "intent")
    /\ Mutates(Primary, [ disk[Primary] EXCEPT !.record = Intent(Primary, TRUE) ],
               IF Secondary = None THEN "aside" ELSE "intent2")
WriteSecondIntent ==
    /\ Doing("save", "intent2")
    /\ Mutates(Secondary, [ disk[Secondary] EXCEPT !.record = Intent(Secondary, FALSE) ],
               "aside")
MoveAside ==
    /\ Doing("save", "aside")
    /\ LET f == disk[Primary] IN
       Mutates(Primary, IF f.live = None THEN f
                        ELSE [ f EXCEPT !.bak = f.live, !.live = None ], "promote")
(* The old backup was removed, the rename of the live payload failed.      *)
MoveAsideFails ==
    /\ Doing("save", "aside") /\ Trouble /\ disk[Primary].live # None
    /\ Writes(Primary, [ disk[Primary] EXCEPT !.bak = None ]) /\ Undoing
    /\ Promised /\ UNCHANGED << mount, ready >>
Promote ==
    /\ Doing("save", "promote")
    /\ Mutates(Primary, [ disk[Primary] EXCEPT !.live = task.content ], "meta")
WriteMeta ==
    /\ Doing("save", "meta")
    /\ Mutates(Primary, [ disk[Primary] EXCEPT !.meta = task.state ],
               IF Secondary = None THEN "commit" ELSE "drop")
DropBackup ==
    /\ Doing("save", "drop")
    /\ Mutates(Secondary, [ disk[Secondary] EXCEPT !.syncbak = None ], "keep")
KeepBackup ==
    /\ Doing("save", "keep")
    /\ Mutates(Secondary, [ disk[Secondary] EXCEPT !.syncbak = disk[Secondary].live ],
               "prepare")
WriteSecondMeta ==
    /\ Doing("save", "meta2")
    /\ Mutates(Secondary, [ disk[Secondary] EXCEPT !.meta = task.state ], "commit")

(* commitProfileSaveRecord: the one rename that decides the save.          *)
CommitSave ==
    /\ Doing("save", "commit")
    /\ Writes(Primary, [ disk[Primary] EXCEPT !.record.phase = "committed" ])
    /\ task' = [ task EXCEPT !.step = "resolve", !.then = "finish" ]
    /\ Promised /\ UNCHANGED << mount, ready, trouble >>

(* The backups go once the records are gone; either may stay behind.       *)
Tidy ==
    /\ Doing("save", "tidy")
    /\ \E gone \in SUBSET Mounted :
         disk' = [ s \in Stores |->
                     IF s \notin gone THEN disk[s]
                     ELSE IF s = Primary THEN [ disk[s] EXCEPT !.bak = None ]
                     ELSE [ disk[s] EXCEPT !.syncbak = None ] ]
    /\ Continue("erased") /\ Promised /\ UNCHANGED << mount, ready, trouble >>

(* ---- deleteProfileUnlocked ---- *)

DeleteStart ==
    /\ Doing("delete", "start") /\ HasRoom(NextVersion)
    /\ IF \E s \in Mounted : disk[s].live # None \/ disk[s].bak # None
       THEN task' = [ task EXCEPT !.step = "tomb", !.state = Current(NextVersion, TRUE),
                      !.was = [ s \in Stores |-> IF s \in Mounted THEN State(s) ELSE Absent ] ]
       ELSE Ends        \* "Profile not found"
    /\ Promised /\ UNCHANGED << disk, mount, ready, trouble >>

Bury ==
    /\ Doing("delete", "tomb")
    /\ Mutates(Primary, [ disk[Primary] EXCEPT !.meta = task.state ],
               IF Secondary = None THEN "erase" ELSE "tomb2")
BurySecond ==
    /\ Doing("delete", "tomb2")
    /\ Mutates(Secondary, [ disk[Secondary] EXCEPT !.meta = task.state ], "erase")

(* restoreSyncState on both: where it fails the deletion is in doubt.      *)
BurySecondFails ==
    /\ Doing("delete", "tomb2") /\ Trouble
    /\ \E back \in SUBSET { Primary } :
         /\ disk' = [ disk EXCEPT ![Primary].meta =
                        IF back = {} THEN @
                        ELSE IF task.was[Primary].status = "current" THEN task.was[Primary]
                        ELSE Absent ]
         /\ promise' = IF back = {} THEN promise \cup { None } ELSE promise
    /\ Ends
    /\ UNCHANGED << mount, ready, behind, forked >>

(* The payloads go; what cannot be removed stays under the tombstone.      *)
Erase ==
    /\ Doing("delete", "erase")
    /\ \E gone \in SUBSET (Mounted \X { "live", "bak" }) :
         disk' = [ s \in Stores |->
                     [ disk[s] EXCEPT !.live = IF << s, "live" >> \in gone THEN None ELSE @,
                                      !.bak = IF << s, "bak" >> \in gone THEN None ELSE @ ] ]
    /\ Continue("erased") /\ Promised /\ UNCHANGED << mount, ready, trouble >>

(* Success is reported.                                                    *)
Result == IF task.kind = "save" THEN task.content ELSE None
Acknowledge ==
    /\ task.step = "erased"
    /\ Counts({ Result }, task.state.version) /\ Ends
    /\ UNCHANGED << disk, mount, ready, trouble >>
-----------------------------------------------------------------------------
(* Power is lost: what was being done is in doubt.                         *)
PowerLoss ==
    /\ ~Off /\ Trouble
    /\ mount' = << None, None >> /\ ready' = FALSE /\ task' = NoOp
    /\ IF task.kind \in { "save", "delete" } /\ task.state # Absent /\ task.then # "undo"
       THEN Counts(promise \cup { Result }, task.state.version)
       ELSE Promised
    /\ UNCHANGED disk

(* Power is switched off while nothing runs.                               *)
PowerOff ==
    /\ ~Off /\ Idle
    /\ mount' = << None, None >> /\ ready' = FALSE
    /\ Promised /\ UNCHANGED << disk, task, trouble >>

FailingSteps ==
    { "repair", "reconcile", "loser", "loserMeta", "winner", "winnerErase", "start",
      "intent", "intent2", "aside", "promote", "meta", "drop", "keep", "prepare",
      "rotate", "meta2", "commit", "tomb" }
StepFails == task.step \in FailingSteps /\ Failing

Working ==
    \/ Resolve \/ Repair \/ Reconcile \/ EraseLoser \/ LoserMeta \/ WinnerErase
    \/ Exhausted \/ MaterializeMeta \/ BecomeReady \/ PrepareCopy \/ RotateCopy \/ PromoteCopy
    \/ SaveStart \/ WriteIntent \/ WriteSecondIntent \/ MoveAside \/ Promote
    \/ WriteMeta \/ DropBackup \/ KeepBackup \/ WriteSecondMeta \/ CommitSave \/ Tidy
    \/ DeleteStart \/ Bury \/ BurySecond \/ Erase \/ Acknowledge \/ Look
    \/ ServiceRecovery

Mounts == { << "card", "flash" >>, << "flash", None >>, << "card", None >> }

ProfileInit ==
    /\ \E a, b \in Payload :        \* what an older firmware left, without versions
         disk = [ s \in Stores |->
                    [ live |-> IF s = "card" THEN a ELSE b, bak |-> None, syncbak |-> None,
                      prev |-> None, meta |-> Absent, record |-> NoRecord ] ]
    /\ mount = << None, None >> /\ ready = FALSE /\ task = NoOp
    /\ promise = { a \in Payload : \E s \in Stores : disk[s].live = a }
    /\ behind = {} /\ forked = FALSE /\ trouble = 0

ProfileNext ==
    \/ Working
    \/ \E m \in Mounts : Boot(m)
    \/ \E c \in Contents : Save(c)
    \/ \E kind \in { "delete", "read" } : Begin(kind)
    \/ ResolveFails \/ StepFails \/ PromoteFails \/ MoveAsideFails \/ BurySecondFails
    \/ PowerLoss \/ PowerOff

ProfileSpec == ProfileInit /\ [][ProfileNext]_profileVars
-----------------------------------------------------------------------------
ProfileTypeOK ==
    /\ disk \in [ Stores -> Files ] /\ mount \in Mounts \cup { << None, None >> }
    /\ ready \in BOOLEAN /\ task \in Op
    /\ promise \subseteq Payload /\ behind \subseteq Stores /\ forked \in BOOLEAN
    /\ trouble \in 0..MaxTrouble

(* What a read is about to show was acknowledged, or is in doubt because   *)
(* power was lost: whichever store is mounted, after any failure, unless   *)
(* the store did not see the last edit or two stores took edits apart.     *)
(* One case is left out: a deletion was cut off when one store alone had   *)
(* its tombstone; the reconciliation erases the payload of the other, and  *)
(* is cut off before the tombstone is written there.  With that store      *)
(* alone, the repair takes what an older save left aside for the payload.  *)
Shown == IF State(Primary).deleted THEN None ELSE Rescued(disk[Primary]).live
Accountable == Doing("read", "look") /\ ~forked /\ Primary \notin behind
BuriedOnOther ==
    /\ Secondary = None /\ State(Peer(Primary)).deleted
    /\ State(Peer(Primary)).version > State(Primary).version
InDoubt == promise # { None }
AcknowledgedKept == Accountable => Shown \in promise \/ (InDoubt /\ BuriedOnOther)

(* With both stores mounted, a successful save or deletion is on both: the *)
(* card may be taken out right after it was reported.                      *)
MirroredWhenReported ==
    task.step = "erased" /\ Secondary # None =>
        /\ State(Primary) = task.state /\ State(Secondary) = task.state
        /\ task.kind = "save" => /\ disk[Primary].live = task.content
                               /\ disk[Secondary].live = task.content

(* With both stores mounted an undecided save can be decided and undone:   *)
(* no sequence of failed steps, power losses and boots without the card    *)
(* leaves intents that contradict each other or lack their backup.         *)
UndecidedIsUndone ==
    Resolving /\ Secondary # None =>
        \A s \in Mounted : Has(s) /\ Verdict(s) # "commit" => ~Blocked(s)

(* "failures may defer cleanup but cannot reject the save": a committed    *)
(* record whose removal failed never blocks a later recovery.              *)
DeferredCleanupIsHarmless ==
    Resolving /\ Secondary # None =>
        \A s \in Mounted : Has(s) /\ Turn(s) => ~Blocked(s)
=============================================================================
