--------------------------- MODULE SettingsBackup ---------------------------
(***************************************************************************)
(* The copy of the settings kept on the card (settings_backup.cpp, the     *)
(* revisions of settings.cpp, the recovery at boot of settings_restore.cpp *)
(* and the doors of main_setup_helpers.cpp).  A save commits settings and  *)
(* the revision a backup is due for in one NVS generation; the copy is     *)
(* written by the saving task or, deferred, by a writer task that a        *)
(* one-place queue feeds.  Power may fail between any two file operations. *)
(*                                                                         *)
(* Settings are their edit's number, the catalog of profiles its own; a    *)
(* request token is the fact of still being the newest.                    *)
(***************************************************************************)
EXTENDS Integers

CONSTANTS MaxEdits,    \* how often the user changes something
          MaxTrouble,  \* how many operations fail, and how many shutdowns begin
          MaxBoots,    \* how often power returns
          Fresh        \* whether device and card are new

VARIABLES
    card,     \* the live and the previous file
    nvs,      \* the committed generation
    done,     \* the revision in the metadata namespace whose backup is complete
    ram,      \* SettingsManager
    cat,      \* the catalog of profiles
    req,      \* DeferredSettingsBackupState: requests and retries
    queue,    \* the payload that waits for the writer
    writer,   \* the writer task
    disk,     \* who holds the card, and how far the rotation is
    main,     \* where the settings task is
    seen,     \* BackupObservations
    want,     \* ghost: the edit of the last commit with a backup intent
    count     \* edits, troubles and boots so far

vars == << card, nvs, done, ram, cat, req, queue, writer, disk, main, seen, want, count >>

Edits == 0 .. MaxEdits
Revisions == 0 .. 2 * MaxEdits + MaxBoots + MaxTrouble + 1

NoFile == [is |-> "none", cfg |-> 0, cat |-> 0]
Junk == [is |-> "junk", cfg |-> 0, cat |-> 0]
Document(cfg, profiles) == [is |-> "doc", cfg |-> cfg, cat |-> profiles]
Files == { NoFile, Junk } \cup { Document(c, k) : c \in Edits, k \in Edits }

\* The best candidate: equal scores go to the first name in the list.
Best ==
    CASE card.live.is = "doc" -> card.live
      [] card.live.is # "doc" /\ card.prev.is = "doc" -> card.prev
      [] OTHER -> NoFile

AnyCandidate == card.live.is # "none" \/ card.prev.is # "none"

Pending(due, completed) == due # 0 /\ due # completed

\* next, skipping the revisions in use.
NextFresh(counter, due, completed) ==
    CHOOSE r \in counter + 1 .. counter + 3 :
        /\ r \notin { due, completed }
        /\ \A s \in counter + 1 .. r - 1 : s \in { due, completed }

ResumeCounter(due, completed) ==
    IF completed # 0 THEN completed ELSE IF due # 0 THEN due ELSE 1

NoPayload ==
    [is |-> FALSE, cfg |-> 0, cat |-> 0, rev |-> 0, seen |-> 0, newest |-> FALSE, protect |-> FALSE]

\* Built from the settings `r` and the catalog, under the newest request.
Payload(r, profiles) ==
    [is |-> TRUE, cfg |-> r.cfg, cat |-> profiles, rev |-> r.due, seen |-> r.counter,
     newest |-> TRUE, protect |-> r.restoring]

Idle == [by |-> "nobody", step |-> "idle", rotated |-> FALSE, pay |-> NoPayload]
Loop == [at |-> "loop", next |-> "loop", retry |-> FALSE, pay |-> NoPayload]
NoWriter == [at |-> "none", active |-> FALSE, leaving |-> FALSE, stop |-> FALSE, pay |-> NoPayload]
NoRequest == [pending |-> FALSE, retry |-> FALSE, backoff |-> FALSE]
NothingSeen == [has |-> FALSE, rev |-> 0, cat |-> 0, newest |-> FALSE, last |-> "never"]
Defaults ==
    [cfg |-> 0, due |-> 0, done |-> 0, counter |-> 0, restoring |-> FALSE, dirty |-> FALSE,
     failed |-> FALSE, recovering |-> FALSE, mounted |-> FALSE]

TypeOK ==
    /\ card \in [live : Files, prev : Files]
    /\ nvs \in [present : BOOLEAN, cfg : Edits, due : Revisions, restoring : BOOLEAN]
    /\ done \in Revisions
    /\ { ram.due, ram.done, ram.counter } \subseteq Revisions
    /\ main.at \in { "off", "boot", "loop", "lock", "write", "admit", "stopping" }
    /\ disk.by \in { "nobody", "main", "writer" }
    /\ writer.at \in { "none", "receive", "write", "leave" }
    /\ queue.is \in BOOLEAN

\* A new device, or one that has settings and perhaps a backup of them.
Init ==
    /\ \/ /\ Fresh
          /\ card = [live |-> NoFile, prev |-> NoFile]
          /\ nvs = [present |-> FALSE, cfg |-> 0, due |-> 0, restoring |-> FALSE]
          /\ done = 0
       \/ /\ ~Fresh
          /\ nvs = [present |-> TRUE, cfg |-> 0, due |-> 0, restoring |-> FALSE]
          /\ done = 0
          /\ \E live \in { NoFile, Junk, Document(0, 0) }, prev \in { NoFile, Document(0, 0) } :
                card = [live |-> live, prev |-> prev]
    /\ ram = Defaults /\ cat = 0
    /\ req = NoRequest /\ queue = NoPayload /\ writer = NoWriter /\ disk = Idle
    /\ main = [Loop EXCEPT !.at = "off"]
    /\ seen = NothingSeen
    /\ want = 0
    /\ count = [edits |-> 0, trouble |-> 0, boots |-> 0]

Trouble == count.trouble < MaxTrouble /\ count' = [count EXCEPT !.trouble = @ + 1]
Fine == count' = count

Running == main.at \notin { "off", "boot" }

\* publishBackupRequest: everything built before is old.
Old(payload) == [payload EXCEPT !.newest = FALSE]
AgedWriter(w) == [w EXCEPT !.pay = Old(@)]
AgedDisk(d) == IF d.by = "writer" THEN [d EXCEPT !.pay = Old(@)] ELSE d
Publish ==
    /\ queue' = Old(queue)
    /\ writer' = AgedWriter(writer)
    /\ disk' = AgedDisk(disk)
    /\ seen' = [seen EXCEPT !.newest = FALSE]

\* ensureSettingsLoaded lets nobody write while recovery has not ended.
MayWrite == ~ram.recovering

Requested == [req EXCEPT !.pending = TRUE, !.backoff = FALSE]

\* requestDeferredBackupFromCurrentState
Request == Publish /\ req' = Requested

-----------------------------------------------------------------------------
\* persistSettingsWithBackupIntent of the settings `cfg`: settings, due
\* revision and restore marker in one generation.  A failure restores the
\* revisions.
Intent(r) ==
    LET revision == NextFresh(r.counter, r.due, done)
    IN  [r EXCEPT !.counter = revision, !.due = revision, !.done = done,
                  !.dirty = FALSE, !.failed = FALSE]

Commit(r) ==
    /\ ram' = Intent(r)
    /\ nvs' = [present |-> TRUE, cfg |-> r.cfg, due |-> Intent(r).due, restoring |-> r.restoring]
    /\ want' = r.cfg

\* A generation without a new intent: only the counter moves.
CommitQuietly(r) ==
    /\ ram' = [r EXCEPT !.done = done, !.counter = NextFresh(r.counter, r.due, done)]
    /\ nvs' = [present |-> TRUE, cfg |-> r.cfg, due |-> r.due, restoring |-> r.restoring]

\* backupToSD up to the lock: it outdates every payload built before, and
\* waits for the card with its own.
BackupNow(r, profiles, retry, next) ==
    /\ Publish
    /\ main' = [at |-> "lock", next |-> next, retry |-> retry, pay |-> Payload(r, profiles)]
    /\ req' = req

\* save(): commit, then back up at once; without a card, ask for a backup.
Save(r, next) ==
    /\ Commit(r)
    /\ \/ ram.mounted /\ BackupNow(Intent(r), cat, TRUE, next)
       \/ ~ram.mounted /\ Request /\ main' = [Loop EXCEPT !.at = next]

EditNumber == count.edits + 1
Edited == [ram EXCEPT !.cfg = EditNumber]
Edit == main.at = "loop" /\ MayWrite /\ count.edits < MaxEdits /\ count' = [count EXCEPT !.edits = @ + 1]

\* A setter that saves at once, one that marks the settings dirty, a change
\* of the catalog and an uploaded document.
EditNow ==
    /\ Edit
    /\ Save(Edited, "loop")
    /\ UNCHANGED << card, done, cat >>

EditLater ==
    /\ Edit
    /\ ram' = [Edited EXCEPT !.dirty = TRUE]
    /\ UNCHANGED << card, nvs, done, cat, req, queue, writer, disk, main, seen, want >>

EditProfiles ==
    /\ Edit
    /\ cat' = EditNumber
    /\ Request
    /\ UNCHANGED << card, nvs, done, ram, main, want >>

Import ==
    /\ Edit
    /\ cat' = EditNumber
    /\ Commit([Edited EXCEPT !.restoring = FALSE])
    /\ Request
    /\ UNCHANGED << card, done, main >>

\* validateProfileReferences clears a reference nobody holds: a commit
\* without an intent.
ClearReference ==
    /\ main.at = "loop" /\ MayWrite /\ Trouble
    /\ CommitQuietly(ram)
    /\ UNCHANGED << card, done, cat, req, queue, writer, disk, main, seen, want >>

\* serviceDeferredPersist, once the debounce has passed.
ServicePersist ==
    /\ main.at = "loop" /\ ram.dirty /\ MayWrite
    /\ \/ Commit(ram) /\ Request /\ Fine
       \/ /\ Trouble
          /\ ram' = [ram EXCEPT !.failed = TRUE]
          /\ UNCHANGED << nvs, want, req, queue, writer, disk, seen >>
    /\ UNCHANGED << card, done, cat, main >>

-----------------------------------------------------------------------------
\* The end of an attempt, for whoever asks for the status: a snapshot that was
\* written is remembered, another outcome only noted, and that nothing was
\* attempted does not hide what was written.
Note(payload, outcome) ==
    seen' = IF outcome = "written"
            THEN [has |-> TRUE, rev |-> payload.seen, cat |-> payload.cat,
                  newest |-> payload.newest, last |-> outcome]
            ELSE IF outcome = "superseded" /\ seen.has THEN seen
            ELSE [seen EXCEPT !.last = outcome]

\* backupToSD returns: save() asks for a deferred backup when it failed.
MainEnds(payload, outcome) ==
    /\ disk' = IF disk.by = "main" THEN Idle ELSE AgedDisk(disk)
    /\ main' = [Loop EXCEPT !.at = main.next]
    /\ IF outcome # "written" /\ main.retry
       THEN /\ queue' = Old(queue) /\ writer' = AgedWriter(writer) /\ req' = Requested
            /\ seen' = [seen EXCEPT !.last = outcome, !.newest = FALSE]
       ELSE Note(payload, outcome) /\ UNCHANGED << queue, writer, req >>

\* The writer is done with its payload; a failure is retried.
WriterEnds(payload, outcome) ==
    /\ disk' = Idle
    /\ writer' = [writer EXCEPT !.at = "receive", !.pay = NoPayload]
    /\ req' = [req EXCEPT !.retry = @ \/ outcome \notin { "written", "preserved" }]
    /\ Note(payload, outcome)
    /\ UNCHANGED << queue, main >>

Ends(payload, outcome) ==
    \/ disk.by = "main" /\ MainEnds(payload, outcome)
    \/ disk.by = "writer" /\ WriterEnds(payload, outcome)

\* mutant: a completed write marks what is due now.
CompletesDue(payload) == nvs.due
\* markBackupRevisionCompleted: the revision the payload was built for; a
\* backup that nothing was due for marks nothing.
Completes(payload) == IF payload.rev = 0 THEN done ELSE payload.rev

\* mutant: the best copy behind a corrupt live name is not put there first.
RotatesAtOnce ==
    IF card.live.is = "none" THEN "promote" ELSE IF card.prev.is # "none" THEN "clear" ELSE "rotate"
\* The first thing the rotation has to do: make the best copy the live one,
\* give up the previous file, move the live one there, or put the new one in
\* place.
FirstStep ==
    IF card.live.is # "doc" /\ card.prev.is = "doc"
    THEN IF card.live.is = "junk" THEN "drop" ELSE "lift"
    ELSE IF card.live.is = "none" THEN "promote"
    ELSE IF card.prev.is # "none" THEN "clear" ELSE "rotate"

Begin(by, payload) ==
    disk' = [by |-> by, step |-> FirstStep, rotated |-> FALSE, pay |-> payload]

\* backupToSD takes the lock, or gives up when the writer keeps it.
MainLock ==
    /\ main.at = "lock" /\ disk.by = "nobody"
    /\ \/ /\ main.pay.protect /\ AnyCandidate
          /\ MainEnds(main.pay, IF Best.is = "doc" THEN "preserved" ELSE "failed")
       \/ /\ ~(main.pay.protect /\ AnyCandidate)
          /\ Begin("main", main.pay)
          /\ main' = [main EXCEPT !.at = "write", !.pay = NoPayload]
          /\ UNCHANGED << queue, writer, req, seen >>
    /\ UNCHANGED << card, nvs, done, ram, cat, want, count >>

MainGivesUp ==
    /\ main.at = "lock"
    /\ \/ disk.by = "writer" /\ Fine
       \/ Trouble
    /\ MainEnds(main.pay, "failed")
    /\ UNCHANGED << card, nvs, done, ram, cat, want >>

\* writeDeferredBackupPayloadNow: a payload that is no longer the newest is
\* refused, and one built while a restore was due writes over nothing.
WriterLock ==
    /\ writer.at = "write" /\ disk.by = "nobody"
    /\ LET payload == writer.pay
           guarded == payload.protect /\ AnyCandidate
       IN  \/ /\ ~payload.newest
              /\ WriterEnds(payload, "superseded") /\ UNCHANGED done
           \/ /\ payload.newest /\ guarded /\ Best.is = "doc"
              /\ done' = Completes(payload)
              /\ WriterEnds(payload, "preserved")
           \/ /\ payload.newest /\ guarded /\ Best.is # "doc"
              /\ WriterEnds(payload, "failed") /\ UNCHANGED done
           \/ /\ payload.newest /\ ~guarded
              /\ Begin("writer", payload)
              /\ UNCHANGED << done, queue, writer, req, seen, main >>
    /\ UNCHANGED << card, nvs, ram, cat, want, count >>

\* One file operation of writeSerializedBackupAtomically, or the completion
\* mark that follows them.
Step(step, file, next) ==
    /\ disk.step = step
    /\ card' = file
    /\ disk' = [disk EXCEPT !.step = next, !.rotated = @ \/ step = "rotate"]
    /\ UNCHANGED << done, ram, queue, writer, req, seen, main >>

Rotate ==
    \/ Step("drop", [card EXCEPT !.live = NoFile], "lift")
    \/ Step("lift", [live |-> card.prev, prev |-> NoFile], "rotate")
    \/ Step("clear", [card EXCEPT !.prev = NoFile], "rotate")
    \/ Step("rotate", [live |-> NoFile, prev |-> card.live], "promote")
    \/ Step("promote", [card EXCEPT !.live = Document(disk.pay.cfg, disk.pay.cat)], "mark")

Mark ==
    /\ disk.step = "mark"
    /\ done' = Completes(disk.pay)
    /\ ram' = IF disk.by = "main" THEN [ram EXCEPT !.done = disk.pay.rev] ELSE ram
    /\ Ends(disk.pay, "written")
    /\ card' = card

\* An operation fails.  A new file that cannot take the live name gives it
\* back to the one it displaced, if that works.
Undone == [live |-> card.prev, prev |-> NoFile]
FailStep ==
    /\ Trouble
    /\ card' \in IF disk.step = "promote" /\ disk.rotated THEN { card, Undone } ELSE { card }
    /\ Ends(disk.pay, "failed")
    /\ UNCHANGED << done, ram >>

Write(by) ==
    /\ disk.by = by
    /\ \/ Rotate /\ Fine
       \/ Mark /\ Fine
       \/ FailStep
    /\ UNCHANGED << nvs, cat, want >>

-----------------------------------------------------------------------------
Later == [req EXCEPT !.pending = TRUE, !.retry = FALSE, !.backoff = TRUE]

\* serviceDeferredBackup in its two halves, between which the writer may
\* decide to leave: a retry waits for its backoff, then the request is
\* admitted and the writer made, ...
ServiceRetry ==
    /\ main.at = "loop" /\ MayWrite /\ req.retry
    /\ req' = Later
    /\ UNCHANGED << card, nvs, done, ram, cat, queue, writer, disk, main, seen, want, count >>

Admit ==
    /\ main.at = "loop" /\ MayWrite /\ ram.mounted /\ req.pending /\ ~req.retry
    /\ \/ /\ Fine
          /\ main' = [main EXCEPT !.at = "admit"]
          /\ writer' = IF writer.active THEN writer
                       ELSE [writer EXCEPT !.active = TRUE, !.at = "receive"]
          /\ req' = req
       \/ Trouble /\ req' = Later /\ UNCHANGED << main, writer >>
    /\ UNCHANGED << card, nvs, done, ram, cat, queue, disk, seen, want >>

\* ... and the payload displaces the one in the queue.
Enqueue ==
    /\ main.at = "admit"
    /\ \/ Fine /\ queue' = Payload(ram, cat) /\ req' = [req EXCEPT !.pending = FALSE, !.backoff = FALSE]
       \/ Trouble /\ req' = Later /\ UNCHANGED queue
    /\ main' = Loop
    /\ UNCHANGED << card, nvs, done, ram, cat, writer, disk, seen, want >>

\* The writer receives, discards what waits when it is told to stop, ...
Receive ==
    /\ writer.at = "receive"
    /\ \/ /\ ~writer.stop /\ queue.is
          /\ writer' = [writer EXCEPT !.at = "write", !.pay = queue]
       \/ /\ writer.stop
          /\ writer' = [writer EXCEPT !.at = "leave"]
    /\ queue' = NoPayload
    /\ UNCHANGED << card, nvs, done, ram, cat, req, disk, main, seen, want, count >>

\* ... and leaves in two steps: it lets a producer that saw it active finish,
\* declares itself gone, and looks once more for what came in between.
Leave ==
    /\ writer.at = "leave" /\ main.at # "admit"
    /\ writer' = [writer EXCEPT !.at = "none", !.active = FALSE, !.leaving = TRUE]
    /\ queue' = IF writer.stop THEN NoPayload ELSE queue
    /\ UNCHANGED << card, nvs, done, ram, cat, req, disk, main, seen, want, count >>

\* mutant: it is gone once it has said so.
GoneForGood ==
    /\ writer.leaving /\ main.at # "admit"
    /\ writer' = [writer EXCEPT !.leaving = FALSE]
    /\ UNCHANGED << card, nvs, done, ram, cat, req, queue, disk, main, seen, want, count >>
LookAgain ==
    /\ writer.leaving /\ main.at # "admit"
    /\ \/ /\ writer.stop \/ ~queue.is \/ writer.active
          /\ writer' = [writer EXCEPT !.leaving = FALSE]
          /\ queue' = IF writer.stop THEN NoPayload ELSE queue
       \/ /\ ~writer.stop /\ queue.is /\ ~writer.active
          /\ writer' = [writer EXCEPT !.leaving = FALSE, !.active = TRUE, !.at = "receive"]
          /\ UNCHANGED queue
    /\ UNCHANGED << card, nvs, done, ram, cat, req, disk, main, seen, want, count >>

\* A shutdown saves, unless the log would not stop, and tells the writer to.
Shutdown ==
    /\ main.at = "loop" /\ MayWrite /\ Trouble
    /\ \/ Save(ram, "stopping")
       \/ main' = [Loop EXCEPT !.at = "stopping"] /\ UNCHANGED << ram, nvs, want, req, queue, writer, disk, seen >>
    /\ UNCHANGED << card, done, cat >>

\* It waits, not for ever; then power goes, or the shutdown is called off.
StopWriter ==
    /\ main.at = "stopping" /\ ~writer.stop
    /\ writer' = [writer EXCEPT !.stop = TRUE]
    /\ UNCHANGED << card, nvs, done, ram, cat, req, queue, disk, main, seen, want, count >>

Abort ==
    /\ main.at = "stopping" /\ writer.stop
    /\ writer' = [writer EXCEPT !.stop = FALSE]
    /\ main' = Loop
    /\ UNCHANGED << card, nvs, done, ram, cat, req, queue, disk, seen, want, count >>

-----------------------------------------------------------------------------
\* Power fails anywhere.  What NVS held may be unreadable when it returns.
PowerCut ==
    /\ main.at # "off" /\ count.boots < MaxBoots
    /\ main' = [Loop EXCEPT !.at = "off"]
    /\ ram' = Defaults /\ req' = NoRequest /\ queue' = NoPayload /\ writer' = NoWriter
    /\ disk' = Idle /\ seen' = NothingSeen
    /\ \/ UNCHANGED << nvs, done, want >> /\ Fine
       \/ /\ ~Fresh /\ Trouble
          /\ nvs' = [present |-> FALSE, cfg |-> 0, due |-> 0, restoring |-> FALSE]
          /\ done' \in { 0, done }
          /\ want' = 0
    /\ UNCHANGED << card, cat >>

\* load(): a backup that was due when power failed is asked for again.
Boot ==
    /\ main.at = "off" /\ count.boots < MaxBoots
    /\ count' = [count EXCEPT !.boots = @ + 1]
    /\ \E mounted \in BOOLEAN :
          ram' = [Defaults EXCEPT !.cfg = nvs.cfg, !.due = nvs.due,
                                  !.done = IF nvs.present THEN done ELSE 0,
                                  !.counter = IF nvs.present THEN ResumeCounter(nvs.due, done) ELSE 0,
                                  !.restoring = nvs.restoring, !.mounted = mounted]
    /\ req' = [NoRequest EXCEPT !.pending = nvs.present /\ Pending(nvs.due, done)]
    /\ main' = [Loop EXCEPT !.at = "boot"]
    /\ UNCHANGED << card, nvs, done, cat, queue, writer, disk, seen, want >>

\* checkNeedsRestore: NVS is not to be trusted, or was marked as provisional.
NeedsRestore == ~nvs.present \/ nvs.restoring \/ ram.restoring

\* synchronizeSdBackup compares the whole catalog but not every setting.
Differs == Best.is # "doc" \/ Best.cat # cat

\* Once recovery has ended, what load() could not ask for is asked for.
Resumed(r) == [req EXCEPT !.pending = @ \/ Pending(r.due, done)]

\* checkAndRestoreFromSD: at boot, and from the loop until it succeeds.
RecoveryUnavailable ==
    /\ ram.mounted /\ Trouble
    /\ ram' = [ram EXCEPT !.recovering = TRUE, !.restoring = NeedsRestore]
    /\ main' = Loop
    /\ UNCHANGED << nvs, cat, want, req, queue, writer, disk, seen >>

Restore ==
    /\ NeedsRestore /\ ram.mounted /\ Best.is = "doc" /\ Fine
    /\ LET r == [ram EXCEPT !.cfg = Best.cfg, !.restoring = FALSE, !.recovering = FALSE]
       IN  /\ CommitQuietly(r)
           /\ cat' = Best.cat
           /\ want' = Best.cfg
           /\ BackupNow([r EXCEPT !.counter = NextFresh(r.counter, r.due, done)], Best.cat, FALSE, "loop")

Provisional ==
    /\ NeedsRestore /\ (ram.mounted => Best.is # "doc") /\ Fine
    /\ ram' = [ram EXCEPT !.restoring = TRUE, !.recovering = FALSE]
    /\ main' = Loop
    /\ UNCHANGED << nvs, cat, want, req, queue, writer, disk, seen >>

Synchronise ==
    /\ ~NeedsRestore /\ Fine
    /\ LET r == [ram EXCEPT !.recovering = FALSE]
       IN  /\ ram' = r
           /\ \/ /\ ram.mounted /\ (Differs \/ Best.cfg # ram.cfg)
                 /\ BackupNow(r, cat, TRUE, "loop")
              \/ /\ ~ram.mounted \/ ~Differs
                 /\ main' = Loop
                 /\ req' = Resumed(r)
                 /\ UNCHANGED << queue, writer, disk, seen >>
    /\ UNCHANGED << nvs, cat, want >>

Recover ==
    /\ \/ main.at = "boot"
       \/ main.at = "loop" /\ ram.recovering
    /\ RecoveryUnavailable \/ Restore \/ Provisional \/ Synchronise
    /\ UNCHANGED << card, done >>

-----------------------------------------------------------------------------
MainSteps ==
    \/ ServicePersist \/ ServiceRetry \/ Admit \/ Enqueue \/ MainLock \/ MainGivesUp
    \/ Write("main") \/ StopWriter \/ Abort \/ Boot \/ Recover

WriterSteps == WriterLock \/ Receive \/ Leave \/ LookAgain \/ Write("writer")

UserSteps == EditNow \/ EditLater \/ EditProfiles \/ Import \/ ClearReference \/ Shutdown \/ PowerCut

Next == MainSteps \/ WriterSteps \/ UserSteps

Spec == Init /\ [][Next]_vars

\* The loop goes round and FreeRTOS runs the writer on its own core.
FairSpec == Spec /\ WF_vars(MainSteps) /\ WF_vars(WriterSteps)

-----------------------------------------------------------------------------
\* A revision is complete only when the card holds a copy at least as new as
\* the save it was due for, whatever was cut, retried, superseded or refused:
\* otherwise a boot would not ask for the backup that is missing.
IntentKept ==
    nvs.present /\ nvs.due # 0 /\ nvs.due = done /\ ~nvs.restoring
        => Best.is = "doc" /\ Best.cfg >= want

\* recoveryStatus: the last write matches the current settings.
MatchesCurrent ==
    /\ seen.has /\ seen.newest /\ seen.last = "written" /\ ram.mounted
    /\ seen.rev = ram.counter /\ seen.cat = cat
    /\ ~ram.dirty /\ ~ram.failed /\ ~ram.recovering /\ ~ram.restoring
    /\ ~req.pending /\ ~req.retry /\ ~req.backoff /\ ~queue.is /\ writer.at # "write"

\* Whoever is told so finds the settings, and the catalog, in the live file.
ReceiptIsTrue == main.at = "loop" /\ MatchesCurrent => card.live = Document(ram.cfg, cat)

\* A valid copy, once there, is never lost between two file operations, and
\* while the settings in NVS are provisional nothing replaces it.
CopyKeptStep ==
    Best.is = "doc" =>
        /\ Best'.is = "doc"
        /\ Best' # Best => ~ram.restoring /\ Best' = Document(disk.pay.cfg, disk.pay.cat)

\* With healthy NVS what the user saved there is authoritative: no later
\* generation holds older settings.
UserStateAuthoritative == [][nvs.present => nvs'.present /\ nvs'.cfg >= nvs.cfg]_vars

\* Work for the writer, except that an unreadable copy is left alone while
\* the settings are provisional.
Waits ==
    /\ Running /\ MayWrite /\ ram.mounted
    /\ ~(ram.restoring /\ AnyCandidate)
    /\ req.pending \/ req.retry \/ queue.is \/ writer.at = "write"
=============================================================================
