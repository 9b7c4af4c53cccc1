------------------------ MODULE StorageTransactions ------------------------
(***************************************************************************)
(* Restoring a backup document and deleting a profile change three stores  *)
(* that commit apart: the password store, the profile store and the        *)
(* settings.  Both operations first write a journal of the state before to *)
(* every mounted file store; the settings generation that carries the      *)
(* token of the journal as its watermark is the commit point, and a        *)
(* journal above the watermark is rolled back before the next mutation or  *)
(* at the next boot.                                                       *)
(*                                                                         *)
(* The stores are taken by their own contracts: a settings commit is one   *)
(* step (SettingsStore), a profile save or deletion is one step that       *)
(* reaches every mounted mirror, the newest mirror wins at boot            *)
(* (ProfileStore).  Journals that were written are read back as written.   *)
(***************************************************************************)
EXTENDS Naturals, FiniteSets

CONSTANTS
    Contents,       \* payloads of the one profile
    Networks,       \* saved networks, each with its own password
    None,
    MaxToken,       \* bound on transaction ids
    MaxTrouble      \* bound on failed writes and power losses

VARIABLES
    mount,      \* "off", "both" (card and flash) or "flash"
    nvs,        \* the committed settings
    settings,   \* settings_, restoreCommitWatermark_, profileDeleteCommitWatermark_
    secret,     \* the network whose password the password store holds
    profile,    \* what the profile store returns, None when it has no such profile
    journal,    \* journal[kind][store]
    sequence,   \* the last transaction id given out, per kind
    recovering, \* profileReferenceRecoveryPending_
    op,         \* the operation that runs
    promise,    \* the states the acknowledgements allow
    detached,   \* a change was made behind a pending journal of the absent card
    trouble

disks == << nvs, secret, profile, journal, sequence >>
vars == << mount, nvs, settings, secret, profile, journal, sequence, recovering, op,
           promise, detached, trouble >>
-----------------------------------------------------------------------------
Kinds == { "restore", "delete" }
Stores == { "card", "flash" }
Payload == Contents \cup { None }
Off == mount = "off"
Primary == IF mount = "both" THEN "card" ELSE "flash"
Mounted == IF mount = "both" THEN Stores ELSE { "flash" }

Settings == [ ref : BOOLEAN, network : Networks, mark : [ Kinds -> 0..MaxToken ] ]
Journal == [ token : 1..MaxToken, secret : Networks \cup { None }, profile : Payload ]
World == [ profile : Payload, ref : BOOLEAN, network : Networks ]

ASSUME TransactionAssumption ==
    /\ None \notin Contents /\ None \notin Networks /\ None \notin Journal
    /\ MaxToken \in Nat /\ MaxTrouble \in Nat
WorldOf(p, cfg) == [ profile |-> p, ref |-> cfg.ref, network |-> cfg.network ]
Now == WorldOf(profile, nvs)

(* An operation: its kind, its next step, which journal a recovery is at,  *)
(* what it wants the world to be, its token, what an undo brings back,     *)
(* and whether the undo has succeeded so far.                              *)
NoOp == [ kind |-> "none", step |-> "none", at |-> "restore", goal |-> None,
          token |-> 0, undo |-> None, clean |-> TRUE ]
Idle == op.kind = "none"
At(p) == op.step = p
Go(p) == op' = [ op EXCEPT !.step = p ]
Ends == op' = NoOp

Trouble == trouble < MaxTrouble /\ trouble' = trouble + 1
Calm == UNCHANGED trouble

(* A change behind the back of a journal that waits on the absent card.    *)
PendingOn(s, k) == journal[k][s] # None /\ journal[k][s].token > nvs.mark[k]
Behind == mount = "flash" /\ \E k \in Kinds : PendingOn("card", k)

Acknowledges(w) ==
    /\ promise' = { w }
    /\ detached' = (detached \/ Behind)
-----------------------------------------------------------------------------
(* resolveMirroredTransactionJournal                                       *)

Held(k) == { journal[k][s] : s \in Mounted } \ { None }
\* mutant: a journal is rolled back whatever the watermark says
AnyToken(k) == Held(k)
Pending(k) == { j \in Held(k) : j.token > settings.mark[k] }
Ambiguous(k) == Cardinality(Pending(k)) > 1

Refuses ==
    /\ recovering' = (recovering \/ op.kind = "boot")
    /\ Ends

(* Both journals are settled, the restore first; then the operation runs.  *)
Settled ==
    IF op.at = "restore"
    THEN op' = [ op EXCEPT !.at = "delete", !.step = "resolve" ]
    ELSE Go("start")

(* The stores are brought back to what a journal tells.                    *)
Undo(j) == op' = [ op EXCEPT !.step = "undoSecret", !.undo = j, !.clean = TRUE ]

Resolve ==
    /\ At("resolve")
    /\ \/ Held(op.at) = {} /\ Settled /\ UNCHANGED recovering
       \/ Ambiguous(op.at) /\ Refuses
       \/ /\ Held(op.at) # {} /\ Pending(op.at) = {}
          /\ Go("remove") /\ UNCHANGED recovering
       \/ /\ ~Ambiguous(op.at)
          /\ \E j \in Pending(op.at) : Undo(j)
          /\ UNCHANGED recovering
    /\ Calm /\ UNCHANGED << mount, settings, disks, promise, detached >>

(* restoreCredentialSnapshot and restoreProfileSnapshot: both are tried.   *)
UndoSecret ==
    /\ At("undoSecret")
    /\ \/ /\ secret' = IF op.undo.secret = None THEN secret ELSE op.undo.secret
          /\ Calm /\ Go("undoProfile")
       \/ /\ op.undo.secret # None /\ Trouble
          /\ op' = [ op EXCEPT !.step = "undoProfile", !.clean = FALSE ]
          /\ UNCHANGED secret
    /\ UNCHANGED << mount, nvs, settings, profile, journal, sequence, recovering,
                    promise, detached >>

UndoProfile ==
    /\ At("undoProfile")
    /\ \/ /\ profile' = op.undo.profile /\ Calm
          /\ IF op.clean THEN Go("remove") /\ UNCHANGED recovering
             ELSE recovering' = TRUE /\ Ends
       \/ Trouble /\ recovering' = TRUE /\ Ends /\ UNCHANGED profile
    /\ UNCHANGED << mount, nvs, settings, secret, journal, sequence, promise, detached >>

(* removeJournalAfterConvergence: the primary copy, then its mirror.  What *)
(* follows depends on why: a recovery goes on or is refused, a finished or *)
(* rolled back operation is over either way.                               *)
Concluded(ok) ==
    IF op.token # 0 THEN Ends /\ UNCHANGED recovering
    ELSE IF ok THEN Settled /\ UNCHANGED recovering ELSE Refuses
Remove ==
    /\ At("remove")
    /\ LET left == { s \in Mounted : journal[op.at][s] # None }
           first == IF Primary \in left THEN Primary ELSE "flash"
       IN IF left = {} THEN Concluded(TRUE) /\ Calm /\ UNCHANGED journal
          ELSE \/ /\ journal' = [ journal EXCEPT ![op.at][first] = None ]
                  /\ Calm /\ UNCHANGED << op, recovering >>
               \/ Trouble /\ Concluded(FALSE) /\ UNCHANGED journal
    /\ UNCHANGED << mount, nvs, settings, secret, profile, sequence, promise, detached >>
-----------------------------------------------------------------------------
(* Every mutation resolves the journals first; while a recovery is due it  *)
(* is the recovery that runs (ensureSettingsLoaded).                       *)
Ask(kind, goal) ==
    /\ ~Off /\ Idle /\ ~recovering
    /\ op' = [ NoOp EXCEPT !.kind = kind, !.step = "resolve", !.goal = goal ]
    /\ Calm /\ UNCHANGED << mount, settings, disks, recovering, promise, detached >>

(* A document: the whole backup, or its profiles and slots only.  (One that *)
(* changes neither file store writes no journal and is a mere commit.)     *)
Restore(w) == Ask("restore", w)
Delete == Ask("delete", None)
(* The web interface saves a profile, or names it in a slot.               *)
Save(c) == Ask("save", [ Now EXCEPT !.profile = c ])
Assign == profile # None /\ Ask("assign", [ Now EXCEPT !.ref = TRUE ])

SaveProfile ==
    /\ At("start") /\ op.kind = "save"
    /\ \/ profile' = op.goal.profile /\ Calm /\ Acknowledges(WorldOf(op.goal.profile, nvs))
       \/ Trouble /\ UNCHANGED << profile, promise, detached >>
    /\ Ends
    /\ UNCHANGED << mount, nvs, settings, secret, journal, sequence, recovering >>

AssignSlot ==
    /\ At("start") /\ op.kind = "assign"
    /\ LET new == [ settings EXCEPT !.ref = TRUE ] IN
       \/ nvs' = new /\ settings' = new /\ Calm /\ Acknowledges(WorldOf(profile, new))
       \/ Trouble /\ UNCHANGED << nvs, settings, promise, detached >>
    /\ Ends
    /\ UNCHANGED << mount, secret, profile, journal, sequence, recovering >>

(* allocateTransactionId, and what the journal is going to say.            *)
Kind == op.kind
NextToken(k) == ( IF sequence[k] >= settings.mark[k] THEN sequence[k]
                  ELSE settings.mark[k] ) + 1
Credentials == Kind = "restore" /\ op.goal.network # settings.network
Before == [ token |-> NextToken(Kind),
            secret |-> IF Credentials THEN secret ELSE None,
            profile |-> profile ]
Allocate ==
    /\ At("start") /\ Kind \in Kinds
    /\ \/ /\ Kind = "delete" /\ profile = None          \* nothing to delete
          /\ Ends /\ Calm /\ UNCHANGED sequence
       \/ /\ Kind = "restore" \/ profile # None
          /\ NextToken(Kind) <= MaxToken
          /\ \/ /\ sequence' = [ sequence EXCEPT ![Kind] = NextToken(Kind) ]
                /\ op' = [ op EXCEPT !.step = "journal", !.at = Kind, !.undo = Before,
                                     !.token = NextToken(Kind) ]
                /\ Calm
             \/ Trouble /\ Ends /\ UNCHANGED sequence
       \/ /\ NextToken(Kind) > MaxToken /\ Ends /\ Calm /\ UNCHANGED sequence
    /\ UNCHANGED << mount, nvs, settings, secret, profile, journal, recovering,
                    promise, detached >>

(* writeJournalAtomically: the primary store, then its mirror; without the *)
(* mirror the primary copy is taken back, as far as that succeeds.         *)
WriteJournal ==
    /\ At("journal")
    /\ \/ /\ journal' = [ journal EXCEPT ![op.at][Primary] = op.undo ] /\ Calm
          /\ IF mount = "both" THEN Go("mirror") ELSE Go("mutate")
          /\ detached' = (detached \/ Behind)
       \/ Trouble /\ Ends /\ UNCHANGED << journal, detached >>
    /\ UNCHANGED << mount, nvs, settings, secret, profile, sequence, recovering, promise >>
MirrorJournal ==
    /\ At("mirror")
    /\ \/ /\ journal' = [ journal EXCEPT ![op.at]["flash"] = op.undo ] /\ Calm
          /\ Go("mutate")
       \/ /\ Trouble /\ Ends
          /\ \E back \in BOOLEAN :
               journal' = IF back THEN [ journal EXCEPT ![op.at]["card"] = None ]
                          ELSE journal
    /\ UNCHANGED << mount, nvs, settings, secret, profile, sequence, recovering,
                    promise, detached >>

(* The rollback of applyBackupDocument.                                    *)
RollsBack == Undo(op.undo) /\ settings' = nvs
(* A deletion is rolled back by resolving its own journal.                 *)
Reresolves == Go("reresolve") /\ settings' = nvs

(* applyPreparedNetworkFields: the password store, then the settings in    *)
(* memory.                                                                 *)
RestoreSecret ==
    /\ At("mutate") /\ Kind = "restore"
    /\ \/ /\ secret' = op.goal.network /\ Calm /\ Go("profile")
          /\ settings' = [ settings EXCEPT !.network = op.goal.network,
                                           !.ref = op.goal.ref ]
       \/ Credentials /\ Trouble /\ RollsBack /\ UNCHANGED secret
    /\ UNCHANGED << mount, nvs, profile, journal, sequence, recovering, promise, detached >>
RestoreProfile ==
    /\ At("profile")
    /\ \/ /\ profile' = op.goal.profile /\ Calm /\ Go("commit") /\ UNCHANGED settings
       \/ Trouble /\ RollsBack /\ UNCHANGED profile
    /\ UNCHANGED << mount, nvs, secret, journal, sequence, recovering, promise, detached >>

(* The profile goes; a busy store is left alone, a failure may have        *)
(* removed it.                                                             *)
DeleteProfile ==
    /\ At("mutate") /\ Kind = "delete"
    /\ \/ /\ profile' = None /\ Calm /\ Go("commit")
          /\ settings' = [ settings EXCEPT !.ref = FALSE ]
       \/ Trouble /\ Go("remove") /\ UNCHANGED << profile, settings >>
       \/ Trouble /\ profile' \in { profile, None } /\ Reresolves
    /\ UNCHANGED << mount, nvs, secret, journal, sequence, recovering, promise, detached >>

(* resolveProfileDeleteTransaction on the way out of a failed deletion.    *)
Reresolve ==
    /\ At("reresolve")
    /\ IF Ambiguous("delete") \/ Pending("delete") = {}
       THEN Ends
       ELSE \E j \in Pending("delete") : Undo(j)
    /\ Calm /\ UNCHANGED << mount, settings, disks, recovering, promise, detached >>

(* persistSettingsAtomically with the new watermark: the commit point.     *)
Marked(cfg) == [ cfg EXCEPT !.mark[op.at] = op.token ]
Commit ==
    /\ At("commit")
    /\ \/ /\ settings' = Marked(settings) /\ nvs' = settings' /\ Calm /\ Go("remove")
          /\ Acknowledges(WorldOf(profile, settings))
       \/ /\ Trouble /\ UNCHANGED << nvs, promise, detached >>
          /\ IF Kind = "restore" THEN RollsBack ELSE Reresolves
    /\ UNCHANGED << mount, secret, profile, journal, sequence, recovering >>
-----------------------------------------------------------------------------
(* checkAndRestoreFromSD and validateProfileReferences: after the journals *)
(* a slot that names a missing profile is cleared.                         *)
Starts ==
    \/ /\ op' = [ NoOp EXCEPT !.kind = "boot", !.step = "resolve" ]
       /\ recovering' = FALSE /\ Calm
    \/ recovering' = TRUE /\ Ends /\ Trouble       \* the profile store is not ready
Boot(m) ==
    /\ Off
    /\ mount' = m /\ settings' = nvs
    /\ Starts
    /\ UNCHANGED << disks, promise, detached >>
Recover ==
    /\ ~Off /\ Idle /\ recovering
    /\ Starts
    /\ UNCHANGED << mount, settings, disks, promise, detached >>

(* The boot has recovered: what it found is the state from here on.  Other *)
(* profiles keep the catalogue from being empty.                           *)
Validate ==
    /\ At("start") /\ Kind = "boot"
    /\ LET dangling == settings.ref /\ profile = None
           new == [ settings EXCEPT !.ref = FALSE ]
       IN IF dangling
          THEN /\ settings' = new
               /\ \/ nvs' = new /\ Calm
                  \/ Trouble /\ UNCHANGED nvs
          ELSE Calm /\ UNCHANGED << nvs, settings >>
    /\ promise' = IF Now \in promise THEN { Now } ELSE promise
    /\ Ends
    /\ UNCHANGED << mount, secret, profile, journal, sequence, recovering, detached >>

(* Power is lost between two steps.                                        *)
PowerLoss ==
    /\ ~Off /\ Trouble
    /\ mount' = "off" /\ settings' = nvs /\ recovering' = FALSE /\ op' = NoOp
    /\ UNCHANGED << disks, promise, detached >>
PowerOff ==
    /\ ~Off /\ Idle
    /\ mount' = "off" /\ settings' = nvs /\ recovering' = FALSE
    /\ Calm /\ UNCHANGED << disks, op, promise, detached >>

Working ==
    \/ Resolve \/ UndoSecret \/ UndoProfile \/ Remove \/ Allocate \/ WriteJournal
    \/ MirrorJournal \/ RestoreSecret \/ RestoreProfile \/ DeleteProfile \/ Reresolve
    \/ Commit \/ SaveProfile \/ AssignSlot \/ Validate \/ Recover

Init ==
    /\ mount = "off" /\ op = NoOp /\ recovering = FALSE /\ trouble = 0
    /\ \E n \in Networks, p \in Payload, r \in BOOLEAN :
         /\ nvs = [ ref |-> r /\ p # None, network |-> n, mark |-> [ k \in Kinds |-> 0 ] ]
         /\ secret = n /\ profile = p
    /\ settings = nvs
    /\ journal = [ k \in Kinds |-> [ s \in Stores |-> None ] ]
    /\ sequence = [ k \in Kinds |-> 0 ]
    /\ promise = { Now } /\ detached = FALSE

Documents == { w \in World : w.ref => w.profile # None }
Next ==
    \/ Working
    \/ \E m \in { "both", "flash" } : Boot(m)
    \/ \E w \in Documents : Restore(w)
    \/ Delete \/ Assign \/ \E c \in Contents : Save(c)
    \/ PowerLoss \/ PowerOff

Spec == Init /\ [][Next]_vars
FairSpec == Spec /\ WF_vars(Working)
-----------------------------------------------------------------------------
TypeOK ==
    /\ mount \in { "off", "both", "flash" }
    /\ nvs \in Settings /\ settings \in Settings
    /\ secret \in Networks /\ profile \in Payload
    /\ journal \in [ Kinds -> [ Stores -> Journal \cup { None } ] ]
    /\ sequence \in [ Kinds -> 0..MaxToken ]
    /\ recovering \in BOOLEAN /\ promise \subseteq World /\ detached \in BOOLEAN

(* When no recovery is due, the three stores together hold one             *)
(* acknowledged state: a restore or a deletion happened as a whole or not  *)
(* at all, the stored password is of the configured network, and no later  *)
(* change is rolled back with it.                                          *)
Ready == ~Off /\ Idle /\ ~recovering
NoTornTransaction == Ready => Now \in promise /\ secret = nvs.network
AllOrNothing == ~detached => NoTornTransaction

(* Two journals that both wait for their rollback never disagree: that     *)
(* would block every later mutation.                                       *)
NeverAmbiguous == At("resolve") /\ ~detached => ~Ambiguous(op.at)

(* The transactions over the three stores, with their types.               *)
TransactionsSafe == TypeOK /\ AllOrNothing /\ NeverAmbiguous

(* Once nothing fails any more, a pending recovery comes to an end.        *)
RecoveryOver == (~recovering /\ Idle) \/ Off \/ detached
=============================================================================
