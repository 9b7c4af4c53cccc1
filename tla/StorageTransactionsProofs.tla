---------------------- MODULE StorageTransactionsProofs ----------------------
(***************************************************************************)
(* A restore and a profile deletion happen as a whole or not at all, and   *)
(* two journals never disagree: for every set of profiles and networks,    *)
(* any number of transactions, and any number of failed writes and power   *)
(* losses.                                                                 *)
(*                                                                         *)
(* Neither is inductive.  What carries them is what a journal is for: at   *)
(* every step, whatever differs from the acknowledged state can be undone  *)
(* from a pending journal on the flash store, which is mounted at every    *)
(* boot, and every pending journal, wherever it lies, tells that same      *)
(* state.                                                                  *)
(***************************************************************************)
EXTENDS StorageTransactions, FiniteSetTheorems, TLAPS

(* The operation that runs.                                                *)
OpKinds == { "none", "boot", "restore", "delete", "save", "assign" }
Undoing == { "undoSecret", "undoProfile" }
Recovering == { "resolve", "start", "remove" } \cup Undoing
Journalled == { "mutate", "profile", "commit", "reresolve" }
Own == { "journal", "mirror" } \cup Journalled
Steps == { "none", "resolve", "undoSecret", "undoProfile", "remove", "start", "journal",
           "mirror", "mutate", "profile", "commit", "reresolve" }
OpType == [ kind : OpKinds, step : Steps, at : Kinds, goal : World \cup { None },
            token : 0..MaxToken, undo : Journal \cup { None }, clean : BOOLEAN ]
OpOK ==
    /\ op \in OpType
    /\ op.kind = "none" <=> op.step = "none"
    /\ Off => Idle
    /\ op.kind = "restore" => op.goal \in World /\ (op.goal.ref => op.goal.profile # None)
    /\ op.kind = "save" => op.goal \in World /\ op.goal.profile # None
    /\ op.step \in Undoing \cup Own => op.undo \in Journal
    /\ op.step \in Own => op.token # 0
    /\ op.step \in { "resolve", "start" } => op.token = 0
    /\ op.token # 0 => op.kind \in Kinds /\ op.at = op.kind /\ op.undo \in Journal
    /\ At("profile") => op.kind = "restore"
    /\ At("reresolve") => op.kind = "delete"

(* w is the state that was acknowledged last; it names no missing profile. *)
Acknowledged(w) ==
    /\ promise = { w } /\ w \in World
    /\ w.ref = nvs.ref /\ w.network = nvs.network
    /\ w.ref => w.profile # None
Intact(w) == profile = w.profile /\ secret = w.network

(* Memory is what is committed, except between the mutation of a           *)
(* transaction and its outcome.                                            *)
MemoryCommitted ==
    /\ settings.mark = nvs.mark
    /\ op.step \notin { "profile", "commit" } => settings = nvs

(* Every pending journal tells the acknowledged state, and the two copies  *)
(* of one are the same.                                                    *)
Snapshots(w) ==
    \A k \in Kinds, s \in Stores : PendingOn(s, k) =>
        journal[k][s].profile = w.profile /\ journal[k][s].secret \in { None, w.network }
CopiesAgree ==
    \A k \in Kinds : PendingOn("card", k) /\ PendingOn("flash", k)
                        => journal[k]["card"] = journal[k]["flash"]

(* What differs from it is covered by a journal on flash, ...              *)
Covered(w) ==
    /\ profile # w.profile => \E k \in Kinds : PendingOn("flash", k)
    /\ secret # w.network => PendingOn("flash", "restore")
                             /\ journal["restore"]["flash"].secret # None
(* ... and the stores are off, recovering, or in the transaction.          *)
TornInside(w) ==
    ~Intact(w) => Off \/ (Idle /\ recovering) \/ op.kind = "boot" \/ op.token # 0

NonePending(k) == \A s \in Mounted : ~PendingOn(s, k)
(* The recovery: journals are settled in their order, and removed once     *)
(* there is nothing to undo.                                               *)
Recovers(w) ==
    /\ op.step \in Recovering /\ op.token = 0 /\ op.at = "delete"
          => NonePending("restore")
    /\ At("start") => op.at = "delete" /\ NonePending("delete")
    /\ At("remove") => Intact(w) \/ (op.token = 0 /\ NonePending(op.at))
    /\ op.step \in Undoing =>
          op.undo.profile = w.profile /\ op.undo.secret \in { None, w.network }
    /\ At("undoSecret") /\ secret # w.network => op.undo.secret # None
    /\ At("undoProfile") /\ op.clean => secret = w.network
    /\ op.kind = "assign" => w.profile # None

(* The transaction: its journal precedes every change.                     *)
OwnJournal(w) ==
    /\ op.undo.token > nvs.mark[op.at] /\ op.undo.token = op.token
    /\ op.undo.profile = w.profile /\ op.undo.secret \in { None, w.network }
    /\ op.undo.secret = None /\ op.kind = "restore" => op.goal.network = w.network
OnlyOwn(S) == \A k \in Kinds, s \in Stores : PendingOn(s, k) => k = op.at /\ s \in S
Transacts(w) ==
    /\ op.step \in Own \ { "reresolve" } => OwnJournal(w)
    /\ At("journal") => \A k \in Kinds : NonePending(k)
    /\ At("mirror") => /\ mount = "both" /\ OnlyOwn({ "card" })
                       /\ journal[op.at]["card"] = op.undo
    /\ op.step \in Journalled => /\ OnlyOwn(Mounted)
                                 /\ \A s \in Mounted : journal[op.at][s] = op.undo
                                 /\ op.undo.token > nvs.mark[op.at]
                                 /\ op.kind = "delete" => secret = w.network
    /\ op.step \in { "journal", "mirror", "mutate" } => Intact(w)
    /\ op.step \in { "profile", "commit" } /\ op.kind = "restore" =>
          secret = op.goal.network /\ settings.network = secret /\ settings.ref = op.goal.ref
    /\ At("commit") /\ op.kind = "restore" => profile = op.goal.profile
    /\ At("commit") /\ op.kind = "delete" =>
          ~settings.ref /\ settings.network = w.network

Holds(w) ==
    /\ Acknowledged(w) /\ MemoryCommitted /\ Snapshots(w) /\ CopiesAgree
    /\ Covered(w) /\ TornInside(w) /\ Recovers(w) /\ Transacts(w)

IInv == TypeOK /\ OpOK /\ (~detached => \E w \in World : Holds(w))
-----------------------------------------------------------------------------
(* Records, field by field.                                                *)

\* Is: the fields of an operation.
Is(o, kind, step, at, goal, token, undo, clean) ==
    /\ o \in OpType
    /\ o.kind = kind /\ o.step = step /\ o.at = at /\ o.goal = goal
    /\ o.token = token /\ o.undo = undo /\ o.clean = clean
Goes(p) == Is(op', op.kind, p, op.at, op.goal, op.token, op.undo, op.clean)
Over == op' = NoOp /\ Is(op', "none", "none", "restore", None, 0, None, TRUE)
Undoes(j) == Is(op', op.kind, "undoSecret", op.at, op.goal, op.token, j, TRUE)

\* OpFields: what an operation consists of.
LEMMA OpFields ==
  ASSUME NEW o \in OpType
  PROVE  /\ o.kind \in OpKinds /\ o.step \in Steps /\ o.at \in Kinds
         /\ o.goal \in World \cup { None } /\ o.token \in 0..MaxToken
         /\ o.undo \in Journal \cup { None } /\ o.clean \in BOOLEAN
BY DEF OpType

\* OpGoes: Go only moves the step.
LEMMA OpGoes ==
  ASSUME op \in OpType, NEW p \in Steps, Go(p)
  PROVE  Goes(p)
BY DEF OpType, Is, Go, Goes

\* OpSettled: after the journal of the restores comes that of the deletions.
LEMMA OpSettled ==
  ASSUME op \in OpType, Settled
  PROVE  \/ /\ op.at = "restore"
            /\ Is(op', op.kind, "resolve", "delete", op.goal, op.token, op.undo, op.clean)
         \/ op.at = "delete" /\ Goes("start")
<1>1. CASE op.at = "restore"
  BY <1>1 DEF OpType, Is, Settled, Steps, Kinds
<1>2. CASE op.at # "restore"
  BY <1>2, OpGoes, OpFields DEF Settled, Steps, Kinds
<1>3. QED
  BY <1>1, <1>2

\* OpUndoes: an undo begins, from the snapshot of a journal.
LEMMA OpUndoes ==
  ASSUME op \in OpType, NEW u \in Journal, Undo(u)
  PROVE  Undoes(u)
BY DEF OpType, Is, Steps, Undo, Undoes

\* OpEnds: no operation runs.
LEMMA OpNone == Is(NoOp, "none", "none", "restore", None, 0, None, TRUE)
BY TransactionAssumption DEF OpType, Is, NoOp, Kinds, OpKinds, Steps
LEMMA OpEnds == ASSUME Ends PROVE Over
BY OpNone DEF Ends, Over

\* OpStarts, OpAsked: a boot and an operation start with the recovery.
LEMMA OpStarts ==
  ASSUME NEW k \in OpKinds, op' = [ NoOp EXCEPT !.kind = k, !.step = "resolve" ]
  PROVE  Is(op', k, "resolve", "restore", None, 0, None, TRUE)
<1>1. /\ NoOp \in OpType /\ NoOp.at = "restore" /\ NoOp.goal = None /\ NoOp.token = 0
      /\ NoOp.undo = None /\ NoOp.clean = TRUE
  BY OpNone DEF Is
<1>2. QED
  BY <1>1 DEF OpType, Is, Steps
LEMMA OpAsked ==
  ASSUME NEW kind \in OpKinds, NEW goal \in World \cup { None }, Ask(kind, goal)
  PROVE  Is(op', kind, "resolve", "restore", goal, 0, None, TRUE)
<1>1. /\ NoOp \in OpType /\ NoOp.at = "restore" /\ NoOp.goal = None /\ NoOp.token = 0
      /\ NoOp.undo = None /\ NoOp.clean = TRUE
  BY OpNone DEF Is
<1>2. QED
  BY <1>1 DEF OpType, Is, Steps, Ask

\* JournalFields, SettingsFields, WorldFields: the other records.
LEMMA JournalFields ==
  ASSUME NEW j \in Journal
  PROVE  /\ j # None /\ j.token \in 1..MaxToken
         /\ j.secret \in Networks \cup { None } /\ j.profile \in Payload
BY TransactionAssumption DEF Journal
LEMMA SettingsFields ==
  ASSUME NEW c \in Settings
  PROVE  c.ref \in BOOLEAN /\ c.network \in Networks /\ c.mark \in [ Kinds -> 0..MaxToken ]
BY DEF Settings
LEMMA WorldFields ==
  ASSUME NEW w \in World
  PROVE  w.ref \in BOOLEAN /\ w.network \in Networks /\ w.profile \in Payload
BY DEF World

\* JournalSet: a journal is written to one store, or removed from it.
Journals == [ Kinds -> [ Stores -> Journal \cup { None } ] ]
LEMMA JournalSet ==
  ASSUME NEW j \in Journals, NEW k \in Kinds, NEW s \in Stores,
         NEW v \in Journal \cup { None }
  PROVE  LET q == [ j EXCEPT ![k][s] = v ] IN
         /\ q \in Journals
         /\ \A l \in Kinds, t \in Stores : q[l][t] = IF l = k /\ t = s THEN v ELSE j[l][t]
<1> DEFINE q == [ j EXCEPT ![k][s] = v ]
<1>1. \A l \in Kinds : q[l] = IF l = k THEN [ j[l] EXCEPT ![s] = v ] ELSE j[l]
  BY DEF Journals
<1>2. DOMAIN q = Kinds /\ q = [ l \in Kinds |-> q[l] ]
  BY DEF Journals
<1>3. \A l \in Kinds : q[l] \in [ Stores -> Journal \cup { None } ]
  BY <1>1 DEF Journals
<1>4. QED
  BY <1>1, <1>2, <1>3 DEF Journals

\* MarkSet: a commit moves one watermark.
LEMMA MarkSet ==
  ASSUME NEW c \in Settings, NEW k \in Kinds, NEW t \in 0..MaxToken
  PROVE  LET q == [ c EXCEPT !.mark[k] = t ] IN
         /\ q \in Settings /\ q.ref = c.ref /\ q.network = c.network
         /\ \A l \in Kinds : q.mark[l] = IF l = k THEN t ELSE c.mark[l]
<1>1. [ c EXCEPT !.mark[k] = t ].mark = [ c.mark EXCEPT ![k] = t ]
  BY DEF Settings
<1>2. QED
  BY <1>1 DEF Settings

\* WorldMade: the world of a profile and of settings.
LEMMA WorldMade ==
  ASSUME NEW p \in Payload, NEW c \in Settings
  PROVE  /\ WorldOf(p, c) \in World /\ WorldOf(p, c).profile = p
         /\ WorldOf(p, c).ref = c.ref /\ WorldOf(p, c).network = c.network
BY DEF Settings, World, WorldOf

-----------------------------------------------------------------------------
(* What the invariant says about journals.                                 *)

\* NotAmbiguous: resolveMirroredTransactionJournal finds at most one journal to roll back.
LEMMA NotAmbiguous ==
  ASSUME TypeOK, MemoryCommitted, CopiesAgree, NEW k \in Kinds
  PROVE  ~Ambiguous(k)
<1>1. \A i, j \in Pending(k) : i = j
  <2>1. \A i \in Pending(k) : \E s \in Stores : PendingOn(s, k) /\ i = journal[k][s]
    BY DEF Pending, Held, PendingOn, MemoryCommitted, Mounted, Stores
  <2>2. QED
    BY <2>1 DEF CopiesAgree, Stores
<1>2. CASE Pending(k) = {}
  BY <1>2, FS_EmptySet DEF Ambiguous
<1>3. CASE Pending(k) # {}
  <2>1. PICK j \in Pending(k) : TRUE
    BY <1>3
  <2>2. Pending(k) = { j }
    BY <1>1, <2>1
  <2>3. Cardinality(Pending(k)) = 1
    BY <2>2, FS_Singleton
  <2>4. QED
    BY <2>3 DEF Ambiguous
<1>4. QED
  BY <1>2, <1>3

\* NothingPending: what resolveMirroredTransactionJournal does not find is not there.
LEMMA NothingPending ==
  ASSUME MemoryCommitted, NEW k \in Kinds, Held(k) = {} \/ Pending(k) = {}
  PROVE  NonePending(k)
<1>1. ASSUME NEW s \in Mounted, PendingOn(s, k) PROVE FALSE
  <2>1. journal[k][s] \in Held(k)
    BY <1>1 DEF Held, PendingOn
  <2>2. journal[k][s] \in Pending(k)
    BY <1>1, <2>1 DEF Pending, PendingOn, MemoryCommitted
  <2>3. QED
    BY <2>1, <2>2
<1>2. QED
  BY <1>1 DEF NonePending

\* StoresKept: what Holds says of the stores alone.
LEMMA StoresKept ==
  ASSUME NEW w, Holds(w), UNCHANGED << nvs, secret, profile, journal, promise >>
  PROVE  Acknowledged(w)' /\ Snapshots(w)' /\ CopiesAgree' /\ Covered(w)'
BY DEF Holds, Acknowledged, Snapshots, CopiesAgree, Covered, PendingOn

(* What every step keeps: the types and, as long as no change was made     *)
(* behind a pending journal, some state that Holds.                        *)
Keeps == TypeOK' /\ OpOK' /\ \A w \in World : Holds(w) /\ ~detached'
                                => \E v \in World : Holds(v)'
-----------------------------------------------------------------------------
(* The recovery.                                                           *)

\* ResolveKeeps: a pending journal is rolled back, a settled one removed.
LEMMA ResolveKeeps == ASSUME TypeOK, OpOK, Resolve PROVE Keeps
<1>1. /\ At("resolve") /\ UNCHANGED << mount, nvs, settings, secret, profile, journal,
                                       sequence, promise, detached >>
      /\ \/ /\ Held(op.at) = {} /\ op.at = "restore" /\ recovering' = recovering
            /\ Is(op', op.kind, "resolve", "delete", op.goal, op.token, op.undo, op.clean)
         \/ Held(op.at) = {} /\ op.at = "delete" /\ recovering' = recovering /\ Goes("start")
         \/ Ambiguous(op.at) /\ recovering' \in BOOLEAN /\ Over
         \/ Pending(op.at) = {} /\ recovering' = recovering /\ Goes("remove")
         \/ \E j \in Pending(op.at) \cap Journal : recovering' = recovering /\ Undoes(j)
  <2>1. Pending(op.at) \subseteq Journal
    BY OpFields DEF Pending, Held, TypeOK, OpOK, Mounted, Stores
  <2>2. QED
    BY <2>1, OpFields, OpSettled, OpEnds, OpGoes, OpUndoes
       DEF Resolve, Refuses, disks, TypeOK, OpOK, Steps
<1>2. TypeOK'
  BY <1>1 DEF TypeOK
<1>3. OpOK'
  <2> USE DEF OpOK, Is, At, Idle, Off, Undoing, Own, Journalled
  <2>1. ASSUME NEW j \in Pending(op.at) \cap Journal, Undoes(j) PROVE OpOK'
    BY <1>1, <2>1 DEF Undoes
  <2>2. CASE Over
    BY <1>1, <2>2, OpNone DEF Over
  <2>3. CASE Goes("start") \/ Goes("remove")
    BY <1>1, <2>3 DEF Goes
  <2>4. CASE Is(op', op.kind, "resolve", "delete", op.goal, op.token, op.undo, op.clean)
    BY <1>1, <2>4
  <2>5. QED
    BY <1>1, <2>1, <2>2, <2>3, <2>4
<1>4. ASSUME NEW w \in World, Holds(w), ~detached'
      PROVE  Holds(w)'
  <2> USE <1>1, <1>4 DEF Holds
  <2>1. Acknowledged(w)' /\ Snapshots(w)' /\ CopiesAgree' /\ Covered(w)'
    BY StoresKept
  <2>2. MemoryCommitted'
    BY DEF MemoryCommitted, Is, Goes, Over, Undoes, At
  <2>3. TornInside(w)'
    BY NotAmbiguous, OpFields DEF TornInside, Intact, Is, Goes, Over, Undoes, At, OpOK, Off, Idle
  <2>4. Recovers(w)'
    <3> USE DEF Recovers, Is, At, Recovering, Undoing, NonePending, PendingOn, Intact
    <3>1. ASSUME NEW j \in Pending(op.at) \cap Journal, Undoes(j)
          PROVE  Recovers(w)'
      BY <3>1, OpFields DEF OpOK, Undoes, Pending, Held, MemoryCommitted, Snapshots, CopiesAgree,
                            Covered, Kinds, Stores, Mounted
    <3>2. CASE Goes("remove") /\ Pending(op.at) = {}
      BY <3>2, NothingPending, OpFields DEF Goes, OpOK, Mounted
    <3>3. CASE Held(op.at) = {} /\ op.at = "delete" /\ Goes("start")
      BY <3>3, NothingPending, OpFields DEF Goes, OpOK, Mounted
    <3>4. CASE /\ Held(op.at) = {} /\ op.at = "restore"
               /\ Is(op', op.kind, "resolve", "delete", op.goal, op.token, op.undo, op.clean)
      BY <3>4, NothingPending, OpFields DEF OpOK, Mounted
    <3>6. QED
      BY <3>1, <3>2, <3>3, <3>4, NotAmbiguous, OpFields DEF OpOK
  <2>5. Transacts(w)'
    BY NotAmbiguous, OpFields
       DEF Transacts, Is, Goes, Over, Undoes, At, OpOK, Undoing, Own, Journalled, Intact
  <2>6. QED
    BY <2>1, <2>2, <2>3, <2>4, <2>5
<1>5. QED
  BY <1>2, <1>3, <1>4 DEF Keeps

\* UndoSecretKeeps: restoreCredentialSnapshot brings the password back, or the recovery
\* is marked unclean.
LEMMA UndoSecretKeeps == ASSUME TypeOK, OpOK, UndoSecret PROVE Keeps
<1>1. /\ At("undoSecret") /\ op.undo \in Journal
      /\ UNCHANGED << mount, nvs, settings, profile, journal, sequence, recovering,
                      promise, detached >>
      /\ \/ secret' = (IF op.undo.secret = None THEN secret ELSE op.undo.secret)
            /\ Goes("undoProfile")
         \/ /\ op.undo.secret # None /\ secret' = secret
            /\ Is(op', op.kind, "undoProfile", op.at, op.goal, op.token, op.undo, FALSE)
  <2>1. op.undo \in Journal /\ op \in OpType
    BY DEF UndoSecret, OpOK, Undoing, At
  <2>2. CASE /\ secret' = (IF op.undo.secret = None THEN secret ELSE op.undo.secret)
             /\ Go("undoProfile")
    BY <2>1, <2>2, OpGoes DEF UndoSecret, Steps
  <2>3. CASE /\ op.undo.secret # None /\ UNCHANGED secret
             /\ op' = [ op EXCEPT !.step = "undoProfile", !.clean = FALSE ]
    <3>1. Is(op', op.kind, "undoProfile", op.at, op.goal, op.token, op.undo, FALSE)
      BY <2>1, <2>3 DEF OpType, Is, Steps
    <3>2. QED
      BY <2>1, <3>1, OpGoes DEF UndoSecret, Steps
  <2>4. QED
    BY <2>2, <2>3 DEF UndoSecret
<1>2. TypeOK'
  BY <1>1, JournalFields DEF TypeOK
<1>3. OpOK'
  BY <1>1 DEF OpOK, Is, At, Idle, Off, Undoing, Own, Journalled, Goes
<1>4. ASSUME NEW w \in World, Holds(w), ~detached'
      PROVE  Holds(w)'
  <2> USE <1>1, <1>4 DEF Holds, At, Is, Goes
  <2>1. secret' = secret \/ secret' = w.network
    BY DEF Recovers, Undoing
  <2>2. Acknowledged(w)' /\ Snapshots(w)' /\ CopiesAgree' /\ Covered(w)'
    BY <2>1 DEF Acknowledged, Snapshots, CopiesAgree, Covered, PendingOn
  <2>3. MemoryCommitted' /\ TornInside(w)'
    BY <2>1 DEF MemoryCommitted, TornInside, Intact, Off, Idle, OpOK
  <2>4. Recovers(w)'
    BY DEF Recovers, Recovering, Undoing, NonePending, PendingOn, Mounted
  <2>5. Transacts(w)'
    BY DEF Transacts, Own, Journalled
  <2>6. QED
    BY <2>2, <2>3, <2>4, <2>5
<1>5. QED
  BY <1>2, <1>3, <1>4 DEF Keeps

\* UndoProfileKeeps: restoreProfileSnapshot; what did not succeed is recovered later.
LEMMA UndoProfileKeeps == ASSUME TypeOK, OpOK, UndoProfile PROVE Keeps
<1>1. /\ At("undoProfile") /\ op.undo \in Journal
      /\ UNCHANGED << mount, nvs, settings, secret, journal, sequence, promise, detached >>
      /\ \/ /\ profile' = op.undo.profile
            /\ \/ op.clean /\ Goes("remove") /\ recovering' = recovering
               \/ recovering' = TRUE /\ Over
         \/ profile' = profile /\ recovering' = TRUE /\ Over
  BY OpGoes, OpEnds DEF UndoProfile, OpOK, Undoing, At, Steps
<1>2. TypeOK'
  BY <1>1, JournalFields DEF TypeOK
<1>3. OpOK'
  BY <1>1, OpNone DEF OpOK, Is, At, Idle, Off, Undoing, Own, Journalled, Goes, Over
<1>4. ASSUME NEW w \in World, Holds(w), ~detached'
      PROVE  Holds(w)'
  <2> USE <1>1, <1>4 DEF Holds, At, Is, Goes, Over
  <2>1. profile' = profile \/ profile' = w.profile
    BY DEF Recovers, Undoing
  <2>2. Acknowledged(w)' /\ Snapshots(w)' /\ CopiesAgree' /\ Covered(w)'
    BY <2>1 DEF Acknowledged, Snapshots, CopiesAgree, Covered, PendingOn
  <2>3. MemoryCommitted' /\ TornInside(w)'
    BY <2>1 DEF MemoryCommitted, TornInside, Intact, Off, Idle, OpOK, Recovers, Undoing
  <2>4. Recovers(w)'
    BY <2>1 DEF Recovers, Recovering, Undoing, NonePending, PendingOn, Mounted, Intact
  <2>5. Transacts(w)'
    BY DEF Transacts, Own, Journalled
  <2>6. QED
    BY <2>2, <2>3, <2>4, <2>5
<1>5. QED
  BY <1>2, <1>3, <1>4 DEF Keeps

\* RemoveKeeps: removeJournalAfterConvergence; what it leaves behind tells the same.
LEMMA RemoveKeeps == ASSUME TypeOK, OpOK, Remove PROVE Keeps
<1> DEFINE left == { s \in Mounted : journal[op.at][s] # None }
           first == IF Primary \in left THEN Primary ELSE "flash"
<1>1. /\ At("remove") /\ op.at \in Kinds /\ op \in OpType
      /\ UNCHANGED << mount, nvs, settings, secret, profile, sequence, promise, detached >>
      /\ \/ left = {} /\ Concluded(TRUE) /\ journal' = journal
         \/ /\ journal' = [ journal EXCEPT ![op.at][first] = None ]
            /\ UNCHANGED << op, recovering >>
         \/ Concluded(FALSE) /\ journal' = journal
  BY OpFields DEF Remove, OpOK
<1>2. \/ op' = op /\ recovering' = recovering
      \/ op.token # 0 /\ Over /\ recovering' = recovering
      \/ /\ op.token = 0 /\ left = {} /\ recovering' = recovering
         /\ \/ /\ op.at = "restore"
               /\ Is(op', op.kind, "resolve", "delete", op.goal, op.token, op.undo, op.clean)
            \/ op.at = "delete" /\ Goes("start")
      \/ op.token = 0 /\ Over /\ recovering' = (recovering \/ op.kind = "boot")
  BY <1>1, OpEnds, OpSettled DEF Concluded, Refuses
<1>3. /\ journal' \in Journals
      /\ \A k \in Kinds, s \in Stores :
           \/ journal'[k][s] = journal[k][s]
           \/ k = op.at /\ journal'[k][s] = None
  <2>1. first \in Stores
    BY DEF Primary, Stores
  <2>2. CASE journal' = [ journal EXCEPT ![op.at][first] = None ]
    BY <1>1, <2>1, <2>2, JournalSet DEF TypeOK, Journals
  <2>3. QED
    BY <1>1, <2>2 DEF TypeOK, Journals
<1>4. TypeOK'
  BY <1>1, <1>2, <1>3 DEF TypeOK, Journals
<1>5. OpOK'
  <2> USE DEF OpOK, Is, At, Idle, Off, Undoing, Own, Journalled
  <2>1. CASE op' = op
    BY <1>1, <2>1
  <2>2. CASE Over
    BY <1>1, <2>2, OpNone DEF Over
  <2>3. CASE op.token = 0 /\ ~Over /\ op' # op
    BY <1>1, <1>2, <2>3 DEF Goes
  <2>4. QED
    BY <1>2, <2>1, <2>2, <2>3
<1>6. ASSUME NEW w \in World, Holds(w), ~detached'
      PROVE  Holds(w)'
  <2> USE <1>1, <1>6 DEF Holds, At
  <2>1. \A k \in Kinds, s \in Stores :
          PendingOn(s, k)' => PendingOn(s, k) /\ journal'[k][s] = journal[k][s]
    BY <1>3 DEF PendingOn
  <2>2. Acknowledged(w)' /\ Snapshots(w)' /\ CopiesAgree'
    BY <2>1 DEF Acknowledged, Snapshots, CopiesAgree, Stores
  <2>3. Covered(w)'
    <3>1. Intact(w) \/ \A s \in Mounted : ~PendingOn(s, op.at)
      BY DEF Recovers, NonePending
    <3>2. \A k \in Kinds : k # op.at => journal'[k]["flash"] = journal[k]["flash"]
      BY <1>3 DEF Stores
    <3>3. QED
      BY <3>1, <3>2 DEF Covered, Intact, PendingOn, Mounted, Stores, Kinds
  <2>4. MemoryCommitted'
    BY <1>2 DEF MemoryCommitted, Is, Over, Goes
  <2>5. TornInside(w)'
    BY <1>2 DEF TornInside, Intact, Is, Over, Goes, Off, Idle, OpOK, Recovers
  <2>6. Recovers(w)'
    <3>1. \A k \in Kinds : NonePending(k) => NonePending(k)'
      BY <2>1 DEF NonePending, Mounted, Stores
    <3>2. left = {} => NonePending(op.at)
      BY DEF NonePending, PendingOn
    <3>3. op.token = 0 /\ op.at = "delete" => NonePending("restore")
      BY DEF Recovers, Recovering
    <3> USE <3>1, <3>2, <3>3 DEF Recovers, Recovering, Undoing, Is, Kinds
    <3>4. CASE op' = op
      BY <3>4 DEF Intact
    <3>5. CASE Over
      BY <3>5 DEF Over
    <3>6. CASE left = {} /\ op.at = "restore" /\ op.token = 0
               /\ Is(op', op.kind, "resolve", "delete", op.goal, op.token, op.undo, op.clean)
      BY <3>6
    <3>7. CASE left = {} /\ op.at = "delete" /\ op.token = 0 /\ Goes("start")
      BY <3>7 DEF Goes
    <3>8. QED
      BY <1>2, <3>4, <3>5, <3>6, <3>7
  <2>7. Transacts(w)'
    BY <1>2 DEF Transacts, Own, Journalled, Is, Over, Goes
  <2>8. QED
    BY <2>2, <2>3, <2>4, <2>5, <2>6, <2>7
<1>7. QED
  BY <1>4, <1>5, <1>6 DEF Keeps

\* ReresolveKeeps: a deletion that failed finds its own journal.
LEMMA ReresolveKeeps == ASSUME TypeOK, OpOK, Reresolve PROVE Keeps
<1>1. /\ At("reresolve") /\ op.kind = "delete" /\ op.at = "delete" /\ op.token # 0
      /\ UNCHANGED << mount, nvs, settings, secret, profile, journal, sequence,
                      recovering, promise, detached >>
      /\ \/ (Ambiguous("delete") \/ Pending("delete") = {}) /\ Over
         \/ \E j \in Pending("delete") \cap Journal : Undoes(j)
  <2>1. Pending("delete") \subseteq Journal
    BY DEF Pending, Held, TypeOK, Kinds, Mounted, Stores
  <2>2. QED
    BY <2>1, OpEnds, OpUndoes DEF Reresolve, disks, OpOK, At, Own, Journalled
<1>2. TypeOK'
  BY <1>1 DEF TypeOK
<1>3. OpOK'
  <2> USE DEF OpOK, Is, At, Idle, Off, Undoing, Own, Journalled
  <2>1. ASSUME NEW j \in Pending("delete") \cap Journal, Undoes(j) PROVE OpOK'
    BY <1>1, <2>1 DEF Undoes
  <2>2. CASE Over
    BY <1>1, <2>2, OpNone DEF Over
  <2>3. QED
    BY <1>1, <2>1, <2>2
<1>4. ASSUME NEW w \in World, Holds(w), ~detached'
      PROVE  Holds(w)'
  <2> USE <1>1, <1>4 DEF Holds, At
  <2>1. secret = w.network /\ OnlyOwn(Mounted) /\ \A s \in Mounted : PendingOn(s, "delete")
    <3>1. op.undo \in Journal /\ \A s \in Mounted : journal["delete"][s] = op.undo
      BY DEF OpOK, Transacts, Own, Journalled
    <3>2. QED
      BY <3>1, JournalFields DEF Transacts, Journalled, PendingOn
  <2>2. ~Ambiguous("delete") /\ Pending("delete") # {}
    <3>1. ~NonePending("delete")
      BY <2>1 DEF NonePending, Mounted, Stores
    <3>2. QED
      BY <3>1, NotAmbiguous, NothingPending DEF Kinds
  <2>3. PICK j \in Pending("delete") \cap Journal : Undoes(j)
    BY <1>1, <2>2
  <2>4. j.profile = w.profile /\ j.secret \in { None, w.network }
    BY <2>3 DEF Pending, Held, MemoryCommitted, Snapshots, PendingOn, Kinds, Stores, Mounted
  <2> USE <2>3 DEF Undoes, Is
  <2>5. Acknowledged(w)' /\ Snapshots(w)' /\ CopiesAgree' /\ Covered(w)'
    BY StoresKept
  <2>6. MemoryCommitted' /\ TornInside(w)'
    BY DEF MemoryCommitted, TornInside, Intact, Off, Idle, OpOK
  <2>7. Recovers(w)'
    BY <2>1, <2>4 DEF Recovers, Recovering, Undoing
  <2>8. Transacts(w)'
    BY DEF Transacts, Own, Journalled
  <2>9. QED
    BY <2>5, <2>6, <2>7, <2>8
<1>5. QED
  BY <1>2, <1>3, <1>4 DEF Keeps

-----------------------------------------------------------------------------
(* Power, and the operations asked for.                                    *)

\* AskKeeps: an operation begins with the recovery, on stores that are whole.
Askable(kind, goal) ==
    /\ kind \in OpKinds \ { "none", "boot" } /\ goal \in World \cup { None }
    /\ kind = "restore" => goal \in World /\ (goal.ref => goal.profile # None)
    /\ kind = "save" => goal \in World /\ goal.profile # None
    /\ kind = "assign" => profile # None
LEMMA AskKeeps ==
  ASSUME TypeOK, OpOK, NEW kind, NEW goal, Askable(kind, goal), Ask(kind, goal)
  PROVE  Keeps
<1> USE DEF Askable
<1>1. /\ ~Off /\ Idle /\ ~recovering
      /\ UNCHANGED << mount, nvs, settings, secret, profile, journal, sequence,
                      recovering, promise, detached >>
      /\ Is(op', kind, "resolve", "restore", goal, 0, None, TRUE)
  <2>1. Is(op', kind, "resolve", "restore", goal, 0, None, TRUE)
    BY OpAsked
  <2>2. QED
    BY <2>1 DEF Ask, disks
<1>2. TypeOK'
  BY <1>1 DEF TypeOK
<1>3. OpOK'
  BY <1>1 DEF OpOK, Is, At, Idle, Off, Undoing, Own, Journalled
<1>4. ASSUME NEW w \in World, Holds(w), ~detached'
      PROVE  Holds(w)'
  <2> USE <1>1, <1>4 DEF Holds, At, Is
  <2>1. Intact(w)
    BY DEF TornInside, Idle, Off, OpOK, Kinds
  <2>2. Acknowledged(w)' /\ Snapshots(w)' /\ CopiesAgree' /\ Covered(w)'
    BY StoresKept
  <2>3. MemoryCommitted' /\ TornInside(w)'
    BY <2>1 DEF MemoryCommitted, TornInside, Intact, Idle, OpOK
  <2>4. Recovers(w)' /\ Transacts(w)'
    BY <2>1 DEF Recovers, Recovering, Undoing, Intact, Transacts, Own, Journalled
  <2>5. QED
    BY <2>2, <2>3, <2>4
<1>5. QED
  BY <1>2, <1>3, <1>4 DEF Keeps

\* StartsKeeps: a boot, and a recovery that was due, begin with the journals.
LEMMA StartsKeeps ==
  ASSUME TypeOK, OpOK, Idle, Starts, settings' \in { nvs, settings },
         mount' \in { "both", "flash" },
         UNCHANGED << nvs, secret, profile, journal, sequence, promise, detached >>
  PROVE  Keeps
<1>1. \/ recovering' = FALSE /\ Is(op', "boot", "resolve", "restore", None, 0, None, TRUE)
      \/ recovering' = TRUE /\ Over
  BY OpStarts, OpEnds DEF Starts, OpKinds
<1>2. TypeOK'
  BY <1>1 DEF TypeOK
<1>3. OpOK'
  BY <1>1, OpNone DEF OpOK, Is, At, Idle, Off, Undoing, Own, Journalled, Over
<1>4. ASSUME NEW w \in World, Holds(w), ~detached'
      PROVE  Holds(w)'
  <2> USE <1>1, <1>4 DEF Holds, At, Is, Over
  <2>1. Acknowledged(w)' /\ Snapshots(w)' /\ CopiesAgree' /\ Covered(w)'
    BY StoresKept
  <2>2. MemoryCommitted' /\ TornInside(w)'
    BY DEF MemoryCommitted, TornInside, Intact, Idle, OpOK
  <2>3. Recovers(w)' /\ Transacts(w)'
    BY DEF Recovers, Recovering, Undoing, Transacts, Own, Journalled
  <2>4. QED
    BY <2>1, <2>2, <2>3
<1>5. QED
  BY <1>2, <1>3, <1>4 DEF Keeps

\* OffKeeps: power is lost between two steps, or switched off.
LEMMA OffKeeps == ASSUME TypeOK, OpOK, PowerLoss \/ PowerOff PROVE Keeps
<1>1. /\ mount' = "off" /\ settings' = nvs /\ recovering' = FALSE
      /\ UNCHANGED << nvs, secret, profile, journal, sequence, promise, detached >>
      /\ op' = NoOp \/ (op' = op /\ Idle)
  BY DEF PowerLoss, PowerOff, disks
<1>2. TypeOK'
  BY <1>1 DEF TypeOK
<1>3. OpOK'
  BY <1>1, OpNone DEF OpOK, Is, At, Idle, Off, Undoing, Own, Journalled
<1>4. ASSUME NEW w \in World, Holds(w), ~detached'
      PROVE  Holds(w)'
  <2> USE <1>1, <1>4, OpNone DEF Holds, At, Is
  <2>1. Acknowledged(w)' /\ Snapshots(w)' /\ CopiesAgree' /\ Covered(w)'
    BY StoresKept
  <2>2. MemoryCommitted' /\ TornInside(w)'
    BY DEF MemoryCommitted, TornInside, Off
  <2>3. op'.step = "none" /\ op'.kind = "none"
    BY DEF Idle, OpOK
  <2>4. Recovers(w)' /\ Transacts(w)'
    BY <2>3 DEF Recovers, Recovering, Undoing, Transacts, Own, Journalled
  <2>5. QED
    BY <2>1, <2>2, <2>4
<1>5. QED
  BY <1>2, <1>3, <1>4 DEF Keeps

-----------------------------------------------------------------------------
(* After the recovery.                                                     *)

\* Recovered: when an operation starts, nothing that is mounted is pending, and what
\* the stores hold is what was acknowledged.
LEMMA Recovered ==
  ASSUME TypeOK, OpOK, NEW w \in World, Holds(w), At("start")
  PROVE  /\ Intact(w) /\ settings = nvs /\ op.token = 0
         /\ \A k \in Kinds : NonePending(k)
         /\ ~Behind => \A k \in Kinds, s \in Stores : ~PendingOn(s, k)
<1>1. op.token = 0 /\ op.at = "delete" /\ \A k \in Kinds : NonePending(k)
  BY DEF Holds, Recovers, Recovering, OpOK, At, Kinds
<1>2. ~Off
  BY DEF OpOK, Off, Idle, At
<1>3. Intact(w)
  BY <1>1 DEF Holds, Covered, NonePending, Mounted, Stores, Kinds, Intact
<1>4. ~Behind => \A k \in Kinds, s \in Stores : ~PendingOn(s, k)
  BY <1>1, <1>2 DEF NonePending, Behind, Mounted, Stores, TypeOK, Off
<1>5. QED
  BY <1>1, <1>3, <1>4 DEF Holds, MemoryCommitted, At

\* Whole: stores that agree with what was acknowledged, no operation and no journal.
LEMMA Whole ==
  ASSUME NEW v \in World, Acknowledged(v)', Intact(v)', settings' = nvs', Over,
         \A k \in Kinds, s \in Stores : ~PendingOn(s, k)'
  PROVE  Holds(v)'
<1>1. MemoryCommitted' /\ Snapshots(v)' /\ CopiesAgree' /\ Covered(v)' /\ TornInside(v)'
  BY DEF MemoryCommitted, Snapshots, CopiesAgree, Covered, TornInside, Intact, Stores
<1>2. Recovers(v)' /\ Transacts(v)'
  BY OpNone DEF Over, Is, Recovers, Recovering, Undoing, Transacts, Own, Journalled, At
<1>3. QED
  BY <1>1, <1>2 DEF Holds

\* NothingHappened: an operation ends as it began.
LEMMA NothingHappened ==
  ASSUME NEW w \in World, Holds(w), Intact(w), settings' = nvs, Over,
         UNCHANGED << nvs, secret, profile, journal, promise >>
  PROVE  Holds(w)'
<1>1. Acknowledged(w)' /\ Snapshots(w)' /\ CopiesAgree' /\ Covered(w)'
  BY StoresKept
<1>2. MemoryCommitted' /\ TornInside(w)'
  BY DEF MemoryCommitted, TornInside, Intact
<1>3. Recovers(w)' /\ Transacts(w)'
  BY OpNone DEF Over, Is, Recovers, Recovering, Undoing, Transacts, Own, Journalled, At
<1>4. QED
  BY <1>1, <1>2, <1>3 DEF Holds

\* OverIsOK: no operation runs.
LEMMA OverIsOK == ASSUME Over PROVE OpOK'
BY OpNone DEF Over, Is, OpOK, At, Idle, Undoing, Own, Journalled

\* ValidateKeeps: the recovery has left no slot that names a missing profile.
LEMMA ValidateKeeps == ASSUME TypeOK, OpOK, Validate PROVE Keeps
<1>1. Over /\ At("start")
  BY OpEnds DEF Validate
<1>2. TypeOK'
  <2>1. [ settings EXCEPT !.ref = FALSE ] \in Settings
    BY DEF TypeOK, Settings
  <2>2. nvs' \in Settings /\ settings' \in Settings
    BY <2>1 DEF Validate, TypeOK
  <2>3. QED
    BY <2>2 DEF Validate, TypeOK
<1>3. OpOK'
  BY <1>1, OverIsOK
<1>4. ASSUME NEW w \in World, Holds(w), ~detached'
      PROVE  Holds(w)'
  <2>1. Intact(w) /\ settings = nvs
    BY <1>1, <1>4, Recovered
  <2>2. ~(settings.ref /\ profile = None)
    BY <1>4, <2>1 DEF Holds, Acknowledged, Intact
  <2>3. promise' = promise
    BY <1>4 DEF Validate, Holds, Acknowledged
  <2>4. QED
    BY <1>1, <1>4, <2>1, <2>2, <2>3, NothingHappened DEF Validate
<1>5. QED
  BY <1>2, <1>3, <1>4 DEF Keeps

\* SaveProfileKeeps: a saved profile is the new state.
LEMMA SaveProfileKeeps == ASSUME TypeOK, OpOK, SaveProfile PROVE Keeps
<1>1. Over /\ At("start") /\ op.goal.profile \in Payload /\ op.goal.profile # None
  BY OpEnds, WorldFields DEF SaveProfile, OpOK
<1>2. WorldOf(op.goal.profile, nvs) \in World
  BY <1>1, WorldMade DEF TypeOK
<1>3. TypeOK'
  BY <1>1, <1>2 DEF SaveProfile, Acknowledges, TypeOK
<1>4. OpOK'
  BY <1>1, OverIsOK
<1>5. ASSUME NEW w \in World, Holds(w), ~detached'
      PROVE  \E v \in World : Holds(v)'
  <2>1. Intact(w) /\ settings = nvs
    BY <1>1, <1>5, Recovered
  <2>2. CASE promise' = promise /\ profile' = profile
    BY <1>1, <1>5, <2>1, <2>2, NothingHappened DEF SaveProfile
  <2>3. CASE profile' = op.goal.profile /\ Acknowledges(WorldOf(op.goal.profile, nvs))
    <3>1. PICK v \in World : v = WorldOf(op.goal.profile, nvs)
      BY <1>2
    <3>2. v.profile = op.goal.profile /\ v.ref = nvs.ref /\ v.network = nvs.network
      BY <1>1, <3>1, WorldMade DEF TypeOK
    <3>3. \A k \in Kinds, s \in Stores : ~PendingOn(s, k)'
      BY <1>1, <1>5, <2>3, Recovered DEF Acknowledges, SaveProfile, PendingOn
    <3>4. Acknowledged(v)' /\ Intact(v)'
      BY <1>1, <1>5, <2>1, <2>3, <3>1, <3>2
         DEF Acknowledged, Intact, Holds, SaveProfile, Acknowledges
    <3>5. Holds(v)'
      BY <1>1, <2>1, <3>3, <3>4, Whole DEF SaveProfile
    <3>6. QED
      BY <3>5
  <2>4. QED
    BY <2>2, <2>3 DEF SaveProfile
<1>6. QED
  BY <1>3, <1>4, <1>5 DEF Keeps

\* AssignSlotKeeps: a slot names a profile that is there.
LEMMA AssignSlotKeeps == ASSUME TypeOK, OpOK, AssignSlot PROVE Keeps
<1> DEFINE new == [ settings EXCEPT !.ref = TRUE ]
<1>1. Over /\ At("start") /\ op.kind = "assign"
  BY OpEnds DEF AssignSlot
<1>2. new \in Settings /\ new.ref = TRUE /\ new.network = settings.network
      /\ new.mark = settings.mark
  BY DEF TypeOK, Settings
<1>3. WorldOf(profile, new) \in World
  BY <1>2, WorldMade DEF TypeOK
<1> HIDE DEF new
<1>4. \/ /\ nvs' = new /\ settings' = new /\ Acknowledges(WorldOf(profile, new))
      \/ UNCHANGED << nvs, settings, promise, detached >>
  BY DEF AssignSlot, new
<1>5. TypeOK'
  BY <1>1, <1>2, <1>3, <1>4 DEF AssignSlot, Acknowledges, TypeOK
<1>6. OpOK'
  BY <1>1, OverIsOK
<1>7. ASSUME NEW w \in World, Holds(w), ~detached'
      PROVE  \E v \in World : Holds(v)'
  <2>1. Intact(w) /\ settings = nvs
    BY <1>1, <1>7, Recovered
  <2>2. CASE UNCHANGED << nvs, settings, promise, detached >>
    BY <1>1, <1>7, <2>1, <2>2, NothingHappened DEF AssignSlot
  <2>3. CASE nvs' = new /\ settings' = new /\ Acknowledges(WorldOf(profile, new))
    <3>1. PICK v \in World : v = WorldOf(profile, new)
      BY <1>3
    <3>2. v.profile = profile /\ v.ref = TRUE /\ v.network = nvs.network
      BY <1>2, <2>1, <3>1, WorldMade DEF TypeOK
    <3>3. profile # None
      BY <1>1, <1>7, <2>1 DEF Holds, Recovers, Intact
    <3>4. \A k \in Kinds, s \in Stores : ~PendingOn(s, k)'
      BY <1>1, <1>2, <1>7, <2>1, <2>3, Recovered DEF Acknowledges, AssignSlot, PendingOn
    <3>5. Acknowledged(v)' /\ Intact(v)'
      BY <1>2, <1>7, <2>1, <2>3, <3>1, <3>2, <3>3
         DEF Acknowledged, Intact, Holds, AssignSlot, Acknowledges
    <3>6. Holds(v)'
      BY <1>1, <2>3, <3>4, <3>5, Whole
    <3>7. QED
      BY <3>6
  <2>4. QED
    BY <1>4, <2>2, <2>3
<1>8. QED
  BY <1>5, <1>6, <1>7 DEF Keeps

-----------------------------------------------------------------------------
(* The transaction.                                                        *)

\* AllocateKeeps: the journal is going to tell the state that was acknowledged.
LEMMA AllocateKeeps == ASSUME TypeOK, OpOK, Allocate PROVE Keeps
<1>1. /\ At("start") /\ op.kind \in Kinds /\ op \in OpType
      /\ UNCHANGED << mount, nvs, settings, secret, profile, journal, recovering,
                      promise, detached >>
  BY DEF Allocate, Kind, OpOK
<1> DEFINE t == NextToken(op.kind)
           c == op.kind = "restore" /\ op.goal.network # settings.network
           u == [ token |-> t, secret |-> IF c THEN secret ELSE None, profile |-> profile ]
<1>2. Before = u /\ settings.mark[op.kind] \in Nat /\ t \in Nat /\ t > settings.mark[op.kind]
      /\ t # 0
  BY <1>1, SettingsFields, TransactionAssumption
     DEF Before, NextToken, Kind, Credentials, TypeOK
<1>3. t <= MaxToken => u \in Journal
  BY <1>2, TransactionAssumption DEF Journal, TypeOK
<1>4. /\ u.token = t /\ u.profile = profile
      /\ u.secret = IF c THEN secret ELSE None
  OBVIOUS
<1> HIDE DEF t, u
<1>5. \/ Over /\ sequence' = sequence
      \/ /\ t <= MaxToken /\ u \in Journal
         /\ sequence' = [ sequence EXCEPT ![op.kind] = t ]
         /\ Is(op', op.kind, "journal", op.kind, op.goal, t, u, op.clean)
  <2>1. CASE Ends /\ UNCHANGED sequence
    BY <2>1, OpEnds
  <2>2. CASE /\ t <= MaxToken
             /\ sequence' = [ sequence EXCEPT ![op.kind] = t ]
             /\ op' = [ op EXCEPT !.step = "journal", !.at = op.kind, !.undo = u, !.token = t ]
    <3>1. t \in 0..MaxToken
      BY <1>2, <2>2, TransactionAssumption
    <3>2. QED
      BY <1>1, <1>3, <2>2, <3>1 DEF OpType, Is, Steps
  <2>3. QED
    BY <1>2, <2>1, <2>2 DEF Allocate, Kind, t
<1>6. TypeOK'
  BY <1>1, <1>2, <1>5, TransactionAssumption DEF TypeOK
<1>7. OpOK'
  <2>1. CASE Over
    BY <2>1, OverIsOK
  <2>2. CASE ~Over
    BY <1>1, <1>2, <1>5, <2>2 DEF OpOK, Is, At, Idle, Off, Undoing, Own, Journalled
  <2>3. QED
    BY <2>1, <2>2
<1>8. ASSUME NEW w \in World, Holds(w), ~detached'
      PROVE  Holds(w)'
  <2>1. Intact(w) /\ settings = nvs /\ \A k \in Kinds : NonePending(k)
    BY <1>1, <1>8, Recovered
  <2>2. CASE Over
    BY <1>1, <1>8, <2>1, <2>2, NothingHappened
  <2>3. CASE ~Over
    <3> USE <1>1, <1>5, <1>8, <2>1, <2>3 DEF Holds, At, Is
    <3>1. Acknowledged(w)' /\ Snapshots(w)' /\ CopiesAgree' /\ Covered(w)'
      BY StoresKept
    <3>2. MemoryCommitted' /\ TornInside(w)'
      BY DEF MemoryCommitted, TornInside, Intact
    <3>3. Recovers(w)'
      BY DEF Recovers, Recovering, Undoing, Intact
    <3>4. OwnJournal(w)'
      <4>1. w.network = settings.network /\ w.network \in Networks
        BY WorldFields DEF Acknowledged
      <4>2. QED
        BY <1>2, <1>4, <4>1, TransactionAssumption DEF OwnJournal, Intact
    <3>5. Transacts(w)'
      BY <3>4 DEF Transacts, Own, Journalled, Intact, NonePending, PendingOn, Mounted
    <3>6. QED
      BY <3>1, <3>2, <3>3, <3>5
  <2>4. QED
    BY <2>2, <2>3
<1>9. QED
  BY <1>6, <1>7, <1>8 DEF Keeps

\* WriteJournalKeeps: the journal is on the primary store before anything changes.
LEMMA WriteJournalKeeps == ASSUME TypeOK, OpOK, WriteJournal PROVE Keeps
<1>1. /\ At("journal") /\ op \in OpType /\ op.undo \in Journal /\ op.at \in Kinds
      /\ op.at = op.kind /\ op.token # 0
      /\ UNCHANGED << mount, nvs, settings, secret, profile, sequence, recovering, promise >>
      /\ \/ /\ journal' = [ journal EXCEPT ![op.at][Primary] = op.undo ]
            /\ \/ mount = "both" /\ Goes("mirror")
               \/ mount # "both" /\ Goes("mutate")
            /\ detached' = (detached \/ Behind)
         \/ Over /\ UNCHANGED << journal, detached >>
  BY OpGoes, OpEnds, OpFields DEF WriteJournal, OpOK, At, Own, Steps
<1>2. journal' # journal =>
        /\ journal' \in Journals
        /\ \A k \in Kinds, s \in Stores :
             journal'[k][s] = IF k = op.at /\ s = Primary THEN op.undo ELSE journal[k][s]
  BY <1>1, JournalSet DEF TypeOK, Journals, Primary, Stores
<1>3. TypeOK'
  BY <1>1, <1>2 DEF TypeOK, Journals
<1>4. OpOK'
  <2>1. CASE Over
    BY <2>1, OverIsOK
  <2>2. CASE ~Over
    BY <1>1, <2>2 DEF OpOK, Is, Goes, At, Idle, Off, Undoing, Own, Journalled
  <2>3. QED
    BY <2>1, <2>2
<1>5. ASSUME NEW w \in World, Holds(w), ~detached'
      PROVE  Holds(w)'
  <2>1. Intact(w) /\ settings = nvs /\ OwnJournal(w) /\ \A k \in Kinds : NonePending(k)
    BY <1>1, <1>5 DEF Holds, Transacts, MemoryCommitted, At, Own
  <2>2. CASE Over /\ journal' = journal
    BY <1>1, <1>5, <2>1, <2>2, NothingHappened
  <2>3. CASE /\ journal' = [ journal EXCEPT ![op.at][Primary] = op.undo ]
             /\ \/ mount = "both" /\ Goes("mirror")
                \/ mount # "both" /\ Goes("mutate")
             /\ ~Behind
    <3> USE <1>1, <1>5, <2>1, <2>3
    <3>1. \A k \in Kinds, s \in Stores :
            journal'[k][s] = IF k = op.at /\ s = Primary THEN op.undo ELSE journal[k][s]
      BY JournalSet DEF TypeOK, Journals, Primary, Stores
    <3>2. ~Off
      BY DEF OpOK, Off, Idle, At
    <3>3. \A k \in Kinds, s \in Stores : ~PendingOn(s, k)
      BY <3>2 DEF NonePending, Behind, Mounted, Stores, TypeOK, Off
    <3>4. \A k \in Kinds, s \in Stores : PendingOn(s, k)' => k = op.at /\ s = Primary
      BY <3>1, <3>3 DEF PendingOn
    <3>5. journal'[op.at][Primary] = op.undo
      BY <3>1 DEF Primary, Stores
    <3>6. Acknowledged(w)' /\ MemoryCommitted' /\ TornInside(w)'
      BY DEF Holds, Acknowledged, MemoryCommitted, TornInside, Intact
    <3>7. Snapshots(w)' /\ CopiesAgree' /\ Covered(w)'
      BY <3>4, <3>5 DEF Snapshots, CopiesAgree, Covered, OwnJournal, Intact, Stores
    <3>8. Recovers(w)'
      BY DEF Recovers, Recovering, Undoing, Goes, Is, At, Holds, OpOK, Kinds
    <3>9. OwnJournal(w)'
      BY DEF OwnJournal, Goes, Is
    <3>10. Transacts(w)'
      BY <3>2, <3>4, <3>5, <3>9 DEF Transacts, Own, Journalled, OnlyOwn, Primary, Mounted, Intact, Goes,
                               Is, At, OwnJournal, TypeOK, Off
    <3>11. QED
      BY <3>6, <3>7, <3>8, <3>10 DEF Holds
  <2>4. QED
    BY <1>1, <1>5, <2>2, <2>3
<1>6. QED
  BY <1>3, <1>4, <1>5 DEF Keeps

\* MirrorJournalKeeps: the mirror tells the same; without it the operation is over.
LEMMA MirrorJournalKeeps == ASSUME TypeOK, OpOK, MirrorJournal PROVE Keeps
<1>1. /\ At("mirror") /\ op \in OpType /\ op.undo \in Journal /\ op.at \in Kinds
      /\ op.at = op.kind /\ op.token # 0
      /\ UNCHANGED << mount, nvs, settings, secret, profile, sequence, recovering,
                      promise, detached >>
      /\ \/ journal' = [ journal EXCEPT ![op.at]["flash"] = op.undo ] /\ Goes("mutate")
         \/ Over /\ journal' \in { [ journal EXCEPT ![op.at]["card"] = None ], journal }
  BY OpGoes, OpEnds, OpFields DEF MirrorJournal, OpOK, At, Own, Steps
<1>2. TypeOK'
  <2>1. journal' \in Journals
    BY <1>1, JournalSet DEF TypeOK, Journals, Stores
  <2>2. QED
    BY <1>1, <2>1 DEF TypeOK, Journals
<1>3. OpOK'
  <2>1. CASE Over
    BY <2>1, OverIsOK
  <2>2. CASE ~Over
    BY <1>1, <2>2 DEF OpOK, Is, Goes, At, Idle, Off, Undoing, Own, Journalled
  <2>3. QED
    BY <2>1, <2>2
<1>4. ASSUME NEW w \in World, Holds(w), ~detached'
      PROVE  Holds(w)'
  <2> USE <1>1, <1>4
  <2>1. /\ Intact(w) /\ settings = nvs /\ OwnJournal(w) /\ mount = "both"
        /\ OnlyOwn({ "card" }) /\ journal[op.at]["card"] = op.undo
    BY DEF Holds, Transacts, MemoryCommitted, At, Own
  <2>2. \A k \in Kinds, s \in Stores :
          \/ journal'[k][s] = journal[k][s]
          \/ k = op.at /\ s = "flash" /\ journal'[k][s] = op.undo /\ Goes("mutate")
          \/ k = op.at /\ s = "card" /\ journal'[k][s] = None /\ Over
    BY JournalSet DEF TypeOK, Journals, Stores
  <2>3. \A k \in Kinds, s \in Stores :
          PendingOn(s, k)' => k = op.at /\ journal'[k][s] = op.undo
    BY <2>1, <2>2 DEF PendingOn, OnlyOwn
  <2>4. Acknowledged(w)' /\ MemoryCommitted' /\ TornInside(w)'
    BY <2>1 DEF Holds, Acknowledged, MemoryCommitted, TornInside, Intact
  <2>5. Snapshots(w)' /\ CopiesAgree' /\ Covered(w)'
    BY <2>1, <2>3 DEF Snapshots, CopiesAgree, Covered, OwnJournal, Intact, Stores
  <2>6. Recovers(w)'
    BY <2>1, OpNone DEF Recovers, Recovering, Undoing, Goes, Over, Is, At, Holds, OpOK, Kinds
  <2>7. Transacts(w)'
    <3>1. CASE Over
      BY <3>1, OpNone DEF Over, Is, Transacts, Own, Journalled, At
    <3>2. CASE journal' = [ journal EXCEPT ![op.at]["flash"] = op.undo ] /\ Goes("mutate")
      <4>1. OwnJournal(w)'
        BY <2>1, <3>2 DEF OwnJournal, Goes, Is
      <4>2. journal'[op.at]["flash"] = op.undo /\ journal'[op.at]["card"] = op.undo
        BY <2>1, <3>2, JournalSet DEF TypeOK, Journals, Stores
      <4>3. QED
        BY <2>1, <2>3, <3>2, <4>1, <4>2
           DEF Transacts, Own, Journalled, OnlyOwn, Mounted, Stores, Intact, Goes, Is, At, OwnJournal
    <3>3. QED
      BY <3>1, <3>2
  <2>8. QED
    BY <2>4, <2>5, <2>6, <2>7 DEF Holds
<1>5. QED
  BY <1>2, <1>3, <1>4 DEF Keeps

\* OwnIsPending: while a transaction changes the stores, its journal is pending on every
\* mounted store and it is the only one.
LEMMA OwnIsPending ==
  ASSUME TypeOK, OpOK, NEW w \in World, Holds(w), op.step \in Journalled
  PROVE  /\ op.at \in Kinds /\ op.at = op.kind /\ op.undo \in Journal /\ op.token # 0
         /\ OnlyOwn(Mounted)
         /\ \A s \in Mounted : journal[op.at][s] = op.undo /\ PendingOn(s, op.at)
         /\ op.undo.profile = w.profile /\ op.undo.secret \in { None, w.network }
         /\ op.kind = "delete" => secret = w.network
         /\ op.kind = "restore" /\ secret # w.network => op.undo.secret # None
<1>1. /\ op.at \in Kinds /\ op.at = op.kind /\ op.undo \in Journal /\ op.token # 0
  BY OpFields DEF OpOK, Own, Journalled
<1>2. /\ OnlyOwn(Mounted)
      /\ \A s \in Mounted : journal[op.at][s] = op.undo /\ PendingOn(s, op.at)
      /\ op.kind = "delete" => secret = w.network
  BY <1>1, JournalFields DEF Holds, Transacts, PendingOn
<1>3. PendingOn("flash", op.at) /\ journal[op.at]["flash"] = op.undo
  BY <1>2 DEF Mounted, Stores
<1>4. op.undo.profile = w.profile /\ op.undo.secret \in { None, w.network }
  BY <1>1, <1>3 DEF Holds, Snapshots, Stores
<1>5. op.kind = "restore" /\ secret # w.network => op.undo.secret # None
  BY <1>1, <1>3 DEF Holds, Covered
<1>6. QED
  BY <1>1, <1>2, <1>4, <1>5

\* GoesOn: a change of a transaction, which its journal covers.
LEMMA GoesOn ==
  ASSUME TypeOK, OpOK, NEW w \in World, Holds(w), op.step \in Journalled,
         NEW p \in { "profile", "commit", "reresolve" }, Goes(p),
         secret' # w.network => op.kind = "restore" /\ op.undo.secret # None,
         UNCHANGED << mount, nvs, journal, promise >>,
         settings'.mark = nvs.mark, p = "reresolve" => settings' = nvs
  PROVE  /\ Acknowledged(w)' /\ MemoryCommitted' /\ Snapshots(w)' /\ CopiesAgree'
         /\ Covered(w)' /\ TornInside(w)' /\ Recovers(w)'
<1> USE OwnIsPending DEF Holds, Goes, Is, At
<1>1. Acknowledged(w)' /\ MemoryCommitted' /\ Snapshots(w)' /\ CopiesAgree'
  BY DEF Acknowledged, MemoryCommitted, Snapshots, CopiesAgree, PendingOn
<1>2. Covered(w)'
  BY DEF Covered, PendingOn, Mounted, Stores
<1>3. TornInside(w)' /\ Recovers(w)'
  BY DEF TornInside, Recovers, Recovering, Undoing, Kinds
<1>4. QED
  BY <1>1, <1>2, <1>3

\* GoesBack: the rollback begins from the own journal.
LEMMA GoesBack ==
  ASSUME TypeOK, OpOK, NEW w \in World, Holds(w), op.step \in Journalled, RollsBack,
         op.kind = "restore",
         UNCHANGED << mount, nvs, secret, profile, journal, sequence, recovering,
                      promise, detached >>
  PROVE  OpOK' /\ Holds(w)'
<1> USE OwnIsPending DEF Is, At
<1>1. Undoes(op.undo) /\ settings' = nvs
  BY OpUndoes DEF RollsBack, OpOK
<1>2. OpOK'
  BY <1>1 DEF OpOK, Undoes, Idle, Off, Undoing, Own, Journalled
<1>3. Acknowledged(w)' /\ Snapshots(w)' /\ CopiesAgree' /\ Covered(w)'
  BY StoresKept
<1>4. MemoryCommitted' /\ TornInside(w)'
  BY <1>1 DEF MemoryCommitted, TornInside, Undoes
<1>5. Recovers(w)' /\ Transacts(w)'
  BY <1>1 DEF Recovers, Recovering, Undoing, Transacts, Own, Journalled, Undoes
<1>6. QED
  BY <1>2, <1>3, <1>4, <1>5 DEF Holds

\* RestoreSecretKeeps: the password and the settings in memory become the document's.
LEMMA RestoreSecretKeeps == ASSUME TypeOK, OpOK, RestoreSecret PROVE Keeps
<1> DEFINE new == [ settings EXCEPT !.network = op.goal.network, !.ref = op.goal.ref ]
<1>1. /\ At("mutate") /\ op.kind = "restore" /\ op.goal \in World /\ op \in OpType
      /\ op.undo \in Journal /\ op.token # 0
      /\ UNCHANGED << mount, nvs, profile, journal, sequence, recovering, promise, detached >>
  BY DEF RestoreSecret, Kind, OpOK, At, Own, Journalled
<1>2. /\ new \in Settings /\ new.mark = settings.mark
      /\ new.network = op.goal.network /\ new.ref = op.goal.ref
  BY <1>1, WorldFields DEF TypeOK, Settings
<1> HIDE DEF new
<1>3. \/ secret' = op.goal.network /\ Goes("profile") /\ settings' = new
      \/ RollsBack /\ secret' = secret
  BY <1>1, OpGoes DEF RestoreSecret, Steps, new
<1>4. TypeOK'
  BY <1>1, <1>2, <1>3, WorldFields DEF TypeOK, RollsBack
<1>5. CASE secret' = op.goal.network /\ Goes("profile") /\ settings' = new
  <2>1. OpOK'
    BY <1>1, <1>5 DEF OpOK, Goes, Is, At, Idle, Off, Undoing, Own, Journalled
  <2>2. ASSUME NEW w \in World, Holds(w), ~detached'
        PROVE  Holds(w)'
    <3>1. /\ OwnJournal(w) /\ settings.mark = nvs.mark
          /\ op.undo.secret = None => op.goal.network = w.network
      BY <1>1, <2>2 DEF Holds, Transacts, MemoryCommitted, OwnJournal, At, Own, Journalled
    <3>2. /\ Acknowledged(w)' /\ MemoryCommitted' /\ Snapshots(w)' /\ CopiesAgree'
          /\ Covered(w)' /\ TornInside(w)' /\ Recovers(w)'
      BY <1>1, <1>2, <1>5, <2>2, <3>1, GoesOn DEF At, Journalled
    <3>3. OwnJournal(w)'
      BY <1>1, <1>5, <3>1 DEF OwnJournal, Goes, Is
    <3>4. OnlyOwn(Mounted)' /\ \A s \in Mounted' : journal'[op'.at][s] = op'.undo
      BY <1>1, <1>5, <2>2, OwnIsPending
         DEF OnlyOwn, PendingOn, Mounted, Goes, Is, At, Journalled
    <3>5. Transacts(w)'
      BY <1>1, <1>2, <1>5, <3>3, <3>4 DEF Transacts, OwnJournal, Goes, Is, At, Own, Journalled
    <3>6. QED
      BY <3>2, <3>5 DEF Holds
  <2>3. QED
    BY <1>4, <2>1, <2>2 DEF Keeps
<1>6. CASE RollsBack /\ secret' = secret
  <2>1. OpOK'
    <3>1. Undoes(op.undo)
      BY <1>1, <1>6, OpUndoes DEF RollsBack
    <3>2. QED
      BY <1>1, <3>1 DEF OpOK, Undoes, Is, At, Idle, Off, Undoing, Own, Journalled
  <2>2. ASSUME NEW w \in World, Holds(w), ~detached'
        PROVE  Holds(w)'
    BY <1>1, <1>6, <2>2, GoesBack DEF At, Journalled
  <2>3. QED
    BY <1>4, <2>1, <2>2 DEF Keeps
<1>7. QED
  BY <1>3, <1>5, <1>6

\* RestoreProfileKeeps: then the profile.
LEMMA RestoreProfileKeeps == ASSUME TypeOK, OpOK, RestoreProfile PROVE Keeps
<1>1. /\ At("profile") /\ op.kind = "restore" /\ op.goal \in World /\ op \in OpType
      /\ op.undo \in Journal /\ op.token # 0
      /\ UNCHANGED << mount, nvs, secret, journal, sequence, recovering, promise, detached >>
  BY DEF RestoreProfile, OpOK, At, Own, Journalled
<1>2. \/ profile' = op.goal.profile /\ Goes("commit") /\ settings' = settings
      \/ RollsBack /\ profile' = profile
  BY <1>1, OpGoes DEF RestoreProfile, Steps
<1>3. TypeOK'
  BY <1>1, <1>2, WorldFields DEF TypeOK, RollsBack
<1>4. CASE profile' = op.goal.profile /\ Goes("commit") /\ settings' = settings
  <2>1. OpOK'
    BY <1>1, <1>4 DEF OpOK, Goes, Is, At, Idle, Off, Undoing, Own, Journalled
  <2>2. ASSUME NEW w \in World, Holds(w), ~detached'
        PROVE  Holds(w)'
    <3>1. /\ OwnJournal(w) /\ settings.mark = nvs.mark
          /\ secret = op.goal.network /\ settings.network = secret
          /\ settings.ref = op.goal.ref
      BY <1>1, <2>2 DEF Holds, Transacts, MemoryCommitted, At, Own, Journalled
    <3>2. secret # w.network => op.undo.secret # None
      BY <1>1, <2>2, OwnIsPending DEF At, Journalled
    <3>3. /\ Acknowledged(w)' /\ MemoryCommitted' /\ Snapshots(w)' /\ CopiesAgree'
          /\ Covered(w)' /\ TornInside(w)' /\ Recovers(w)'
      BY <1>1, <1>4, <2>2, <3>1, <3>2, GoesOn DEF At, Journalled
    <3>4. OwnJournal(w)'
      BY <1>1, <1>4, <3>1 DEF OwnJournal, Goes, Is
    <3>5. OnlyOwn(Mounted)' /\ \A s \in Mounted' : journal'[op'.at][s] = op'.undo
      BY <1>1, <1>4, <2>2, OwnIsPending
         DEF OnlyOwn, PendingOn, Mounted, Goes, Is, At, Journalled
    <3>6. Transacts(w)'
      BY <1>1, <1>4, <3>1, <3>4, <3>5 DEF Transacts, OwnJournal, Goes, Is, At, Own, Journalled
    <3>7. QED
      BY <3>3, <3>6 DEF Holds
  <2>3. QED
    BY <1>3, <2>1, <2>2 DEF Keeps
<1>5. CASE RollsBack /\ profile' = profile
  <2>1. OpOK'
    <3>1. Undoes(op.undo)
      BY <1>1, <1>5, OpUndoes DEF RollsBack
    <3>2. QED
      BY <1>1, <3>1 DEF OpOK, Undoes, Is, At, Idle, Off, Undoing, Own, Journalled
  <2>2. ASSUME NEW w \in World, Holds(w), ~detached'
        PROVE  Holds(w)'
    BY <1>1, <1>5, <2>2, GoesBack DEF At, Journalled
  <2>3. QED
    BY <1>3, <2>1, <2>2 DEF Keeps
<1>6. QED
  BY <1>2, <1>4, <1>5

\* DeleteProfileKeeps: the deletion, a store that is busy, and a failed deletion.
LEMMA DeleteProfileKeeps == ASSUME TypeOK, OpOK, DeleteProfile PROVE Keeps
<1> DEFINE new == [ settings EXCEPT !.ref = FALSE ]
<1>1. /\ At("mutate") /\ op.kind = "delete" /\ op \in OpType
      /\ op.undo \in Journal /\ op.token # 0
      /\ UNCHANGED << mount, nvs, secret, journal, sequence, recovering, promise, detached >>
  BY DEF DeleteProfile, Kind, OpOK, At, Own, Journalled
<1>2. /\ new \in Settings /\ new.mark = settings.mark
      /\ new.network = settings.network /\ new.ref = FALSE
  BY DEF TypeOK, Settings
<1> HIDE DEF new
<1>3. \/ profile' = None /\ Goes("commit") /\ settings' = new
      \/ Goes("remove") /\ profile' = profile /\ settings' = settings
      \/ profile' \in { profile, None } /\ Goes("reresolve") /\ settings' = nvs
  BY <1>1, OpGoes DEF DeleteProfile, Reresolves, Steps, new
<1>4. TypeOK'
  BY <1>1, <1>2, <1>3 DEF TypeOK, Payload
<1>5. OpOK'
  BY <1>1, <1>3 DEF OpOK, Goes, Is, At, Idle, Off, Undoing, Own, Journalled
<1>6. ASSUME NEW w \in World, Holds(w), ~detached'
      PROVE  Holds(w)'
  <2>1. /\ OwnJournal(w) /\ settings = nvs /\ Intact(w)
    BY <1>1, <1>6 DEF Holds, Transacts, MemoryCommitted, At, Own, Journalled
  <2>2. secret = w.network /\ secret' = secret
    BY <1>1, <2>1 DEF Intact
  <2>3. OnlyOwn(Mounted)' /\ \A s \in Mounted' : journal'[op'.at][s] = op'.undo
    BY <1>1, <1>3, <1>6, OwnIsPending DEF OnlyOwn, PendingOn, Mounted, Goes, Is, At, Journalled
  <2>4. CASE profile' = None /\ Goes("commit") /\ settings' = new
    <3>1. /\ Acknowledged(w)' /\ MemoryCommitted' /\ Snapshots(w)' /\ CopiesAgree'
          /\ Covered(w)' /\ TornInside(w)' /\ Recovers(w)'
      BY <1>1, <1>2, <1>6, <2>1, <2>2, <2>4, GoesOn DEF At, Journalled
    <3>2. OwnJournal(w)'
      BY <1>1, <2>1, <2>4 DEF OwnJournal, Goes, Is
    <3>3. settings.network = w.network
      BY <1>6, <2>1 DEF Holds, Acknowledged
    <3>4. Transacts(w)'
      BY <1>1, <1>2, <2>2, <2>3, <2>4, <3>2, <3>3
         DEF Transacts, OwnJournal, Goes, Is, At, Own, Journalled
    <3>5. QED
      BY <3>1, <3>4 DEF Holds
  <2>5. CASE Goes("remove") /\ profile' = profile /\ settings' = settings
    <3>1. Acknowledged(w)' /\ Snapshots(w)' /\ CopiesAgree' /\ Covered(w)'
      BY <1>1, <1>6, <2>5, StoresKept
    <3>2. MemoryCommitted' /\ TornInside(w)' /\ Recovers(w)' /\ Transacts(w)'
      BY <1>1, <2>1, <2>5 DEF MemoryCommitted, TornInside, Intact, Recovers, Recovering, Undoing,
                             Transacts, Own, Journalled, Goes, Is, At
    <3>3. QED
      BY <3>1, <3>2 DEF Holds
  <2>6. CASE profile' \in { profile, None } /\ Goes("reresolve") /\ settings' = nvs
    <3>1. /\ Acknowledged(w)' /\ MemoryCommitted' /\ Snapshots(w)' /\ CopiesAgree'
          /\ Covered(w)' /\ TornInside(w)' /\ Recovers(w)'
      BY <1>1, <1>6, <2>1, <2>2, <2>6, GoesOn DEF At, Journalled, Holds, MemoryCommitted
    <3>2. Transacts(w)'
      BY <1>1, <2>1, <2>2, <2>3, <2>6 DEF Transacts, OwnJournal, Goes, Is, At, Own, Journalled
    <3>3. QED
      BY <3>1, <3>2 DEF Holds
  <2>7. QED
    BY <1>3, <2>4, <2>5, <2>6
<1>7. QED
  BY <1>4, <1>5, <1>6 DEF Keeps

\* CommitKeeps: the generation with the new watermark is the commit point.
LEMMA CommitKeeps == ASSUME TypeOK, OpOK, Commit PROVE Keeps
<1>1. /\ At("commit") /\ op.kind \in Kinds /\ op.at = op.kind /\ op \in OpType
      /\ op.undo \in Journal /\ op.token # 0 /\ op.token \in 0..MaxToken
      /\ UNCHANGED << mount, secret, profile, journal, sequence, recovering >>
  BY OpFields DEF Commit, OpOK, At, Own, Journalled
<1>2. LET new == Marked(settings) IN
      /\ new \in Settings /\ new.ref = settings.ref /\ new.network = settings.network
      /\ \A k \in Kinds : new.mark[k] = IF k = op.at THEN op.token ELSE settings.mark[k]
  BY <1>1, MarkSet DEF TypeOK, Marked
<1>3. WorldOf(profile, settings) \in World
  BY WorldMade DEF TypeOK
<1>4. \/ /\ settings' = Marked(settings) /\ nvs' = settings' /\ Goes("remove")
         /\ promise' = { WorldOf(profile, settings) } /\ detached' = (detached \/ Behind)
      \/ /\ UNCHANGED << nvs, promise, detached >>
         /\ \/ op.kind = "restore" /\ RollsBack
            \/ op.kind = "delete" /\ Goes("reresolve") /\ settings' = nvs
  BY <1>1, OpGoes DEF Commit, Acknowledges, Reresolves, Kind, Kinds, Steps
<1>5. TypeOK'
  <2>1. settings' \in Settings /\ nvs' \in Settings
    BY <1>2, <1>4 DEF RollsBack, TypeOK
  <2>2. promise' \subseteq World /\ detached' \in BOOLEAN
    BY <1>3, <1>4 DEF TypeOK, Behind
  <2>3. QED
    BY <1>1, <2>1, <2>2 DEF TypeOK
<1>6. OpOK'
  <2>1. CASE RollsBack
    <3>1. Undoes(op.undo)
      BY <1>1, <2>1, OpUndoes DEF RollsBack
    <3>2. QED
      BY <1>1, <3>1 DEF OpOK, Undoes, Is, At, Idle, Off, Undoing, Own, Journalled
  <2>2. CASE ~RollsBack
    BY <1>1, <1>4, <2>2 DEF OpOK, Goes, Is, At, Idle, Off, Undoing, Own, Journalled, Kinds
  <2>3. QED
    BY <2>1, <2>2
<1>7. ASSUME NEW w \in World, Holds(w), ~detached'
      PROVE  \E v \in World : Holds(v)'
  <2>1. /\ OwnJournal(w) /\ settings.mark = nvs.mark
        /\ op.kind = "restore" => /\ secret = op.goal.network /\ settings.network = secret
                                  /\ settings.ref = op.goal.ref
                                  /\ profile = op.goal.profile
        /\ op.kind = "delete" => ~settings.ref /\ settings.network = secret
    BY <1>1, <1>7 DEF Holds, Transacts, MemoryCommitted, At, Own, Journalled
  <2>2. CASE /\ settings' = Marked(settings) /\ nvs' = settings' /\ Goes("remove")
             /\ promise' = { WorldOf(profile, settings) }
    <3>1. PICK v \in World : v = WorldOf(profile, settings)
      BY <1>3
    <3>2. v.profile = profile /\ v.ref = settings.ref /\ v.network = settings.network
      BY <3>1, WorldMade DEF TypeOK
    <3>3. \A k \in Kinds, s \in Stores : ~PendingOn(s, k)'
      <4>1. ASSUME NEW k \in Kinds, NEW s \in Stores, PendingOn(s, k)' PROVE FALSE
        <5>1. journal[k][s] # None /\ journal[k][s].token > nvs'.mark[k]
          BY <1>1, <4>1 DEF PendingOn
        <5>2. k # op.at => PendingOn(s, k)
          BY <1>2, <2>1, <2>2, <5>1 DEF PendingOn
        <5>3. k = op.at
          BY <1>1, <1>7, <5>2, OwnIsPending DEF OnlyOwn, At, Journalled
        <5>4. journal[k][s].token \in Nat /\ nvs.mark[k] \in Nat
          BY <5>1, JournalFields, SettingsFields, TransactionAssumption DEF TypeOK
        <5>5. op.token > nvs.mark[k] /\ op.undo.token = op.token
          BY <2>1, <5>3 DEF OwnJournal
        <5>6. PendingOn(s, k)
          BY <1>1, <1>2, <2>2, <5>1, <5>3, <5>4, <5>5, TransactionAssumption DEF PendingOn
        <5>7. s \in Mounted
          BY <1>1, <1>7, <5>6, OwnIsPending DEF OnlyOwn, At, Journalled
        <5>8. journal[k][s] = op.undo
          BY <1>1, <1>7, <5>3, <5>7, OwnIsPending DEF At, Journalled
        <5>9. QED
          BY <1>1, <1>2, <2>2, <5>1, <5>3, <5>5, <5>8, TransactionAssumption
      <4>2. QED
        BY <4>1
    <3>4. Acknowledged(v)' /\ Intact(v)'
      BY <1>1, <1>2, <2>1, <2>2, <3>1, <3>2, OpFields
         DEF Acknowledged, Intact, OpOK, Kinds
    <3>5. MemoryCommitted' /\ Snapshots(v)' /\ CopiesAgree' /\ Covered(v)' /\ TornInside(v)'
      BY <2>2, <3>3, <3>4 DEF MemoryCommitted, Snapshots, CopiesAgree, Covered, TornInside,
                              Intact, Stores
    <3>6. Recovers(v)' /\ Transacts(v)'
      BY <1>1, <2>2, <3>4 DEF Goes, Is, Recovers, Recovering, Undoing, Transacts, Own, Journalled,
                              At, Kinds
    <3>7. QED
      BY <3>4, <3>5, <3>6 DEF Holds
  <2>3. CASE UNCHANGED << nvs, promise, detached >> /\ op.kind = "restore" /\ RollsBack
    BY <1>1, <1>7, <2>3, GoesBack DEF At, Journalled
  <2>4. CASE /\ UNCHANGED << nvs, promise, detached >> /\ op.kind = "delete"
             /\ Goes("reresolve") /\ settings' = nvs
    <3>1. /\ Acknowledged(w)' /\ MemoryCommitted' /\ Snapshots(w)' /\ CopiesAgree'
          /\ Covered(w)' /\ TornInside(w)' /\ Recovers(w)'
      BY <1>1, <1>7, <2>4, GoesOn, OwnIsPending DEF At, Journalled
    <3>2. OnlyOwn(Mounted)' /\ \A s \in Mounted' : journal'[op'.at][s] = op'.undo
      BY <1>1, <1>7, <2>4, OwnIsPending DEF OnlyOwn, PendingOn, Mounted, Goes, Is, At, Journalled
    <3>3. Transacts(w)'
      BY <1>1, <1>7, <2>1, <2>4, <3>2, OwnIsPending
         DEF Transacts, OwnJournal, Goes, Is, At, Own, Journalled
    <3>4. QED
      BY <3>1, <3>3 DEF Holds
  <2>5. QED
    BY <1>4, <2>2, <2>3, <2>4
<1>8. QED
  BY <1>5, <1>6, <1>7 DEF Keeps
-----------------------------------------------------------------------------
(* The theorem.                                                            *)

\* InitIInv: every device begins with whole stores and no journal.
LEMMA InitIInv == ASSUME Init PROVE IInv
<1>1. PICK n \in Networks, p \in Payload, r \in BOOLEAN :
        /\ nvs = [ ref |-> r /\ p # None, network |-> n, mark |-> [ k \in Kinds |-> 0 ] ]
        /\ secret = n /\ profile = p
  BY DEF Init
<1>2. nvs \in Settings /\ settings = nvs /\ nvs.network = n /\ (nvs.ref => p # None)
  <2>1. [ k \in Kinds |-> 0 ] \in [ Kinds -> 0..MaxToken ]
    BY TransactionAssumption
  <2>2. (r /\ p # None) \in BOOLEAN
    OBVIOUS
  <2>3. nvs \in Settings
    BY <1>1, <2>1, <2>2 DEF Settings
  <2>4. QED
    BY <1>1, <2>3 DEF Init
<1>3. PICK w \in World : w = Now
  BY <1>1, <1>2, WorldMade DEF Now
<1>4. w.profile = profile /\ w.ref = nvs.ref /\ w.network = nvs.network
  BY <1>1, <1>2, <1>3, WorldMade DEF Now
<1>5. TypeOK
  <2>1. journal \in [ Kinds -> [ Stores -> Journal \cup { None } ] ]
    BY DEF Init
  <2>2. sequence \in [ Kinds -> 0..MaxToken ]
    BY TransactionAssumption DEF Init
  <2>3. QED
    BY <1>1, <1>2, <1>3, <2>1, <2>2 DEF Init, TypeOK
<1>6. op = NoOp /\ mount = "off" /\ promise = { w } /\ \A k \in Kinds, s \in Stores : ~PendingOn(s, k)
  BY <1>3 DEF Init, PendingOn
<1>7. OpOK
  BY <1>6, OpNone DEF OpOK, Is, At, Off, Idle, Undoing, Own, Journalled
<1>8. Acknowledged(w) /\ Intact(w)
  BY <1>1, <1>2, <1>4, <1>6 DEF Acknowledged, Intact
<1>9. MemoryCommitted /\ Snapshots(w) /\ CopiesAgree /\ Covered(w) /\ TornInside(w)
  BY <1>2, <1>6, <1>8 DEF MemoryCommitted, Snapshots, CopiesAgree, Covered, TornInside, Intact, Stores
<1>10. Recovers(w) /\ Transacts(w)
  BY <1>6, OpNone DEF Is, Recovers, Recovering, Undoing, Transacts, Own, Journalled, At
<1>11. QED
  BY <1>5, <1>7, <1>8, <1>9, <1>10 DEF IInv, Holds

\* BehindIsRemembered: what was changed behind a journal stays changed.
LEMMA BehindIsRemembered == ASSUME Next PROVE detached => detached'
<1>1. CASE Working
  <2>1. CASE Resolve \/ UndoSecret \/ UndoProfile \/ Remove \/ Allocate
    BY <2>1 DEF Resolve, UndoSecret, UndoProfile, Remove, Allocate
  <2>2. CASE WriteJournal \/ MirrorJournal \/ RestoreSecret \/ RestoreProfile \/ DeleteProfile
    BY <2>2 DEF WriteJournal, MirrorJournal, RestoreSecret, RestoreProfile, DeleteProfile
  <2>3. CASE Reresolve \/ Commit \/ SaveProfile \/ AssignSlot \/ Validate \/ Recover
    BY <2>3 DEF Reresolve, Commit, SaveProfile, AssignSlot, Validate, Recover, Acknowledges
  <2>4. QED
    BY <1>1, <2>1, <2>2, <2>3 DEF Working
<1>2. ASSUME NEW m, Boot(m) PROVE detached' = detached
  BY <1>2 DEF Boot
<1>3. ASSUME NEW k, NEW g, Ask(k, g) PROVE detached' = detached
  BY <1>3 DEF Ask
<1>4. (PowerLoss => detached' = detached) /\ (PowerOff => detached' = detached)
  BY DEF PowerLoss, PowerOff, disks
<1>5. QED
  BY <1>1, <1>2, <1>3, <1>4 DEF Next, Restore, Delete, Assign, Save

\* StepIInv: every step keeps the invariant; a change behind a journal is remembered.
LEMMA StepIInv == ASSUME IInv, [Next]_vars PROVE IInv'
<1>1. CASE UNCHANGED vars
  BY <1>1 DEF vars, IInv, TypeOK, OpOK, At, Off, Idle, Holds, Acknowledged, MemoryCommitted, Snapshots,
              CopiesAgree, Covered, TornInside, Recovers, Transacts, OwnJournal, OnlyOwn, Intact,
              NonePending, PendingOn, Mounted
<1>2. ASSUME Next PROVE Keeps
  <2> USE <1>2
  <2>1. TypeOK /\ OpOK
    BY DEF IInv
  <2>2. CASE Working
    <3>1. CASE Recover
      <4>1. Idle /\ Starts /\ mount \in { "both", "flash" }
        BY <2>1, <3>1 DEF Recover, Off, TypeOK
      <4>2. UNCHANGED << mount, settings, nvs, secret, profile, journal, sequence, promise, detached >>
        BY <3>1 DEF Recover, disks
      <4>3. QED
        BY <2>1, <4>1, <4>2, StartsKeeps
    <3>2. QED
      BY <2>1, <2>2, <3>1, ResolveKeeps, UndoSecretKeeps, UndoProfileKeeps, RemoveKeeps,
         AllocateKeeps, WriteJournalKeeps, MirrorJournalKeeps, RestoreSecretKeeps,
         RestoreProfileKeeps, DeleteProfileKeeps, ReresolveKeeps, CommitKeeps, SaveProfileKeeps,
         AssignSlotKeeps, ValidateKeeps DEF Working
  <2>3. ASSUME NEW m \in { "both", "flash" }, Boot(m) PROVE Keeps
    BY <2>1, <2>3, StartsKeeps DEF Boot, disks, OpOK
  <2>4. ASSUME NEW x \in Documents, Restore(x) PROVE Keeps
    <3>1. x \in World /\ (x.ref => x.profile # None)
      BY DEF Documents
    <3>2. QED
      BY <2>1, <2>4, <3>1, AskKeeps DEF Restore, Askable, OpKinds
  <2>5. CASE Delete
    <3>1. Askable("delete", None)
      BY DEF Askable, OpKinds
    <3>2. QED
      BY <2>1, <2>5, <3>1, AskKeeps DEF Delete
  <2>6. Now \in World
    BY <2>1, WorldMade DEF Now, TypeOK
  <2>7. CASE Assign
    <3>1. [ Now EXCEPT !.ref = TRUE ] \in World
      BY <2>6 DEF World
    <3>2. Askable("assign", [ Now EXCEPT !.ref = TRUE ])
      BY <2>7, <3>1 DEF Askable, OpKinds, Assign
    <3>3. QED
      BY <2>1, <2>7, <3>2, AskKeeps DEF Assign
  <2>8. ASSUME NEW c \in Contents, Save(c) PROVE Keeps
    <3>1. [ Now EXCEPT !.profile = c ] \in World /\ [ Now EXCEPT !.profile = c ].profile # None
      BY <2>6, TransactionAssumption DEF World, Payload
    <3>2. QED
      BY <2>1, <2>8, <3>1, AskKeeps DEF Save, Askable, OpKinds
  <2>9. ASSUME PowerLoss \/ PowerOff PROVE Keeps
    BY <2>1, <2>9, OffKeeps
  <2>10. QED
    BY <2>2, <2>3, <2>4, <2>5, <2>7, <2>8, <2>9 DEF Next
<1>3. QED
  BY <1>1, <1>2, BehindIsRemembered DEF Keeps, IInv

\* SafeWhenReady: no recovery is due only when the stores are whole.
LEMMA SafeWhenReady == ASSUME IInv PROVE TransactionsSafe
<1>1. TypeOK /\ OpOK
  BY DEF IInv
<1>2. AllOrNothing
  <2>1. SUFFICES ASSUME ~detached, Ready PROVE Now \in promise /\ secret = nvs.network
    BY DEF AllOrNothing, NoTornTransaction
  <2>2. PICK w \in World : Holds(w)
    BY <2>1 DEF IInv
  <2>3. Intact(w)
    BY <1>1, <2>1, <2>2 DEF Ready, Holds, TornInside, OpOK, Idle, Kinds
  <2>4. Now = w
    <3>1. Now.profile = w.profile /\ Now.ref = w.ref /\ Now.network = w.network /\ Now \in World
      BY <1>1, <2>2, <2>3, WorldMade DEF Now, TypeOK, Holds, Acknowledged, Intact
    <3>2. QED
      BY <3>1 DEF World
  <2>5. QED
    BY <2>2, <2>3, <2>4 DEF Holds, Acknowledged, Intact
<1>3. NeverAmbiguous
  BY <1>1, NotAmbiguous, OpFields DEF NeverAmbiguous, IInv, Holds, OpOK
<1>4. QED
  BY <1>1, <1>2, <1>3 DEF TransactionsSafe

\* TransactionsSafeAlways: when no recovery is due, the password store, the profile store
\* and the settings together hold one acknowledged state, and two journals that wait never
\* disagree (settings_backup_doc.cpp, resolveMirroredTransactionJournal), whatever fails
\* and wherever power is lost, unless a change was made behind a journal on a card that
\* was taken out.
THEOREM TransactionsSafeAlways == Spec => []TransactionsSafe
<1>1. Init => IInv
  BY InitIInv
<1>2. IInv /\ [Next]_vars => IInv'
  BY StepIInv
<1>3. IInv => TransactionsSafe
  BY SafeWhenReady
<1>4. QED
  BY <1>1, <1>2, <1>3, PTL DEF Spec
=============================================================================
