--------------------------- MODULE WifiCredentials ---------------------------
(***************************************************************************)
(* The saved Wi-Fi networks (settings_nvs.cpp, wifi_client.cpp).           *)
(*                                                                         *)
(* The network name of a slot is part of the settings, which survive as a  *)
(* register (SettingsStore).  Its password is a key of another flash       *)
(* namespace, mirrored in a file of the SD card.  A mutation writes a      *)
(* journal, the password, the mirror and the settings, in that order; what *)
(* a reset or a failed undo leaves behind is settled later, from the       *)
(* journal and from the generation marker the settings carry.              *)
(*                                                                         *)
(* Every write may fail and power may be lost between any two of them.     *)
(***************************************************************************)
EXTENDS Naturals, FiniteSets

CONSTANTS
    Slots,           \* indices of the slots; naturals, as in the code
    Networks,        \* network names
    Passwords,       \* non-empty passwords
    None,            \* the name of an unused slot
    Open,            \* the empty password of an open network
    Absent,          \* a password key that does not exist, unlike any password
    MaxGeneration,   \* the largest settings generation
    Media,           \* what a boot can mount: "card", "flash" or "none"
    Upgraded         \* TRUE: slots of older firmware may have no password key

ASSUME CredentialsAssumption ==
    /\ None \notin Networks /\ Absent \notin Passwords \cup { Open }
    /\ MaxGeneration \in Nat \ { 0 }
    /\ \A S \in SUBSET Slots : S # {} => \E i \in S : \A j \in S : i <= j

VARIABLES
    stored,       \* the committed settings: generation, marker, network of each slot
    ram,          \* settings_ and wifiCredentialCommitGeneration_
    key,          \* the password key of each slot
    card,         \* the pair each entry of the SD card's secret file holds
    media,        \* what this boot has mounted
    journal,      \* the pending transaction, if its ready key is set
    txn,          \* the running call
    recovering,   \* profileReferenceRecoveryPending_: the boot could not settle
    answer        \* what the last mutation returned

vars == << stored, ram, key, card, media, journal, txn, recovering, answer >>

-----------------------------------------------------------------------------
(* Pairs, the secret file and the recoverable password.                    *)

Secrets == Passwords \cup { Open }
NoPair == << None, Open >>
Pairs == (Networks \X Secrets) \cup { NoPair }
Net(pair) == pair[1]
Pass(pair) == pair[2]

Lowest(S) == CHOOSE i \in S : \A j \in S : i <= j

(* The entry of a network: the one at the slot's index, else the first. *)
OnCard(i, net) ==
    LET found == { j \in Slots : Net(card[j]) = net }
    IN  IF found = {} THEN {} ELSE { Pass(card[IF i \in found THEN i ELSE Lowest(found)]) }

(* Password of slot i, given its network and key, once the card is there. *)
Recoverable(i, net, k) ==
    IF net = None THEN Open
    ELSE IF k # Absent THEN k
    ELSE IF OnCard(i, net) = {} THEN Open ELSE CHOOSE p \in OnCard(i, net) : TRUE

SaveOnCard(i, pair) ==
    [j \in Slots |-> IF j = i THEN pair
                     ELSE IF Net(card[j]) = Net(pair) THEN NoPair ELSE card[j]]

RemoveFromCard(i, net) ==
    [j \in Slots |-> IF j = i \/ Net(card[j]) = net THEN NoPair ELSE card[j]]

(* A key is kept for every configured slot, an empty one for open networks. *)
AlwaysKey(pair, configured) == Pass(pair)
KeyFor(pair, configured) ==
    IF configured \/ Pass(pair) # Open THEN Pass(pair) ELSE Absent

-----------------------------------------------------------------------------
(* The journal.                                                            *)

NoJournal == [mode |-> "none"]
Pending == journal.mode # "none"
Covered == DOMAIN journal.old

Configured == { i \in Slots : ram.net[i] # None }

(* Whether the settings of the transaction in the journal were committed. *)
Committed(j) ==
    IF j.mode = "one" THEN ram.marker = j.generation ELSE Configured = {}

Outcome(i) == IF Committed(journal) THEN journal.new[i] ELSE journal.old[i]

(* Its old password was only on a card that was not there: it stays there. *)
LeftOnCard(i) == ~Committed(journal) /\ i \in journal.unknown

(* The journal does not fit the settings that were loaded. *)
Mismatch ==
    IF journal.mode = "one"
    THEN \E i \in Covered : ram.net[i] # Net(Outcome(i))
    ELSE ~Committed(journal) /\ \E i \in Covered : ram.net[i] # Net(journal.old[i])

-----------------------------------------------------------------------------
(* Calls.                                                                  *)

Idle == [step |-> "idle"]
Running == txn.step # "idle"
At(step) == txn.step = step
To(step) == txn' = [txn EXCEPT !.step = step]

Call(kind, new, step) ==
    txn' = [step |-> step, kind |-> kind, new |-> new, before |-> << >>,
            cardToo |-> FALSE, intact |-> TRUE]

Return(reply) ==
    /\ txn' = Idle
    /\ answer' = IF txn.kind = "recover" THEN answer ELSE reply

(* A mutation settles the journal of an earlier one before anything else; *)
(* with none left, the recovery of the boot is over.                      *)
Ask(kind, new) ==
    /\ ~Running
    /\ Call(kind, new, IF Pending THEN "resolveKeys" ELSE "journal")
    /\ answer' = "none" /\ recovering' = (recovering /\ Pending)
    /\ UNCHANGED << stored, ram, card, media, journal >>

(* The card has one entry for a network: two slots may share it only if     *)
(* none of them depends on the card.                                       *)
Nameable(i, net) == Upgraded => \A j \in Slots \ { i } : ram.net[j] # net

(* getWifiStaSlotPassword: what the station uses, and what an edit of the *)
(* label or the priority passes on as the password it keeps.              *)
ReadPassword(i) ==
    IF key[i] = Absent /\ media # "card" THEN Open
    ELSE Recoverable(i, ram.net[i], key[i])

(* A password found only on the card is copied to the key by the read. *)
Heals(i) ==
    /\ key[i] = Absent /\ ram.net[i] # None /\ ReadPassword(i) # Open
    /\ key' = [key EXCEPT ![i] = ReadPassword(i)]

Connect(i) ==
    /\ ~Running /\ Heals(i)
    /\ UNCHANGED << stored, ram, card, media, journal, txn, recovering, answer >>

EditWith(i, pass) == Ask("edit", [s \in { i } |-> << ram.net[i], pass >>])

(* An edit without a password reads it before the journal is settled; a     *)
(* card that cannot be read yields the empty password.                      *)
EditLabel(i) ==
    /\ i \in Configured
    /\ \/ EditWith(i, ReadPassword(i)) /\ (Heals(i) \/ UNCHANGED key)
       \/ key[i] = Absent /\ EditWith(i, Open) /\ UNCHANGED key

SetSlot(i, net, pass) ==
    /\ Nameable(i, net)
    /\ Ask("set", [s \in { i } |-> << net, pass >>])
    /\ UNCHANGED key

ClearSlot(i) == Ask("clear", [s \in { i } |-> NoPair]) /\ UNCHANGED key

ForgetAll == Ask("forget", [s \in Slots |-> NoPair]) /\ UNCHANGED key

-----------------------------------------------------------------------------
(* resolveWifiCredentialTransaction.                                       *)

(* Any later call tries again while the recovery of the boot is pending. *)
Recover ==
    /\ ~Running
    /\ IF Pending THEN Call("recover", << >>, "resolveKeys") /\ UNCHANGED recovering
       ELSE recovering /\ recovering' = FALSE /\ UNCHANGED txn
    /\ UNCHANGED << stored, ram, key, card, media, journal, answer >>

Unresolved ==
    /\ Return("failed")
    /\ UNCHANGED << stored, ram, card, media, journal, recovering >>

Settled(i) == IF LeftOnCard(i) THEN Absent ELSE KeyFor(Outcome(i), ram.net[i] # None)

ResolveKeys ==
    /\ At("resolveKeys") /\ ~Mismatch
    /\ key' = [i \in Slots |-> IF i \in Covered THEN Settled(i) ELSE key[i]]
    /\ To("resolveCard")
    /\ UNCHANGED << stored, ram, card, media, journal, recovering, answer >>

ResolveKeysFails ==
    /\ At("resolveKeys")
    /\ \E W \in SUBSET Covered :
         /\ Mismatch /\ journal.mode = "one" => W = {}
         /\ key' = [i \in Slots |-> IF i \in W THEN Settled(i) ELSE key[i]]
    /\ Unresolved

(* Nothing on the card belongs to the transaction, or no card can hold it. *)
NeedsCard == \E i \in Covered : LeftOnCard(i)
CardResolved ==
    \/ \E i \in Covered : LeftOnCard(i)
    \/ media = "flash"

SettledCard ==
    IF journal.mode = "all" THEN [i \in Slots |-> Outcome(i)]
    ELSE LET i == CHOOSE s \in Covered : TRUE
             other == IF Committed(journal) THEN journal.old[i] ELSE journal.new[i]
         IN  IF ram.net[i] # None THEN SaveOnCard(i, Outcome(i))
             ELSE RemoveFromCard(i, Net(other))

ResolveCard ==
    /\ At("resolveCard")
    /\ \/ CardResolved /\ UNCHANGED card
       \/ ~CardResolved /\ media = "card" /\ card' = SettledCard
    /\ To("resolveClear")
    /\ UNCHANGED << stored, ram, key, media, journal, recovering, answer >>

ResolveCardFails ==
    /\ At("resolveCard") /\ ~CardResolved
    /\ Unresolved /\ UNCHANGED key

ResolveClear ==
    /\ At("resolveClear")
    /\ journal' = NoJournal /\ recovering' = FALSE
    /\ IF txn.kind = "recover" THEN txn' = Idle ELSE To("journal")
    /\ UNCHANGED << stored, ram, key, card, media, answer >>

(* The ready key may be gone although its removal was reported failed. *)
ResolveClearFails ==
    /\ At("resolveClear")
    /\ journal' \in { journal, NoJournal }
    /\ Return("failed")
    /\ UNCHANGED << stored, ram, key, card, media, recovering >>

-----------------------------------------------------------------------------
(* setWifiStaSlotCredentials, clearWifiStaSlot, clearWifiClientCredentials. *)

Target == DOMAIN txn.new

(* The password to roll back to: without key and card it is not known. *)
OldPair(i) == << ram.net[i], ReadPassword(i) >>
Unknown(i) == key[i] = Absent /\ ram.net[i] # None /\ media # "card"

Entry ==
    [mode |-> IF txn.kind = "forget" THEN "all" ELSE "one",
     generation |-> IF txn.kind = "forget" THEN 0 ELSE stored.generation + 1,
     old |-> [i \in Target |-> OldPair(i)],
     new |-> txn.new,
     unknown |-> { i \in Target : Unknown(i) }]

NothingToForget ==
    txn.kind = "forget" /\ Configured = {} /\ \A i \in Slots : key[i] = Absent

CanCommit == txn.kind = "forget" \/ stored.generation < MaxGeneration

WriteJournal ==
    /\ At("journal") /\ ~NothingToForget /\ CanCommit
    /\ journal' = Entry
    /\ txn' = [txn EXCEPT !.step = "keys", !.before = key]
    /\ UNCHANGED << stored, ram, key, card, media, recovering, answer >>

(* The ready key may be set although its verification failed. *)
WriteJournalFails ==
    /\ At("journal") /\ ~NothingToForget
    /\ journal' \in { journal } \cup (IF CanCommit THEN { Entry } ELSE {})
    /\ Return("failed")
    /\ UNCHANGED << stored, ram, key, card, media, recovering >>

AlreadyForgotten ==
    /\ At("journal") /\ NothingToForget
    /\ Return("ok")
    /\ UNCHANGED << stored, ram, key, card, media, journal, recovering >>

Candidate(i) == KeyFor(txn.new[i], Net(txn.new[i]) # None)

StoreKeys ==
    /\ At("keys")
    /\ key' = [i \in Slots |-> IF i \in Target THEN Candidate(i) ELSE key[i]]
    /\ To("card")
    /\ UNCHANGED << stored, ram, card, media, journal, recovering, answer >>

Undo(cardToo) == txn' = [txn EXCEPT !.step = "undoKeys", !.cardToo = cardToo]

StoreKeysFails ==
    /\ At("keys")
    /\ \E W \in SUBSET Target :
         key' = [i \in Slots |-> IF i \in W THEN Candidate(i) ELSE key[i]]
    /\ Undo(txn.kind = "forget")
    /\ UNCHANGED << stored, ram, card, media, journal, recovering, answer >>

Only(S) == CHOOSE s \in S : TRUE

(* The secret file after the mutation, and after it was undone. *)
NewCard ==
    LET i == Only(Target)
    IN  IF txn.kind \in { "set", "edit" } THEN SaveOnCard(i, txn.new[i])
        ELSE IF Configured \subseteq Target THEN [j \in Slots |-> NoPair]
        ELSE RemoveFromCard(i, ram.net[i])

OldCard ==
    LET i == Only(Target)
    IN  IF txn.kind = "forget"
        THEN IF journal.unknown # {} THEN card ELSE journal.old
        ELSE IF ram.net[i] # None THEN SaveOnCard(i, journal.old[i])
        ELSE IF txn.kind = "clear" THEN card ELSE RemoveFromCard(i, Net(txn.new[i]))

StoreCard ==
    /\ At("card")
    /\ card' = IF media = "card" THEN NewCard ELSE card
    /\ To("commit")
    /\ UNCHANGED << stored, ram, key, media, journal, recovering, answer >>

StoreCardFails ==
    /\ At("card") /\ media = "card"
    /\ Undo(TRUE)
    /\ UNCHANGED << stored, ram, key, card, media, journal, recovering, answer >>

OldMarker == ram.marker
Marker == IF txn.kind = "forget" THEN ram.marker ELSE journal.generation

NewNet == [i \in Slots |-> IF i \in Target THEN Net(txn.new[i]) ELSE ram.net[i]]

CommitSettings ==
    /\ At("commit") /\ stored.generation < MaxGeneration
    /\ ram' = [marker |-> Marker, net |-> NewNet]
    /\ stored' = [generation |-> stored.generation + 1, marker |-> Marker, net |-> NewNet]
    /\ To("clear")
    /\ UNCHANGED << key, card, media, journal, recovering, answer >>

CommitSettingsFails ==
    /\ At("commit")
    /\ Undo(TRUE)
    /\ UNCHANGED << stored, ram, key, card, media, journal, recovering, answer >>

(* A commit is a success whether or not its journal could be removed. *)
ClearJournal ==
    /\ At("clear")
    /\ journal' \in { journal, NoJournal }
    /\ Return("ok")
    /\ UNCHANGED << stored, ram, key, card, media, recovering >>

AfterUndo(intact) ==
    IF intact THEN txn' = [txn EXCEPT !.step = "undoClear"] /\ UNCHANGED answer
    ELSE Return("failed")

UndoKeys ==
    /\ At("undoKeys")
    /\ \E W \in SUBSET Target, ok \in BOOLEAN :
         /\ ok => W = Target
         /\ key' = [i \in Slots |-> IF i \in W THEN txn.before[i] ELSE key[i]]
         /\ IF txn.cardToo
            THEN txn' = [txn EXCEPT !.step = "undoCard", !.intact = ok] /\ UNCHANGED answer
            ELSE AfterUndo(ok)
    /\ UNCHANGED << stored, ram, card, media, journal, recovering >>

UndoCard ==
    /\ At("undoCard")
    /\ card' = IF media = "card" THEN OldCard ELSE card
    /\ AfterUndo(txn.intact)
    /\ UNCHANGED << stored, ram, key, media, journal, recovering >>

UndoCardFails ==
    /\ At("undoCard") /\ media = "card"
    /\ Return("failed")
    /\ UNCHANGED << stored, ram, key, card, media, journal, recovering >>

UndoClear ==
    /\ At("undoClear")
    /\ journal' \in { journal, NoJournal }
    /\ Return("failed")
    /\ UNCHANGED << stored, ram, key, card, media, recovering >>

-----------------------------------------------------------------------------
(* The rest of the system.                                                 *)

(* Any other setting is saved: a new generation that keeps the marker. *)
SaveOther ==
    /\ ~Running /\ ~recovering
    /\ stored.generation < MaxGeneration
    /\ stored' = [generation |-> stored.generation + 1, marker |-> ram.marker, net |-> ram.net]
    /\ UNCHANGED << ram, key, card, media, journal, txn, recovering, answer >>

(* The next boot loads the settings, has some storage mounted and settles   *)
(* what is pending before anything else.                                   *)
PowerLoss ==
    /\ ram' = [marker |-> stored.marker, net |-> stored.net]
    /\ media' \in Media
    /\ answer' = "none" /\ recovering' = Pending
    /\ IF Pending THEN Call("recover", << >>, "resolveKeys") ELSE txn' = Idle
    /\ UNCHANGED << stored, key, card, journal >>

Init ==
    /\ \E net \in [Slots -> Networks \cup { None }] :
         /\ ram = [marker |-> 0, net |-> net]
         /\ stored = [generation |-> 1, marker |-> 0, net |-> net]
         /\ \E pass \in [Slots -> Secrets], kept \in SUBSET Slots :
              /\ \A i \in Slots : net[i] = None => pass[i] = Open
              /\ Upgraded \/ kept = Slots
              /\ key = [i \in Slots |-> IF i \in kept /\ net[i] # None THEN pass[i] ELSE Absent]
              /\ card = [i \in Slots |-> << net[i], pass[i] >>]
         /\ \A i, j \in Slots : i # j /\ net[i] # None => net[i] # net[j]
    /\ media \in Media
    /\ journal = NoJournal /\ txn = Idle /\ recovering = FALSE /\ answer = "none"

Resolving ==
    \/ Recover
    \/ ResolveKeys \/ ResolveKeysFails
    \/ ResolveCard \/ ResolveCardFails
    \/ ResolveClear \/ ResolveClearFails

Mutating ==
    \/ WriteJournal \/ WriteJournalFails \/ AlreadyForgotten
    \/ StoreKeys \/ StoreKeysFails
    \/ StoreCard \/ StoreCardFails
    \/ CommitSettings \/ CommitSettingsFails
    \/ ClearJournal
    \/ UndoKeys \/ UndoCard \/ UndoCardFails \/ UndoClear

Next ==
    \/ \E i \in Slots, net \in Networks, pass \in Secrets : SetSlot(i, net, pass)
    \/ \E i \in Slots : EditLabel(i) \/ ClearSlot(i) \/ Connect(i)
    \/ ForgetAll
    \/ Resolving \/ Mutating
    \/ SaveOther \/ PowerLoss

Spec == Init /\ [][Next]_vars

(* A call runs to its end, and a write that is tried again and again, by    *)
(* every boot, timed retry and mutation, succeeds at last.                  *)
Fairness ==
    /\ WF_vars(Mutating) /\ WF_vars(Resolving)
    /\ SF_vars(Recover) /\ SF_vars(ResolveKeys) /\ SF_vars(ResolveCard) /\ SF_vars(ResolveClear)

LiveSpec == Spec /\ Fairness

-----------------------------------------------------------------------------
(* Properties.                                                             *)

(* Every pending transaction is settled while some storage is mounted: no   *)
(* order of failures, resets and mutations leaves a journal that refuses    *)
(* every later edit of the networks (resolveWifiCredentialTransaction).     *)
JournalSettles == []<>(~Pending)

TxnOK ==
    \/ txn = Idle
    \/ /\ txn.kind \in { "recover", "set", "edit", "clear", "forget" }
       /\ txn.before \in [Slots -> Secrets \cup { Absent }] \cup { << >> }
       /\ txn.cardToo \in BOOLEAN /\ txn.intact \in BOOLEAN
       /\ txn.kind # "recover" => txn.new \in [Target -> Pairs]

JournalOK ==
    \/ journal = NoJournal
    \/ /\ journal.mode \in { "one", "all" }
       /\ journal.generation \in 0..MaxGeneration
       /\ journal.old \in [Covered -> Pairs] /\ journal.new \in [Covered -> Pairs]
       /\ journal.unknown \subseteq Covered
       /\ journal.mode = "one" => Cardinality(Covered) = 1

(* Every variable has its type; the generations stay within their width     *)
(* (settings_nvs.cpp getActiveNamespace, setWifiStaSlotCredentials).        *)
TypeOK ==
    /\ stored.generation \in 1..MaxGeneration
    /\ stored.marker \in 0..stored.generation /\ ram.marker \in 0..stored.generation
    /\ stored.net \in [Slots -> Networks \cup { None }] /\ ram.net \in [Slots -> Networks \cup { None }]
    /\ key \in [Slots -> Secrets \cup { Absent }]
    /\ card \in [Slots -> Pairs]
    /\ media \in Media /\ recovering \in BOOLEAN /\ answer \in { "none", "ok", "failed" }
    /\ TxnOK /\ JournalOK

(* The journal that waits to be settled always fits the settings: its       *)
(* marker decides between the two networks, and the slot names that one.    *)
(* Otherwise resolveWifiCredentialTransaction defers for ever and every     *)
(* later edit of the networks is refused.                                   *)
JournalFits == Pending => ~Mismatch

(* Once a mutation is settled, no password of a removed network is left in  *)
(* flash (storeWifiPasswordCandidate, restoreWifiPasswordNvsSnapshot).      *)
ForgottenKeysGone ==
    ~Running /\ ~Pending => \A i \in Slots : ram.net[i] = None => key[i] = Absent

(* What every call and every boot finds: types, a journal that can be       *)
(* settled, and no leftover password.                                       *)
CredentialsSafe == TypeOK /\ JournalFits /\ ForgottenKeysGone

(* The pair a slot would be connected with after its journal is settled.    *)
Settles(i) ==
    LET net == ram.net[i]
    IN  IF ~Pending \/ i \notin Covered THEN << net, Recoverable(i, net, key[i]) >>
        ELSE IF LeftOnCard(i) THEN << net, Recoverable(i, net, Absent) >>
        ELSE << net, Pass(Outcome(i)) >>

vault == [i \in Slots |-> Settles(i)]

Granted == At("clear")
Wanted ==
    IF ~Running THEN {}
    ELSE IF txn.kind = "recover" THEN {}
    ELSE { [i \in Slots |-> IF i \in Target THEN txn.new[i] ELSE vault[i]] }

Vault == INSTANCE CredentialVault WITH
    vault <- vault, wanted <- Wanted, granted <- Granted, answer <- answer

(* Journal, keys, secret file and settings together are the vault the       *)
(* callers rely on: network and password change as one, at the commit of    *)
(* the settings, whatever fails, is undone half-way or is cut off; the      *)
(* other slots keep theirs, and the answer tells the truth.                 *)
ImplementsVault == Vault!Spec
VaultStep == [Vault!Next]_Vault!vars

(* An edit that gives no password leaves the pair of the slot as it is      *)
(* (wifi_client.cpp upsertSavedNetwork).                                    *)
EditKeepsPassword == [][Running /\ txn.kind = "edit" => vault' = vault]_vars

=============================================================================
