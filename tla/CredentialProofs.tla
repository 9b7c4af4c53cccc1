-------------------------- MODULE CredentialProofs --------------------------
(***************************************************************************)
(* The saved networks implement the abstract vault, their journal can      *)
(* always be settled, and no password of a removed network stays: for any  *)
(* slots, networks, passwords and storage, through any number of calls,    *)
(* failed writes and power losses.                                         *)
(*                                                                         *)
(* None of them is inductive.  What carries them is which of the three     *)
(* places answers for a password at each step of a call: the key, the      *)
(* journal, or an entry of the card that lies at the index of its slot.    *)
(***************************************************************************)
EXTENDS WifiCredentials, FiniteSetTheorems, TLAPS

(* The steps of a call.                                                    *)
Settling == { "resolveKeys", "resolveCard", "resolveClear" }
Storing == { "keys", "card", "commit" }
Undoing == { "undoKeys", "undoCard", "undoClear" }
Writing == Storing \cup Undoing
Steps == Settling \cup Writing \cup { "journal", "clear" }
Kinds == { "recover", "set", "edit", "clear", "forget" }

Names == Networks \cup { None }
Contents == UNION { [T -> Pairs] : T \in SUBSET Slots }
Keys == [Slots -> Secrets \cup { Absent }]
Transactions ==
    [ step : Steps, kind : Kinds, new : Contents, before : Keys \cup { << >> },
      cardToo : BOOLEAN, intact : BOOLEAN ]
Journals ==
    [ mode : { "one", "all" }, generation : 0..MaxGeneration, old : Contents,
      new : Contents, unknown : SUBSET Slots ]

(* Types; memory is what is committed.                                     *)
SettingsOK ==
    /\ stored \in [ generation : 1..MaxGeneration, marker : 0..MaxGeneration,
                    net : [Slots -> Names] ]
    /\ ram \in [ marker : 0..MaxGeneration, net : [Slots -> Names] ]
    /\ stored.marker = ram.marker /\ stored.net = ram.net
    /\ ram.marker <= stored.generation
PlacesOK == key \in Keys /\ card \in [Slots -> Pairs] /\ media \in Media
RepliesOK == recovering \in BOOLEAN /\ answer \in { "none", "ok", "failed" }

(* No other slot names a network that f gives to a slot: the card has one  *)
(* entry for it.                                                           *)
Apart(f) ==
    Upgraded => \A i \in DOMAIN f, j \in Slots \ DOMAIN f :
                   ram.net[j] # None => ram.net[j] # Net(f[i])
NamesApart ==
    Upgraded => \A i, j \in Slots : i # j /\ ram.net[i] # None => ram.net[i] # ram.net[j]

(* What a call asks for.                                                   *)
CallOK ==
    txn = Idle \/
    /\ txn \in Transactions
    /\ txn.kind = "recover" => txn.step \in Settling
    /\ txn.kind \in { "set", "edit", "clear" } => \E i \in Slots : Target = { i }
    /\ txn.kind \in { "set", "edit" } => \A i \in Target : Net(txn.new[i]) # None
    /\ txn.kind \in { "clear", "forget" } => \A i \in Target : txn.new[i] = NoPair
    /\ txn.kind = "forget" => Target = Slots
    /\ txn.kind # "recover" => Apart(txn.new)

(* A pending journal fits the settings and concerns one slot or all.       *)
JournalTells ==
    journal = NoJournal \/
    /\ journal \in Journals
    /\ DOMAIN journal.new = Covered /\ journal.unknown \subseteq Covered
    /\ journal.mode = "one" => \E i \in Slots : Covered = { i }
    /\ journal.mode = "all" => Covered = Slots /\ \A i \in Slots : journal.new[i] = NoPair
    /\ Apart(journal.old) /\ Apart(journal.new)
    /\ \A i \in Covered : ram.net[i] = Net(Outcome(i))

(* From its journal to the removal of it, a call works on that journal,    *)
(* and the settings are not committed before the last step.                *)
OwnJournal ==
    /\ Pending /\ journal.new = txn.new /\ txn.kind # "recover"
    /\ journal.mode = "all" <=> txn.kind = "forget"
    /\ txn.before \in Keys
Undecided ==
    /\ journal.unknown # {} => media # "card"
    /\ journal.mode = "one" => ~Committed(journal)
    /\ \A i \in Covered : ram.net[i] = Net(journal.old[i])
Flow ==
    /\ txn.step \in Settling => Pending
    /\ At("journal") => ~Pending
    /\ txn.step \in Writing \cup { "clear" } => OwnJournal
    /\ txn.step \in Writing => Undecided
    /\ txn.step \in Storing /\ journal.mode = "one" => journal.generation = stored.generation + 1
    /\ At("clear") => Committed(journal)

(* The keys: none for an unused slot, and at each step what was written.   *)
Answers(i) == ~Pending \/ i \notin Covered
NoLeftover == \A i \in Slots : Answers(i) /\ ram.net[i] = None => key[i] = Absent
Written ==
    /\ txn.step \in { "resolveCard", "resolveClear" } => \A i \in Covered : key[i] = Settled(i)
    /\ txn.step \in { "card", "commit", "clear" } => \A i \in Covered : key[i] = Candidate(i)
    /\ At("undoClear") \/ (At("undoCard") /\ txn.intact) =>
           \A i \in Covered : key[i] = txn.before[i]

(* What an undo returns to.  A password that was only on the card is in    *)
(* the journal, where the card could be read, and still on the card while  *)
(* the call has not written it, and after the undo.                        *)
CardUntouched ==
    txn.step \in { "keys", "card", "undoClear" } \/ (At("undoKeys") /\ ~txn.cardToo)
Recorded(i) ==
    /\ txn.before[i] # Absent => ram.net[i] # None /\ Pass(journal.old[i]) = txn.before[i]
    /\ i \in journal.unknown => txn.before[i] = Absent /\ ram.net[i] # None
    /\ txn.before[i] = Absent /\ ram.net[i] # None =>
           /\ Upgraded
           /\ i \in journal.unknown \/ media = "card"
           /\ i \notin journal.unknown /\ CardUntouched => card[i] = journal.old[i]
Before == txn.step \in Writing => \A i \in Covered : Recorded(i)

(* Where the card answers for a password, the entry lies at the index of   *)
(* its slot, and no other slot has the name.                               *)
CardOnly(i) ==
    ram.net[i] # None /\ IF Answers(i) THEN key[i] = Absent ELSE LeftOnCard(i)
OnOwnCard == \A i \in Slots : CardOnly(i) => Upgraded /\ Net(card[i]) = ram.net[i]

IInv ==
    /\ SettingsOK /\ PlacesOK /\ RepliesOK /\ NamesApart
    /\ CallOK /\ JournalTells /\ Flow /\ NoLeftover /\ Written /\ Before /\ OnOwnCard

-----------------------------------------------------------------------------
(* Lemmas about the operators.                                             *)

(* A pair without a network has no password, and no password is Absent.    *)
LEMMA PairFacts ==
    ASSUME NEW x \in Pairs
    PROVE  /\ x = << Net(x), Pass(x) >> /\ Net(x) \in Names /\ Pass(x) \in Secrets
           /\ Net(x) = None <=> x = NoPair
           /\ Pass(x) # Absent
BY CredentialsAssumption DEF Pairs, NoPair, Net, Pass, Names, Secrets

LEMMA NoPairFacts == NoPair \in Pairs /\ Net(NoPair) = None /\ Pass(NoPair) = Open
BY DEF Pairs, NoPair, Net, Pass

(* readWifiPasswordForTransaction: the key first, then the entry at the    *)
(* slot's own index.                                                       *)
LEMMA RecoverableNone == ASSUME NEW i, NEW k PROVE Recoverable(i, None, k) = Open
BY DEF Recoverable
LEMMA RecoverableKey ==
    ASSUME NEW i, NEW net, net # None, NEW k, k # Absent
    PROVE  Recoverable(i, net, k) = k
BY DEF Recoverable
LEMMA RecoverableCard ==
    ASSUME NEW i \in Slots, NEW net, net # None, Net(card[i]) = net
    PROVE  Recoverable(i, net, Absent) = Pass(card[i])
<1>1. OnCard(i, net) = { Pass(card[i]) }
  BY DEF OnCard
<1> QED
  BY <1>1 DEF Recoverable

(* storeWifiPasswordCandidate *)
LEMMA KeyForFacts ==
    ASSUME NEW x \in Pairs
    PROVE  /\ KeyFor(x, Net(x) # None) \in Secrets \cup { Absent }
           /\ Net(x) = None => KeyFor(x, Net(x) # None) = Absent
           /\ Net(x) # None => /\ KeyFor(x, Net(x) # None) = Pass(x)
                               /\ KeyFor(x, Net(x) # None) # Absent
BY PairFacts, NoPairFacts DEF KeyFor

LEMMA RecoverableType ==
    ASSUME card \in [Slots -> Pairs], NEW i \in Slots, NEW net,
           NEW k \in Secrets \cup { Absent }
    PROVE  Recoverable(i, net, k) \in Secrets
<1>1. ASSUME NEW found \in SUBSET Slots, found # {}
      PROVE  Lowest(found) \in found
  BY <1>1, CredentialsAssumption DEF Lowest
<1>2. OnCard(i, net) \subseteq Secrets
  <2> DEFINE found == { j \in Slots : Net(card[j]) = net }
  <2>1. found # {} => (IF i \in found THEN i ELSE Lowest(found)) \in Slots
    BY <1>1
  <2>2. \A j \in Slots : Pass(card[j]) \in Secrets
    BY PairFacts
  <2> QED
    BY <2>1, <2>2 DEF OnCard
<1>3. Open \in Secrets
  BY DEF Secrets
<1> QED
  BY <1>2, <1>3 DEF Recoverable

(* The slots that a call or a journal concerns.                            *)
LEMMA ContentFacts ==
    ASSUME NEW f \in Contents
    PROVE  /\ DOMAIN f \in SUBSET Slots /\ f \in [DOMAIN f -> Pairs]
           /\ \A i \in DOMAIN f : i \in Slots /\ f[i] \in Pairs
BY DEF Contents

(* The pair a slot has, from the place that answers for it.                *)
Held(i) ==
    IF ram.net[i] = None THEN NoPair
    ELSE IF CardOnly(i) THEN card[i]
    ELSE IF Answers(i) THEN << ram.net[i], key[i] >>
    ELSE Outcome(i)

LEMMA OutcomeFacts ==
    ASSUME JournalTells, Pending, NEW i \in Covered
    PROVE  i \in Slots /\ Outcome(i) \in Pairs /\ Net(Outcome(i)) = ram.net[i]
<1>1. journal \in Journals /\ DOMAIN journal.new = DOMAIN journal.old
  BY DEF JournalTells, Pending, NoJournal, Covered
<1>2. /\ i \in Slots /\ journal.old[i] \in Pairs /\ journal.new[i] \in Pairs
  BY <1>1, ContentFacts DEF Journals, Covered
<1> QED
  BY <1>2 DEF Outcome, JournalTells, Pending, NoJournal

LEMMA HeldFacts ==
    ASSUME IInv, NEW i \in Slots
    PROVE  Held(i) \in Pairs /\ Settles(i) = Held(i) /\ Net(Held(i)) = ram.net[i]
<1> USE DEF IInv, SettingsOK, PlacesOK
<1>1. ram.net[i] \in Names /\ key[i] \in Secrets \cup { Absent } /\ card[i] \in Pairs
  BY DEF Keys
<1>2. CASE ram.net[i] = None
  <2>1. CASE Answers(i)
    BY <1>2, <2>1, RecoverableNone, NoPairFacts DEF Held, Settles, Answers, NoPair
  <2>2. CASE ~Answers(i)
    <3>1. Outcome(i) \in Pairs /\ Net(Outcome(i)) = None
      BY <1>2, <2>2, OutcomeFacts DEF Answers
    <3>2. Pass(Outcome(i)) = Open
      BY <3>1, PairFacts, NoPairFacts
    <3> QED
      BY <1>2, <2>2, <3>2, RecoverableNone, NoPairFacts DEF Held, Settles, Answers, NoPair
  <2> QED
    BY <2>1, <2>2
<1>3. CASE CardOnly(i)
  <2>1. ram.net[i] # None /\ Net(card[i]) = ram.net[i]
    BY <1>3 DEF CardOnly, OnOwnCard
  <2>2. Settles(i) = << ram.net[i], Recoverable(i, ram.net[i], Absent) >>
    BY <1>3 DEF CardOnly, Settles, Answers
  <2>3. Settles(i) = << Net(card[i]), Pass(card[i]) >>
    BY <2>1, <2>2, RecoverableCard
  <2> QED
    BY <1>1, <1>3, <2>1, <2>3, PairFacts DEF Held
<1>4. CASE ram.net[i] # None /\ ~CardOnly(i) /\ Answers(i)
  <2>1. key[i] # Absent /\ key[i] \in Secrets
    BY <1>1, <1>4 DEF CardOnly
  <2>2. Settles(i) = << ram.net[i], key[i] >>
    BY <1>4, <2>1, RecoverableKey DEF Settles, Answers
  <2>3. Held(i) = << ram.net[i], key[i] >>
    BY <1>4 DEF Held
  <2>4. ram.net[i] \in Networks
    BY <1>1, <1>4 DEF Names
  <2>5. << ram.net[i], key[i] >> \in Pairs /\ Net(<< ram.net[i], key[i] >>) = ram.net[i]
    BY <2>1, <2>4 DEF Pairs, Net
  <2> QED
    BY <2>2, <2>3, <2>5
<1>5. CASE ram.net[i] # None /\ ~CardOnly(i) /\ ~Answers(i)
  <2>1. Outcome(i) \in Pairs /\ Net(Outcome(i)) = ram.net[i]
    BY <1>5, OutcomeFacts DEF Answers
  <2>2. Settles(i) = << Net(Outcome(i)), Pass(Outcome(i)) >>
    BY <1>5, <2>1 DEF Settles, CardOnly, Answers
  <2> QED
    BY <1>5, <2>1, <2>2, PairFacts DEF Held
<1> QED
  BY <1>2, <1>3, <1>4, <1>5

HeldOK == \A i \in Slots : Held(i) \in Pairs /\ Settles(i) = Held(i)
LEMMA HeldFactsNow == IInv => HeldOK
BY HeldFacts DEF HeldOK
LEMMA HeldFactsNext == IInv' => HeldOK'
BY HeldFactsNow, PTL

(* Where every place keeps its answer, the vault does not change.          *)
LEMMA VaultKept ==
    ASSUME IInv, IInv', \A i \in Slots : Held(i)' = Held(i)
    PROVE  vault' = vault
BY HeldFactsNow, HeldFactsNext DEF vault, HeldOK
-----------------------------------------------------------------------------
(* What a step leaves as it is.                                            *)

LEMMA IdleIs == ASSUME IInv, ~Running PROVE txn = Idle
BY DEF IInv, CallOK, Running, Transactions, Steps, Settling, Writing, Storing, Undoing

LEMMA RunningIs == ASSUME IInv, Running PROVE txn \in Transactions
BY DEF IInv, CallOK, Running, Idle

(* A call that ended owes nothing.                                         *)
LEMMA EndsIdle == ASSUME txn' = Idle PROVE CallOK' /\ Flow' /\ Written' /\ Before'
BY DEF Idle, CallOK, Flow, Written, Before, At, Settling, Writing, Storing, Undoing

(* The same journal tells the same of the same settings.                   *)
LEMMA SameJournal ==
    ASSUME UNCHANGED << ram, journal >>
    PROVE  /\ JournalTells => JournalTells'
           /\ NamesApart => NamesApart'
           /\ \A i : /\ Answers(i)' = Answers(i) /\ LeftOnCard(i)' = LeftOnCard(i)
                     /\ Outcome(i)' = Outcome(i) /\ Settled(i)' = Settled(i)
           /\ Covered' = Covered /\ Pending' = Pending /\ Committed(journal)' = Committed(journal)
<1>1. Covered' = Covered /\ Pending' = Pending /\ Committed(journal)' = Committed(journal)
  BY DEF Covered, Pending, Committed, Configured
<1>2. \A i : /\ Answers(i)' = Answers(i) /\ LeftOnCard(i)' = LeftOnCard(i)
             /\ Outcome(i)' = Outcome(i)
  BY <1>1 DEF Answers, LeftOnCard, Outcome
<1>3. \A i : Settled(i)' = Settled(i)
  BY <1>2 DEF Settled, KeyFor
<1>4. JournalTells => JournalTells'
  BY <1>1, <1>2 DEF JournalTells, Apart, Net, Journals
<1>5. NamesApart => NamesApart'
  BY DEF NamesApart
<1> QED
  BY <1>1, <1>2, <1>3, <1>4, <1>5

(* getWifiStaSlotPassword: a read that copies a password from the card to  *)
(* the key answers the same afterwards.                                    *)
LEMMA HealKeeps ==
    ASSUME IInv, NEW i \in Slots, Heals(i), UNCHANGED << ram, card, media, journal >>
    PROVE  PlacesOK' /\ NoLeftover' /\ OnOwnCard' /\ \A j \in Slots : Held(j)' = Held(j)
<1> USE DEF IInv, SettingsOK, PlacesOK
<1> DEFINE word == ReadPassword(i)
<1>1. /\ key[i] = Absent /\ ram.net[i] # None /\ word # Open
      /\ key' = [key EXCEPT ![i] = word]
  BY DEF Heals
<1>2. word = Recoverable(i, ram.net[i], Absent)
  BY <1>1 DEF ReadPassword
<1>3. word \in Secrets
  BY <1>2, RecoverableType
<1>4. word # Absent
  BY <1>3, CredentialsAssumption DEF Secrets
<1>5. PlacesOK'
  BY <1>1, <1>3 DEF Keys
<1>6. \A j \in Slots : Answers(j)' = Answers(j) /\ LeftOnCard(j)' = LeftOnCard(j)
                       /\ Outcome(j)' = Outcome(j)
  BY SameJournal
<1>7. \A j \in Slots : j # i => key'[j] = key[j]
  BY <1>1 DEF Keys
<1>8. key'[i] = word
  BY <1>1 DEF Keys
<1>9. NoLeftover'
  BY <1>1, <1>6, <1>7 DEF NoLeftover
<1>10. \A j \in Slots : CardOnly(j)' => CardOnly(j)
  BY <1>1, <1>6, <1>7 DEF CardOnly
<1>11. OnOwnCard'
  BY <1>10 DEF OnOwnCard, Net
<1>12. ASSUME NEW j \in Slots PROVE Held(j)' = Held(j)
  <2>1. CASE j # i \/ ~Answers(j)
    <3>1. CardOnly(j)' = CardOnly(j)
      BY <1>6, <1>7, <2>1 DEF CardOnly
    <3> QED
      BY <1>6, <1>7, <2>1, <3>1 DEF Held, CardOnly
  <2>2. CASE j = i /\ Answers(i)
    <3>1. CardOnly(i) /\ Net(card[i]) = ram.net[i] /\ ~CardOnly(i)'
      BY <1>1, <1>4, <1>6, <1>8, <2>2 DEF CardOnly, OnOwnCard
    <3>2. word = Pass(card[i])
      BY <1>1, <1>2, <3>1, RecoverableCard
    <3>3. card[i] = << ram.net[i], word >>
      BY <3>1, <3>2, PairFacts
    <3> QED
      BY <1>1, <1>6, <1>8, <2>2, <3>1, <3>3 DEF Held
  <2> QED
    BY <2>1, <2>2
<1> QED
  BY <1>5, <1>9, <1>11, <1>12

LEMMA PlacesKeep ==
    ASSUME IInv, UNCHANGED << ram, key, card, media, journal >>
    PROVE  PlacesOK' /\ NoLeftover' /\ OnOwnCard' /\ \A j \in Slots : Held(j)' = Held(j)
<1>1. \A j : Answers(j)' = Answers(j) /\ LeftOnCard(j)' = LeftOnCard(j)
             /\ Outcome(j)' = Outcome(j)
  BY SameJournal
<1>2. \A j : CardOnly(j)' = CardOnly(j)
  BY <1>1 DEF CardOnly
<1> QED
  BY <1>1, <1>2 DEF IInv, PlacesOK, NoLeftover, OnOwnCard, Held, Net

-----------------------------------------------------------------------------
(* A call begins.                                                          *)

WellAsked(kind, new) ==
    /\ kind \in Kinds \ { "recover" } /\ new \in Contents /\ Apart(new)
    /\ kind \in { "set", "edit", "clear" } => \E i \in Slots : DOMAIN new = { i }
    /\ kind \in { "set", "edit" } => \A i \in DOMAIN new : Net(new[i]) # None
    /\ kind \in { "clear", "forget" } => \A i \in DOMAIN new : new[i] = NoPair
    /\ kind = "forget" => DOMAIN new = Slots
SameOrHealed == UNCHANGED key \/ \E i \in Slots : Heals(i)

LEMMA AskKeeps ==
    ASSUME IInv, NEW kind, NEW new, WellAsked(kind, new), Ask(kind, new), SameOrHealed
    PROVE  /\ IInv' /\ \A i \in Slots : Held(i)' = Held(i)
           /\ txn = Idle /\ txn'.kind = kind /\ txn'.new = new /\ Running'
           /\ ~At("clear")' /\ answer' = "none"
<1>1. /\ txn = Idle /\ UNCHANGED << stored, ram, card, media, journal >>
      /\ answer' = "none" /\ recovering' \in BOOLEAN
  BY IdleIs DEF Ask, IInv, RepliesOK
<1>2. PlacesOK' /\ NoLeftover' /\ OnOwnCard' /\ \A j \in Slots : Held(j)' = Held(j)
  BY <1>1, HealKeeps, PlacesKeep DEF SameOrHealed
<1> DEFINE first == IF Pending THEN "resolveKeys" ELSE "journal"
<1>3. /\ txn' = [ step |-> first, kind |-> kind, new |-> new, before |-> << >>,
                  cardToo |-> FALSE, intact |-> TRUE ]
      /\ txn' \in Transactions
  BY DEF Ask, Call, WellAsked, Transactions, Steps, Settling
<1>4. txn'.step = first /\ txn'.kind = kind /\ txn'.new = new
  BY <1>3
<1>5. CallOK'
  BY <1>1, <1>3, <1>4 DEF CallOK, WellAsked, Target, Apart, Net, Settling
<1>6. JournalTells' /\ NamesApart' /\ Pending' = Pending
  BY <1>1, SameJournal DEF IInv
<1>7. Flow' /\ Written' /\ Before'
  BY <1>4, <1>6 DEF Flow, Written, Before, At, Settling, Writing, Storing, Undoing
<1>8. SettingsOK' /\ RepliesOK'
  BY <1>1 DEF IInv, SettingsOK, RepliesOK
<1> QED
  BY <1>1, <1>2, <1>4, <1>5, <1>6, <1>7, <1>8 DEF IInv, Running, At

Asking ==
    \/ \E i \in Slots, net \in Networks, pass \in Secrets : SetSlot(i, net, pass)
    \/ \E i \in Slots : EditLabel(i) \/ ClearSlot(i)
    \/ ForgetAll
SlotSets == { { i } : i \in Slots } \cup { Slots }

(* setWifiStaSlotCredentials and its siblings: one slot is given a pair,   *)
(* or all of them are cleared.                                             *)
LEMMA AsksOne ==
    ASSUME IInv, NEW i \in Slots, NEW pair \in Pairs,
           NEW kind \in { "set", "edit", "clear" },
           kind = "clear" <=> pair = NoPair,
           Upgraded => \A j \in Slots \ { i } : ram.net[j] # None => ram.net[j] # Net(pair)
    PROVE  WellAsked(kind, [s \in { i } |-> pair])
<1> DEFINE new == [s \in { i } |-> pair]
<1>1. new \in [{ i } -> Pairs] /\ DOMAIN new = { i } /\ new[i] = pair
  OBVIOUS
<1>2. new \in Contents
  BY <1>1 DEF Contents
<1>3. Apart(new)
  BY <1>1 DEF Apart
<1>4. kind # "clear" => Net(pair) # None
  BY PairFacts
<1> HIDE DEF new
<1> QED
  BY <1>1, <1>2, <1>3, <1>4 DEF WellAsked, Kinds

LEMMA Asks ==
    ASSUME IInv, Asking
    PROVE  \E kind \in Kinds, T \in SlotSets, pair \in Pairs :
             /\ WellAsked(kind, [s \in T |-> pair]) /\ Ask(kind, [s \in T |-> pair])
             /\ SameOrHealed
<1>1. ASSUME NEW i \in Slots, NEW net \in Networks, NEW pass \in Secrets, SetSlot(i, net, pass)
      PROVE  /\ WellAsked("set", [s \in { i } |-> << net, pass >>])
             /\ Ask("set", [s \in { i } |-> << net, pass >>]) /\ SameOrHealed
  <2>1. << net, pass >> \in Pairs /\ Net(<< net, pass >>) = net /\ << net, pass >> # NoPair
    BY CredentialsAssumption DEF Pairs, Net, NoPair
  <2>2. Upgraded => \A j \in Slots \ { i } : ram.net[j] # None => ram.net[j] # net
    BY <1>1 DEF SetSlot, Nameable
  <2> QED
    BY <1>1, <2>1, <2>2, AsksOne DEF SetSlot, SameOrHealed
<1>2. ASSUME NEW i \in Slots, EditLabel(i)
      PROVE  \E pair \in Pairs : /\ WellAsked("edit", [s \in { i } |-> pair])
                                 /\ Ask("edit", [s \in { i } |-> pair]) /\ SameOrHealed
  <2>1. ram.net[i] \in Networks
    BY <1>2 DEF EditLabel, Configured, IInv, SettingsOK, Names
  <2>2. ReadPassword(i) \in Secrets /\ Open \in Secrets
    BY RecoverableType DEF IInv, PlacesOK, Keys, ReadPassword, Secrets
  <2>3. PICK pass \in Secrets : EditWith(i, pass) /\ SameOrHealed
    BY <1>2, <2>2 DEF EditLabel, SameOrHealed
  <2>4. /\ << ram.net[i], pass >> \in Pairs /\ Net(<< ram.net[i], pass >>) = ram.net[i]
        /\ << ram.net[i], pass >> # NoPair
    BY <2>1, CredentialsAssumption DEF Pairs, Net, NoPair
  <2>5. Upgraded => \A j \in Slots \ { i } : ram.net[j] # None => ram.net[j] # ram.net[i]
    BY DEF IInv, NamesApart
  <2>6. WellAsked("edit", [s \in { i } |-> << ram.net[i], pass >>])
    BY <2>4, <2>5, AsksOne
  <2> QED
    BY <2>3, <2>4, <2>6 DEF EditWith
<1>3. ASSUME NEW i \in Slots, ClearSlot(i)
      PROVE  /\ WellAsked("clear", [s \in { i } |-> NoPair])
             /\ Ask("clear", [s \in { i } |-> NoPair]) /\ SameOrHealed
  BY <1>3, NoPairFacts, AsksOne DEF ClearSlot, SameOrHealed
<1>4. ASSUME ForgetAll
      PROVE  /\ WellAsked("forget", [s \in Slots |-> NoPair])
             /\ Ask("forget", [s \in Slots |-> NoPair]) /\ SameOrHealed
  <2>1. [s \in Slots |-> NoPair] \in Contents
    BY NoPairFacts DEF Contents
  <2> QED
    BY <1>4, <2>1 DEF ForgetAll, WellAsked, Apart, Kinds, SameOrHealed
<1>5. /\ Slots \in SlotSets /\ \A i \in Slots : { i } \in SlotSets
      /\ { "set", "edit", "clear", "forget" } \subseteq Kinds
  BY DEF SlotSets, Kinds
<1>6. \A net \in Networks, pass \in Secrets : << net, pass >> \in Pairs
  BY DEF Pairs
<1> DEFINE Good(kind, T, pair) ==
             /\ WellAsked(kind, [s \in T |-> pair]) /\ Ask(kind, [s \in T |-> pair])
             /\ SameOrHealed
<1>7. \A i \in Slots, net \in Networks, pass \in Secrets :
         SetSlot(i, net, pass) => Good("set", { i }, << net, pass >>)
  BY <1>1
<1>8. \A i \in Slots : EditLabel(i) => \E pair \in Pairs : Good("edit", { i }, pair)
  BY <1>2
<1>9. \A i \in Slots : ClearSlot(i) => Good("clear", { i }, NoPair)
  BY <1>3
<1>10. ForgetAll => Good("forget", Slots, NoPair)
  BY <1>4
<1> DEFINE Found == \E kind \in Kinds, T \in SlotSets, pair \in Pairs : Good(kind, T, pair)
<1>11. ASSUME NEW kind \in Kinds, NEW T \in SlotSets, NEW pair \in Pairs, Good(kind, T, pair)
       PROVE  Found
  BY <1>11
<1> HIDE DEF Good, Found
<1>12. ASSUME \E i \in Slots, net \in Networks, pass \in Secrets : SetSlot(i, net, pass) PROVE Found
  <2>1. PICK i \in Slots, net \in Networks, pass \in Secrets : SetSlot(i, net, pass)
    BY <1>12
  <2>2. { i } \in SlotSets /\ << net, pass >> \in Pairs
    BY <1>5, <1>6
  <2>3. Good("set", { i }, << net, pass >>)
    BY <1>7, <2>1
  <2> QED
    BY <1>5, <1>11, <2>2, <2>3
<1>13. ASSUME \E i \in Slots : EditLabel(i) \/ ClearSlot(i) PROVE Found
  <2>1. PICK i \in Slots : EditLabel(i) \/ ClearSlot(i)
    BY <1>13
  <2>2. { i } \in SlotSets /\ NoPair \in Pairs
    BY <1>5, NoPairFacts
  <2>3. ASSUME EditLabel(i) PROVE Found
    <3>1. PICK pair \in Pairs : Good("edit", { i }, pair)
      BY <1>8, <2>3
    <3> QED
      BY <1>5, <1>11, <2>2, <3>1
  <2>4. ASSUME ClearSlot(i) PROVE Found
    <3>1. Good("clear", { i }, NoPair)
      BY <1>9, <2>4
    <3> QED
      BY <1>5, <1>11, <2>2, <3>1
  <2> QED
    BY <2>1, <2>3, <2>4
<1>14. ASSUME ForgetAll PROVE Found
  <2>1. Slots \in SlotSets /\ NoPair \in Pairs /\ Good("forget", Slots, NoPair)
    BY <1>5, <1>10, <1>14, NoPairFacts
  <2> QED
    BY <1>5, <1>11, <2>1
<1>15. Found
  BY <1>12, <1>13, <1>14 DEF Asking
<1> USE DEF Good, Found
<1> QED
  BY <1>15

-----------------------------------------------------------------------------
(* Steps outside of a call.                                                *)

LEMMA ConnectKeeps ==
    ASSUME IInv, NEW i \in Slots, Connect(i)
    PROVE  IInv' /\ \A j \in Slots : Held(j)' = Held(j)
<1>1. /\ txn = Idle /\ txn' = Idle /\ Heals(i)
      /\ UNCHANGED << stored, ram, card, media, journal, recovering, answer >>
  BY IdleIs DEF Connect
<1>2. PlacesOK' /\ NoLeftover' /\ OnOwnCard' /\ \A j \in Slots : Held(j)' = Held(j)
  BY <1>1, HealKeeps
<1>3. JournalTells' /\ NamesApart'
  BY <1>1, SameJournal DEF IInv
<1>4. SettingsOK' /\ RepliesOK'
  BY <1>1 DEF IInv, SettingsOK, RepliesOK
<1> QED
  BY <1>1, <1>2, <1>3, <1>4, EndsIdle DEF IInv

LEMMA SaveOtherKeeps ==
    ASSUME IInv, SaveOther
    PROVE  IInv' /\ \A j \in Slots : Held(j)' = Held(j)
<1>1. /\ txn = Idle /\ txn' = Idle
      /\ UNCHANGED << ram, key, card, media, journal, recovering, answer >>
  BY IdleIs DEF SaveOther
<1>2. PlacesOK' /\ NoLeftover' /\ OnOwnCard' /\ \A j \in Slots : Held(j)' = Held(j)
  BY <1>1, PlacesKeep
<1>3. JournalTells' /\ NamesApart'
  BY <1>1, SameJournal DEF IInv
<1>4. SettingsOK' /\ RepliesOK'
  BY <1>1, CredentialsAssumption DEF IInv, SettingsOK, RepliesOK, SaveOther
<1> QED
  BY <1>1, <1>2, <1>3, <1>4, EndsIdle DEF IInv

(* A recovery begins, of the boot or of a later call.                      *)
Recovers == [ step |-> "resolveKeys", kind |-> "recover", new |-> << >>, before |-> << >>,
              cardToo |-> FALSE, intact |-> TRUE ]
LEMMA RecoverBegins ==
    ASSUME Pending, txn' = Recovers, UNCHANGED journal
    PROVE  CallOK' /\ Flow' /\ Written' /\ Before'
<1>1. << >> \in Contents
  BY DEF Contents
<1>2. txn' \in Transactions
  BY <1>1 DEF Recovers, Transactions, Steps, Settling, Kinds
<1>3. txn'.step = "resolveKeys" /\ txn'.kind = "recover"
  BY DEF Recovers
<1>4. CallOK'
  BY <1>2, <1>3 DEF CallOK, Settling
<1>5. Pending'
  BY DEF Pending
<1> QED
  BY <1>3, <1>4, <1>5 DEF Flow, Written, Before, At, Settling, Writing, Storing, Undoing

LEMMA RecoverKeeps ==
    ASSUME IInv, Recover
    PROVE  IInv' /\ \A j \in Slots : Held(j)' = Held(j)
<1>1. txn = Idle /\ UNCHANGED << stored, ram, key, card, media, journal, answer >>
  BY IdleIs DEF Recover
<1>2. PlacesOK' /\ NoLeftover' /\ OnOwnCard' /\ \A j \in Slots : Held(j)' = Held(j)
  BY <1>1, PlacesKeep
<1>3. JournalTells' /\ NamesApart'
  BY <1>1, SameJournal DEF IInv
<1>4. SettingsOK' /\ RepliesOK'
  BY <1>1 DEF IInv, SettingsOK, RepliesOK, Recover
<1>5. CallOK' /\ Flow' /\ Written' /\ Before'
  <2>1. CASE Pending
    BY <1>1, <2>1, RecoverBegins DEF Recover, Call, Recovers
  <2>2. CASE ~Pending
    BY <1>1, <2>2, EndsIdle DEF Recover
  <2> QED
    BY <2>1, <2>2
<1> QED
  BY <1>2, <1>3, <1>4, <1>5 DEF IInv

(* Power is lost: memory, and with it the call, is gone.                   *)
LEMMA PowerLossKeeps ==
    ASSUME IInv, PowerLoss
    PROVE  IInv' /\ \A j \in Slots : Held(j)' = Held(j)
<1>1. UNCHANGED << stored, ram, key, card, journal >> /\ media' \in Media
  BY DEF PowerLoss, IInv, SettingsOK
<1>2. JournalTells' /\ NamesApart'
  BY <1>1, SameJournal DEF IInv
<1>3. PlacesOK' /\ NoLeftover' /\ OnOwnCard' /\ \A j \in Slots : Held(j)' = Held(j)
  <2>1. \A j : Answers(j)' = Answers(j) /\ LeftOnCard(j)' = LeftOnCard(j)
               /\ Outcome(j)' = Outcome(j)
    BY <1>1, SameJournal
  <2>2. \A j : CardOnly(j)' = CardOnly(j)
    BY <1>1, <2>1 DEF CardOnly
  <2> QED
    BY <1>1, <2>1, <2>2 DEF IInv, PlacesOK, NoLeftover, OnOwnCard, Held, Net
<1>4. SettingsOK' /\ RepliesOK'
  <2>1. recovering' \in BOOLEAN /\ answer' = "none"
    BY DEF PowerLoss, Pending
  <2> QED
    BY <1>1, <2>1 DEF IInv, SettingsOK, RepliesOK
<1>5. CallOK' /\ Flow' /\ Written' /\ Before'
  <2>1. CASE Pending
    BY <1>1, <2>1, RecoverBegins DEF PowerLoss, Call, Recovers
  <2>2. CASE ~Pending
    BY <1>1, <2>2, EndsIdle DEF PowerLoss
  <2> QED
    BY <2>1, <2>2
<1> QED
  BY <1>2, <1>3, <1>4, <1>5 DEF IInv

-----------------------------------------------------------------------------
(* Steps inside of a call, by what they write.                             *)

(* What a step leaves alone of the places that answer for passwords.       *)
StoredOK == JournalTells /\ NamesApart /\ SettingsOK /\ PlacesOK /\ NoLeftover /\ OnOwnCard

(* A call ends.                                                            *)
LEMMA Ends ==
    ASSUME IInv, txn' = Idle, StoredOK', RepliesOK'
    PROVE  IInv'
BY EndsIdle DEF IInv, StoredOK

LEMMA Replies ==
    ASSUME IInv, UNCHANGED recovering \/ recovering' = FALSE,
           UNCHANGED answer \/ \E reply \in { "ok", "failed" } : Return(reply)
    PROVE  RepliesOK'
BY DEF IInv, RepliesOK, Return

(* Nothing is written.                                                     *)
LEMMA NothingWritten ==
    ASSUME IInv, UNCHANGED << stored, ram, key, card, media, journal >>
    PROVE  StoredOK' /\ \A j \in Slots : Held(j)' = Held(j)
<1>1. JournalTells' /\ NamesApart'
  BY SameJournal DEF IInv
<1>2. SettingsOK'
  BY DEF IInv, SettingsOK
<1> QED
  BY <1>1, <1>2, PlacesKeep DEF StoredOK

(* Keys of slots that the journal answers for.                             *)
LEMMA KeysWritten ==
    ASSUME IInv, Pending, UNCHANGED << stored, ram, card, media, journal >>,
           key' \in Keys, \A j \in Slots \ Covered : key'[j] = key[j]
    PROVE  StoredOK' /\ \A j \in Slots : Held(j)' = Held(j)
<1>1. JournalTells' /\ NamesApart'
  BY SameJournal DEF IInv
<1>2. \A j : Answers(j)' = Answers(j) /\ LeftOnCard(j)' = LeftOnCard(j)
             /\ Outcome(j)' = Outcome(j)
  BY SameJournal
<1>3. \A j \in Slots : Answers(j) => key'[j] = key[j]
  BY DEF Answers
<1>4. \A j \in Slots : CardOnly(j)' = CardOnly(j)
  BY <1>2, <1>3 DEF CardOnly
<1>5. SettingsOK'
  BY DEF IInv, SettingsOK
<1> QED
  BY <1>1, <1>2, <1>3, <1>4, <1>5
  DEF IInv, StoredOK, PlacesOK, NoLeftover, OnOwnCard, Held, Net

(* The card, but for the entries that answer for a password.               *)
LEMMA CardWritten ==
    ASSUME IInv, UNCHANGED << stored, ram, key, media, journal >>,
           card' \in [Slots -> Pairs], \A j \in Slots : CardOnly(j) => card'[j] = card[j]
    PROVE  StoredOK' /\ \A j \in Slots : Held(j)' = Held(j)
<1>1. JournalTells' /\ NamesApart'
  BY SameJournal DEF IInv
<1>2. \A j : Answers(j)' = Answers(j) /\ LeftOnCard(j)' = LeftOnCard(j)
             /\ Outcome(j)' = Outcome(j)
  BY SameJournal
<1>3. \A j : CardOnly(j)' = CardOnly(j)
  BY <1>2 DEF CardOnly
<1>4. SettingsOK'
  BY DEF IInv, SettingsOK
<1> QED
  BY <1>1, <1>2, <1>3, <1>4
  DEF IInv, StoredOK, PlacesOK, NoLeftover, OnOwnCard, Held, Net

(* The journal goes once key and card answer for its slots as it did.      *)
Redundant(i) ==
    /\ ram.net[i] = None => key[i] = Absent
    /\ ram.net[i] # None /\ key[i] # Absent => Held(i) = << ram.net[i], key[i] >>
    /\ ram.net[i] # None /\ key[i] = Absent => Upgraded /\ card[i] = Held(i)
LEMMA JournalDropped ==
    ASSUME IInv, Pending, UNCHANGED << stored, ram, key, card, media >>,
           journal' = NoJournal, \A i \in Covered : Redundant(i)
    PROVE  StoredOK' /\ \A j \in Slots : Held(j)' = Held(j)
<1>1. ~Pending' /\ \A j : Answers(j)'
  BY DEF Pending, NoJournal, Answers
<1>2. JournalTells' /\ NamesApart' /\ SettingsOK'
  BY DEF IInv, JournalTells, NamesApart, SettingsOK
<1>3. \A j \in Slots : ~Answers(j) => Redundant(j)
  BY DEF Answers
<1>4. NoLeftover'
  BY <1>1, <1>3 DEF IInv, NoLeftover, Redundant
<1>5. ASSUME NEW j \in Slots PROVE Held(j)' = Held(j) /\ (CardOnly(j)' => Upgraded /\ Net(card[j]) = ram.net[j])
  <2>1. CardOnly(j)' <=> ram.net[j] # None /\ key[j] = Absent
    BY <1>1 DEF CardOnly
  <2>2. CASE Answers(j)
    <3>1. CardOnly(j)' <=> CardOnly(j)
      BY <2>1, <2>2 DEF CardOnly
    <3> QED
      BY <1>1, <2>2, <3>1 DEF Held, IInv, OnOwnCard
  <2>3. CASE ~Answers(j)
    <3>1. Redundant(j) /\ Net(Held(j)) = ram.net[j] /\ (ram.net[j] = None => Held(j) = NoPair)
      BY <1>3, <2>3, HeldFacts DEF Held
    <3>2. Held(j)' = IF ram.net[j] = None THEN NoPair
                     ELSE IF CardOnly(j)' THEN card[j] ELSE << ram.net[j], key[j] >>
      BY <1>1 DEF Held
    <3> QED
      BY <2>1, <3>1, <3>2 DEF Redundant
  <2> QED
    BY <2>2, <2>3
<1>6. OnOwnCard'
  BY <1>5 DEF OnOwnCard, Net
<1> QED
  BY <1>2, <1>4, <1>5, <1>6 DEF IInv, StoredOK, PlacesOK

(* A call moves on to its next step.                                       *)
LEMMA StepTaken ==
    ASSUME IInv, Running, UNCHANGED ram, NEW p \in Steps, NEW b \in Keys \cup { << >> },
           NEW c \in BOOLEAN, NEW k \in BOOLEAN,
           txn.kind = "recover" => p \in Settling,
           txn' = [txn EXCEPT !.step = p, !.before = b, !.cardToo = c, !.intact = k]
    PROVE  /\ CallOK' /\ txn'.step = p /\ txn'.before = b /\ txn'.cardToo = c /\ txn'.intact = k
           /\ txn'.kind = txn.kind /\ txn'.new = txn.new /\ Target' = Target
<1>1. txn \in Transactions
  BY RunningIs
<1>2. /\ txn' \in Transactions
      /\ txn'.step = p /\ txn'.before = b /\ txn'.cardToo = c /\ txn'.intact = k
      /\ txn'.kind = txn.kind /\ txn'.new = txn.new
  BY <1>1 DEF Transactions
<1>3. txn # Idle
  BY DEF Running, Idle
<1>4. Target' = Target
  BY <1>2 DEF Target
<1>5. txn.kind # "recover" => Apart(txn.new)'
  BY <1>2, <1>3 DEF IInv, CallOK, Apart, Net
<1>6. CallOK'
  BY <1>2, <1>3, <1>4, <1>5 DEF IInv, CallOK, Net
<1> QED
  BY <1>2, <1>4, <1>6

LEMMA StepTo ==
    ASSUME IInv, Running, UNCHANGED ram, NEW p \in Steps, txn.kind = "recover" => p \in Settling,
           To(p)
    PROVE  /\ CallOK' /\ txn'.step = p /\ txn'.before = txn.before /\ txn'.cardToo = txn.cardToo
           /\ txn'.intact = txn.intact
           /\ txn'.kind = txn.kind /\ txn'.new = txn.new /\ Target' = Target
<1>1. txn \in Transactions
  BY RunningIs
<1>2. txn' = [txn EXCEPT !.step = p, !.before = txn.before, !.cardToo = txn.cardToo,
                         !.intact = txn.intact]
  BY <1>1 DEF To, Transactions
<1>3. txn.before \in Keys \cup { << >> } /\ txn.cardToo \in BOOLEAN /\ txn.intact \in BOOLEAN
  BY <1>1 DEF Transactions
<1> HIDE DEF To
<1> QED
  BY <1>2, <1>3, StepTaken

(* The steps of a resolution owe the pending journal only.                 *)
LEMMA ResolvesOn ==
    ASSUME txn'.step \in Settling, Pending'
    PROVE  Flow' /\ Before'
BY DEF Flow, Before, At, Settling, Writing, Storing, Undoing

-----------------------------------------------------------------------------
(* resolveWifiCredentialTransaction settles keys, card and journal.        *)

LEMMA SettledKey ==
    ASSUME IInv, Pending, NEW i \in Covered
    PROVE  /\ i \in Slots /\ Settled(i) \in Secrets \cup { Absent }
           /\ ram.net[i] = None => Settled(i) = Absent
           /\ ram.net[i] # None =>
                 IF LeftOnCard(i) THEN Settled(i) = Absent
                 ELSE Settled(i) = Pass(Outcome(i)) /\ Settled(i) # Absent
<1>1. i \in Slots /\ Outcome(i) \in Pairs /\ Net(Outcome(i)) = ram.net[i]
  BY OutcomeFacts DEF IInv
<1> QED
  BY <1>1, KeyForFacts DEF Settled

LEMMA CoveredSlots == ASSUME IInv, Pending PROVE Covered \subseteq Slots
BY OutcomeFacts DEF IInv

LEMMA ResolveKeysKeeps ==
    ASSUME IInv, ResolveKeys
    PROVE  IInv' /\ \A j \in Slots : Held(j)' = Held(j)
<1>1. /\ Running /\ Pending
      /\ UNCHANGED << stored, ram, card, media, journal, recovering, answer >>
      /\ To("resolveCard")
      /\ key' = [i \in Slots |-> IF i \in Covered THEN Settled(i) ELSE key[i]]
  BY DEF ResolveKeys, At, Running, IInv, Flow, Settling
<1>2. key' \in Keys
  BY <1>1, SettledKey DEF Keys, IInv, PlacesOK
<1>3. StoredOK' /\ \A j \in Slots : Held(j)' = Held(j)
  BY <1>1, <1>2, KeysWritten
<1>4. CallOK' /\ txn'.step = "resolveCard"
  BY <1>1, StepTo DEF Steps, Settling
<1>5. Pending' /\ Covered' = Covered /\ \A i : Settled(i)' = Settled(i)
  BY <1>1, SameJournal
<1>6. Flow' /\ Before'
  BY <1>4, <1>5, ResolvesOn DEF Settling
<1>7. \A i \in Covered : key'[i] = Settled(i)
  BY <1>1, CoveredSlots
<1>8. Written'
  BY <1>4, <1>5, <1>7 DEF Written, At
<1>9. RepliesOK'
  BY <1>1, Replies
<1> QED
  BY <1>3, <1>4, <1>6, <1>8, <1>9 DEF IInv, StoredOK

LEMMA ResolveKeysFailsKeeps ==
    ASSUME IInv, ResolveKeysFails
    PROVE  IInv' /\ \A j \in Slots : Held(j)' = Held(j)
<1>1. /\ Pending /\ txn' = Idle /\ Return("failed")
      /\ UNCHANGED << stored, ram, card, media, journal, recovering >>
  BY DEF ResolveKeysFails, Unresolved, Return, At, IInv, Flow, Settling
<1>2. PICK W \in SUBSET Covered :
         key' = [i \in Slots |-> IF i \in W THEN Settled(i) ELSE key[i]]
  BY DEF ResolveKeysFails
<1>3. key' \in Keys /\ \A j \in Slots \ Covered : key'[j] = key[j]
  BY <1>1, <1>2, SettledKey DEF Keys, IInv, PlacesOK
<1>4. StoredOK' /\ \A j \in Slots : Held(j)' = Held(j)
  BY <1>1, <1>3, KeysWritten
<1> QED
  BY <1>1, <1>4, Ends, Replies

(* The secret file: one entry, or all of them.                             *)
LEMMA SavedOnCard ==
    ASSUME card \in [Slots -> Pairs], NEW i \in Slots, NEW pair \in Pairs
    PROVE  /\ SaveOnCard(i, pair) \in [Slots -> Pairs] /\ SaveOnCard(i, pair)[i] = pair
           /\ \A j \in Slots \ { i } :
                 Net(card[j]) # Net(pair) => SaveOnCard(i, pair)[j] = card[j]
BY NoPairFacts DEF SaveOnCard
LEMMA RemovedFromCard ==
    ASSUME card \in [Slots -> Pairs], NEW i \in Slots, NEW net
    PROVE  /\ RemoveFromCard(i, net) \in [Slots -> Pairs]
           /\ \A j \in Slots \ { i } :
                 Net(card[j]) # net => RemoveFromCard(i, net)[j] = card[j]
BY NoPairFacts DEF RemoveFromCard

(* A slot outside of the journal whose password is on the card only.       *)
LEMMA CardOnlyElsewhere ==
    ASSUME IInv, NEW j \in Slots, CardOnly(j), Answers(j)
    PROVE  /\ Upgraded /\ Net(card[j]) = ram.net[j] /\ ram.net[j] # None
           /\ Pending => j \notin Covered
BY DEF IInv, OnOwnCard, CardOnly, Answers

LEMMA ResolveCardKeeps ==
    ASSUME IInv, ResolveCard
    PROVE  IInv' /\ \A j \in Slots : Held(j)' = Held(j)
<1>1. /\ Running /\ Pending /\ At("resolveCard")
      /\ UNCHANGED << stored, ram, key, media, journal, recovering, answer >>
      /\ To("resolveClear")
  BY DEF ResolveCard, At, Running, IInv, Flow, Settling
<1>2. /\ card' \in [Slots -> Pairs] /\ \A j \in Slots : CardOnly(j) => card'[j] = card[j]
  <2>1. CASE card' = card
    BY <2>1 DEF IInv, PlacesOK
  <2>2. CASE ~CardResolved /\ card' = SettledCard
    <3>1. \A j \in Covered : ~LeftOnCard(j)
      BY <2>2 DEF CardResolved
    <3>2. ASSUME NEW j \in Slots, CardOnly(j)
          PROVE  j \notin Covered /\ Upgraded /\ Net(card[j]) = ram.net[j] /\ ram.net[j] # None
      <4>1. Answers(j)
        BY <3>1, <3>2 DEF CardOnly, Answers
      <4> QED
        BY <1>1, <3>2, <4>1, CardOnlyElsewhere
    <3>3. \A i \in Covered : Outcome(i) \in Pairs /\ Net(Outcome(i)) = ram.net[i]
      BY <1>1, OutcomeFacts DEF IInv
    <3>4. card \in [Slots -> Pairs] /\ journal \in Journals /\ journal.mode \in { "one", "all" }
      BY <1>1 DEF IInv, PlacesOK, JournalTells, Pending, NoJournal, Journals
    <3>5. CASE journal.mode = "all"
      <4>1. Covered = Slots
        BY <1>1, <3>5 DEF IInv, JournalTells, Pending, NoJournal
      <4>2. card' = [i \in Slots |-> Outcome(i)]
        BY <2>2, <3>5 DEF SettledCard
      <4> QED
        BY <3>2, <3>3, <4>1, <4>2
    <3>6. CASE journal.mode = "one"
      <4>1. PICK i \in Slots : Covered = { i }
        BY <1>1, <3>6 DEF IInv, JournalTells, Pending, NoJournal
      <4> DEFINE other == IF Committed(journal) THEN journal.old[i] ELSE journal.new[i]
      <4>2. card' = IF ram.net[i] # None THEN SaveOnCard(i, Outcome(i))
                    ELSE RemoveFromCard(i, Net(other))
        <5> DEFINE own == CHOOSE s \in Covered : TRUE
        <5>1. own = i
          BY <4>1
        <5>2. card' = IF ram.net[own] # None THEN SaveOnCard(own, Outcome(own))
                      ELSE RemoveFromCard(own, Net(IF Committed(journal) THEN journal.old[own]
                                                   ELSE journal.new[own]))
          BY <2>2, <3>6 DEF SettledCard
        <5> HIDE DEF own
        <5> QED
          BY <5>1, <5>2
      <4>3. ASSUME NEW j \in Slots, CardOnly(j)
            PROVE  j # i /\ Net(card[j]) # Net(Outcome(i)) /\ Net(card[j]) # Net(other)
        <5>1. j # i /\ Upgraded /\ Net(card[j]) = ram.net[j] /\ ram.net[j] # None
          BY <3>2, <4>1, <4>3
        <5>2. Apart(journal.old) /\ Apart(journal.new) /\ DOMAIN journal.new = { i }
              /\ DOMAIN journal.old = { i }
          BY <1>1, <4>1 DEF IInv, JournalTells, Pending, NoJournal, Covered
        <5>3. ram.net[j] # Net(journal.old[i]) /\ ram.net[j] # Net(journal.new[i])
          BY <5>1, <5>2 DEF Apart
        <5> QED
          BY <5>1, <5>3 DEF Outcome
      <4>4. Outcome(i) \in Pairs
        BY <3>3, <4>1
      <4> HIDE DEF other
      <4>5. CASE ram.net[i] # None
        BY <3>4, <4>2, <4>3, <4>4, <4>5, SavedOnCard
      <4>6. CASE ram.net[i] = None
        BY <3>4, <4>2, <4>3, <4>6, RemovedFromCard
      <4> QED
        BY <4>5, <4>6
    <3> QED
      BY <3>4, <3>5, <3>6
  <2> QED
    BY <2>1, <2>2 DEF ResolveCard
<1>3. StoredOK' /\ \A j \in Slots : Held(j)' = Held(j)
  BY <1>1, <1>2, CardWritten
<1>4. CallOK' /\ txn'.step = "resolveClear"
  BY <1>1, StepTo DEF Steps, Settling
<1>5. Pending' /\ Covered' = Covered /\ \A i : Settled(i)' = Settled(i)
  BY <1>1, SameJournal
<1>6. Flow' /\ Before'
  BY <1>4, <1>5, ResolvesOn DEF Settling
<1>7. Written'
  BY <1>1, <1>4, <1>5 DEF IInv, Written, At
<1>8. RepliesOK'
  BY <1>1, Replies
<1> QED
  BY <1>3, <1>4, <1>6, <1>7, <1>8 DEF IInv, StoredOK

LEMMA ResolveCardFailsKeeps ==
    ASSUME IInv, ResolveCardFails
    PROVE  IInv' /\ \A j \in Slots : Held(j)' = Held(j)
<1>1. /\ txn' = Idle /\ Return("failed")
      /\ UNCHANGED << stored, ram, key, card, media, journal, recovering >>
  BY DEF ResolveCardFails, Unresolved, Return
<1> QED
  BY <1>1, NothingWritten, Ends, Replies

(* The journal of a settled transaction is of no more use.                 *)
LEMMA SettledRedundant ==
    ASSUME IInv, At("resolveClear"), NEW i \in Covered
    PROVE  Pending /\ Redundant(i)
<1>1. Pending /\ key[i] = Settled(i)
  BY DEF IInv, Flow, Written, At, Settling
<1>2. i \in Slots /\ ~Answers(i) /\ Outcome(i) \in Pairs /\ Net(Outcome(i)) = ram.net[i]
  BY <1>1, OutcomeFacts DEF Answers, IInv
<1>3. CASE ram.net[i] = None
  BY <1>1, <1>3, SettledKey DEF Redundant
<1>4. CASE ram.net[i] # None /\ LeftOnCard(i)
  <2>1. key[i] = Absent /\ CardOnly(i)
    BY <1>1, <1>2, <1>4, SettledKey DEF CardOnly
  <2> QED
    BY <1>1, <1>2, <1>4, <2>1 DEF Redundant, Held, IInv, OnOwnCard
<1>5. CASE ram.net[i] # None /\ ~LeftOnCard(i)
  <2>1. key[i] = Pass(Outcome(i)) /\ key[i] # Absent /\ Held(i) = Outcome(i)
    BY <1>1, <1>2, <1>5, SettledKey DEF CardOnly, Held
  <2>2. Outcome(i) = << Net(Outcome(i)), Pass(Outcome(i)) >>
    BY <1>2, PairFacts
  <2> QED
    BY <1>1, <1>2, <1>5, <2>1, <2>2 DEF Redundant
<1> QED
  BY <1>3, <1>4, <1>5

LEMMA ResolveClearKeeps ==
    ASSUME IInv, ResolveClear
    PROVE  IInv' /\ \A j \in Slots : Held(j)' = Held(j)
<1>1. /\ Running /\ Pending /\ At("resolveClear")
      /\ UNCHANGED << stored, ram, key, card, media, answer >>
      /\ journal' = NoJournal /\ recovering' = FALSE
  BY DEF ResolveClear, At, Running, IInv, Flow, Settling
<1>2. StoredOK' /\ \A j \in Slots : Held(j)' = Held(j)
  BY <1>1, SettledRedundant, JournalDropped
<1>3. RepliesOK'
  BY <1>1, Replies
<1>4. CASE txn.kind = "recover"
  <2>1. txn' = Idle
    BY <1>4 DEF ResolveClear
  <2> QED
    BY <1>2, <1>3, <2>1, Ends
<1>5. CASE txn.kind # "recover"
  <2>1. To("journal")
    BY <1>5 DEF ResolveClear
  <2>2. CallOK' /\ txn'.step = "journal"
    BY <1>1, <1>5, <2>1, StepTo DEF Steps
  <2>3. ~Pending'
    BY <1>1 DEF Pending, NoJournal
  <2>4. Flow' /\ Written' /\ Before'
    BY <2>2, <2>3 DEF Flow, Written, Before, At, Settling, Writing, Storing, Undoing
  <2> QED
    BY <1>2, <1>3, <2>2, <2>4 DEF IInv, StoredOK
<1> QED
  BY <1>4, <1>5

LEMMA ResolveClearFailsKeeps ==
    ASSUME IInv, ResolveClearFails
    PROVE  IInv' /\ \A j \in Slots : Held(j)' = Held(j)
<1>1. /\ At("resolveClear") /\ Pending
      /\ UNCHANGED << stored, ram, key, card, media, recovering >>
      /\ journal' \in { journal, NoJournal } /\ Return("failed") /\ txn' = Idle
  BY DEF ResolveClearFails, At, IInv, Flow, Settling, Return
<1>2. StoredOK' /\ \A j \in Slots : Held(j)' = Held(j)
  BY <1>1, SettledRedundant, JournalDropped, NothingWritten
<1> QED
  BY <1>1, <1>2, Ends, Replies

-----------------------------------------------------------------------------
(* The journal is written: the settings still name the old networks, so    *)
(* their generation does not decide for the new ones.                      *)

LEMMA MutationIs ==
    ASSUME IInv, At("journal")
    PROVE  /\ Running /\ txn \in Transactions /\ ~Pending /\ txn.kind \in Kinds \ { "recover" }
           /\ Target \in SUBSET Slots /\ txn.new \in [Target -> Pairs] /\ Apart(txn.new)
           /\ txn.kind # "forget" => \E i \in Slots : Target = { i }
           /\ txn.kind = "forget" => Target = Slots /\ \A i \in Slots : txn.new[i] = NoPair
<1>1. Running /\ ~Pending
  BY DEF At, Running, IInv, Flow
<1>2. txn \in Transactions /\ txn # Idle
  BY <1>1, RunningIs DEF Idle, Running
<1>3. txn.kind # "recover"
  BY <1>2 DEF IInv, CallOK, At, Settling
<1>4. DOMAIN txn.new \in SUBSET Slots /\ txn.new \in [DOMAIN txn.new -> Pairs]
  BY <1>2, ContentFacts DEF Transactions
<1> QED
  BY <1>1, <1>2, <1>3, <1>4 DEF IInv, CallOK, Transactions, Kinds, Target

(* wifiStaSlotCredentialSnapshot: the pair an undo returns to is the one   *)
(* the slot has, unless its password is on a card that is not there.       *)
LEMMA OldPairFacts ==
    ASSUME IInv, ~Pending, NEW i \in Slots
    PROVE  /\ OldPair(i) \in Pairs /\ Net(OldPair(i)) = ram.net[i]
           /\ ~Unknown(i) => OldPair(i) = Held(i)
           /\ Unknown(i) => CardOnly(i) /\ Held(i) = card[i]
           /\ CardOnly(i) <=> ram.net[i] # None /\ key[i] = Absent
           /\ CardOnly(i) => Upgraded /\ Held(i) = card[i]
           /\ ram.net[i] = None => key[i] = Absent
           /\ key[i] # Absent => Pass(OldPair(i)) = key[i]
<1>1. /\ Answers(i) /\ card \in [Slots -> Pairs] /\ key[i] \in Secrets \cup { Absent }
      /\ ram.net[i] \in Names
  BY DEF Answers, IInv, PlacesOK, SettingsOK, Keys
<1>2. CardOnly(i) <=> ram.net[i] # None /\ key[i] = Absent
  BY <1>1 DEF CardOnly
<1>3. ram.net[i] = None => key[i] = Absent
  BY <1>1 DEF IInv, NoLeftover
<1>4. CardOnly(i) => Upgraded /\ Held(i) = card[i] /\ Net(card[i]) = ram.net[i]
  BY <1>2 DEF IInv, OnOwnCard, Held
<1>5. Net(OldPair(i)) = ram.net[i] /\ Pass(OldPair(i)) = ReadPassword(i)
      /\ OldPair(i) = << ram.net[i], ReadPassword(i) >>
  BY DEF OldPair, Net, Pass
<1>6. CASE ram.net[i] = None
  <2>1. ReadPassword(i) = Open
    BY <1>6, RecoverableNone DEF ReadPassword
  <2>2. OldPair(i) = NoPair /\ Held(i) = NoPair /\ ~Unknown(i)
    BY <1>6, <2>1 DEF OldPair, NoPair, Held, Unknown
  <2> QED
    BY <1>2, <1>3, <1>5, <1>6, <2>2, NoPairFacts
<1>7. CASE ram.net[i] # None /\ key[i] # Absent
  <2>1. ReadPassword(i) = key[i]
    BY <1>7, RecoverableKey DEF ReadPassword
  <2>2. Held(i) = << ram.net[i], key[i] >> /\ ~Unknown(i)
    BY <1>1, <1>2, <1>7 DEF Held, Unknown
  <2>3. OldPair(i) \in Pairs
    BY <1>1, <1>5, <1>7, <2>1 DEF Names, Pairs
  <2> QED
    BY <1>2, <1>3, <1>5, <1>7, <2>1, <2>2, <2>3
<1>8. CASE ram.net[i] # None /\ key[i] = Absent
  <2>1. ReadPassword(i) \in Secrets
    BY <1>1, RecoverableType DEF ReadPassword, Secrets
  <2>2. OldPair(i) \in Pairs
    BY <1>1, <1>5, <1>8, <2>1 DEF Names, Pairs
  <2>3. ~Unknown(i) => ReadPassword(i) = Pass(card[i])
    BY <1>2, <1>4, <1>8, RecoverableCard DEF ReadPassword, Unknown
  <2>4. card[i] = << Net(card[i]), Pass(card[i]) >>
    BY <1>1, PairFacts
  <2> QED
    BY <1>2, <1>4, <1>5, <1>8, <2>2, <2>3, <2>4 DEF Unknown
<1> QED
  BY <1>6, <1>7, <1>8

LEMMA JournalWritten ==
    ASSUME IInv, At("journal"), CanCommit, journal' = Entry,
           UNCHANGED << stored, ram, key, card, media >>
    PROVE  /\ StoredOK' /\ \A j \in Slots : Held(j)' = Held(j)
           /\ Pending' /\ Undecided' /\ Covered' = Target /\ journal'.new = txn.new
           /\ journal'.mode = "all" <=> txn.kind = "forget"
           /\ journal'.mode = "one" => journal'.generation = stored.generation + 1
           /\ journal'.old = [i \in Target |-> OldPair(i)]
           /\ journal'.unknown = { i \in Target : Unknown(i) }
<1> USE MutationIs
<1>1. /\ journal'.mode = IF txn.kind = "forget" THEN "all" ELSE "one"
      /\ journal'.generation = IF txn.kind = "forget" THEN 0 ELSE stored.generation + 1
      /\ journal'.old = [i \in Target |-> OldPair(i)] /\ journal'.new = txn.new
      /\ journal'.unknown = { i \in Target : Unknown(i) }
  BY DEF Entry
<1>2. Pending' /\ Covered' = Target
  BY <1>1 DEF Pending, Covered
<1>3. stored.generation \in 1..MaxGeneration /\ ram.marker \in 0..MaxGeneration
      /\ ram.marker <= stored.generation /\ MaxGeneration \in Nat
  BY CredentialsAssumption DEF IInv, SettingsOK
<1>4. \A i \in Target : OldPair(i) \in Pairs /\ Net(OldPair(i)) = ram.net[i]
  BY OldPairFacts
<1>5. journal' \in Journals
  <2>1. journal'.old \in [Target -> Pairs]
    BY <1>1, <1>4
  <2>2. journal'.old \in Contents /\ journal'.new \in Contents
    BY <1>1, <2>1 DEF Contents
  <2>3. journal'.generation \in 0..MaxGeneration
    BY <1>1, <1>3 DEF CanCommit
  <2>4. journal'.unknown \in SUBSET Slots /\ journal'.mode \in { "one", "all" }
    BY <1>1
  <2>5. journal' = [ mode |-> journal'.mode, generation |-> journal'.generation,
                     old |-> journal'.old, new |-> journal'.new, unknown |-> journal'.unknown ]
    BY DEF Entry
  <2> QED
    BY <2>2, <2>3, <2>4, <2>5 DEF Journals
<1>6. journal'.mode = "one" => ~Committed(journal)'
  BY <1>1, <1>3 DEF Committed
<1>7. Committed(journal)' => Target = Slots /\ \A i \in Slots : ram.net[i] = None /\ txn.new[i] = NoPair
  BY <1>1, <1>6 DEF Committed, Configured
<1>8. \A i \in Target : Outcome(i)' = IF Committed(journal)' THEN txn.new[i] ELSE OldPair(i)
  BY <1>1 DEF Outcome
<1>9. \A i \in Target : ram.net[i] = Net(Outcome(i)')
  BY <1>4, <1>7, <1>8, NoPairFacts
<1>10. Apart(journal.old)' /\ Apart(journal.new)'
  <2>1. Apart(journal.new)'
    BY <1>1 DEF Apart, Net
  <2>2. ASSUME Upgraded, NEW i \in Target, NEW j \in Slots \ Target, ram.net[j] # None
        PROVE  ram.net[j] # Net(OldPair(i))
    BY <1>4, <2>2 DEF IInv, NamesApart
  <2> QED
    BY <1>1, <2>1, <2>2 DEF Apart, Net
<1>11. JournalTells'
  BY <1>1, <1>2, <1>5, <1>9, <1>10 DEF JournalTells, Net
<1>12. Undecided'
  <2>1. journal'.unknown # {} => media # "card"
    BY <1>1 DEF Unknown
  <2>2. \A i \in Target : ram.net[i] = Net(journal'.old[i])
    BY <1>1, <1>4
  <2> QED
    BY <1>2, <1>6, <2>1, <2>2 DEF Undecided, Net
<1>13. ASSUME NEW j \in Slots
       PROVE  /\ Answers(j) /\ (Answers(j)' <=> j \notin Target)
              /\ (j \in Target => CardOnly(j)' = Unknown(j))
              /\ (j \notin Target => CardOnly(j)' = CardOnly(j))
  <2>1. Answers(j) /\ (Answers(j)' <=> j \notin Target)
    BY <1>2 DEF Answers
  <2>2. j \notin Target => CardOnly(j)' = CardOnly(j)
    BY <2>1 DEF CardOnly
  <2>3. j \in Target => CardOnly(j)' = Unknown(j)
    <3>1. j \in Target => (LeftOnCard(j)' <=> ~Committed(journal)' /\ Unknown(j))
      BY <1>1 DEF LeftOnCard
    <3>2. Unknown(j) => ~Committed(journal)' /\ ram.net[j] # None
      BY <1>7 DEF Unknown
    <3> QED
      BY <2>1, <3>1, <3>2 DEF CardOnly, Unknown
  <2> QED
    BY <2>1, <2>2, <2>3
<1>14. ASSUME NEW j \in Slots PROVE Held(j)' = Held(j)
  <2>1. CASE j \notin Target
    BY <1>13, <2>1 DEF Held
  <2>2. CASE j \in Target /\ ram.net[j] = None
    BY <2>2 DEF Held
  <2>3. CASE j \in Target /\ ram.net[j] # None /\ Unknown(j)
    BY <1>13, <2>3, OldPairFacts DEF Held
  <2>4. CASE j \in Target /\ ram.net[j] # None /\ ~Unknown(j)
    <3>1. Held(j)' = OldPair(j)
      BY <1>7, <1>8, <1>13, <2>4 DEF Held
    <3> QED
      BY <2>4, <3>1, OldPairFacts
  <2> QED
    BY <2>1, <2>2, <2>3, <2>4
<1>15. NoLeftover'
  BY <1>13 DEF IInv, NoLeftover
<1>16. OnOwnCard'
  <2>1. \A j \in Slots : CardOnly(j)' => CardOnly(j)
    BY <1>13, OldPairFacts
  <2> QED
    BY <2>1 DEF IInv, OnOwnCard, Net
<1>17. NamesApart' /\ SettingsOK' /\ PlacesOK'
  BY DEF IInv, NamesApart, SettingsOK, PlacesOK
<1> QED
  BY <1>1, <1>2, <1>11, <1>12, <1>14, <1>15, <1>16, <1>17 DEF StoredOK

LEMMA WriteJournalKeeps ==
    ASSUME IInv, WriteJournal
    PROVE  IInv' /\ \A j \in Slots : Held(j)' = Held(j)
<1>1. /\ At("journal") /\ CanCommit /\ journal' = Entry
      /\ txn' = [txn EXCEPT !.step = "keys", !.before = key]
      /\ UNCHANGED << stored, ram, key, card, media, recovering, answer >>
  BY DEF WriteJournal
<1>2. /\ StoredOK' /\ \A j \in Slots : Held(j)' = Held(j)
      /\ Pending' /\ Undecided' /\ Covered' = Target /\ journal'.new = txn.new
      /\ journal'.mode = "all" <=> txn.kind = "forget"
      /\ journal'.mode = "one" => journal'.generation = stored.generation + 1
      /\ journal'.old = [i \in Target |-> OldPair(i)]
      /\ journal'.unknown = { i \in Target : Unknown(i) }
  BY <1>1, JournalWritten
<1>3. /\ Running /\ ~Pending /\ txn \in Transactions /\ txn.kind # "recover" /\ key \in Keys
      /\ Target \subseteq Slots
  BY <1>1, MutationIs DEF IInv, PlacesOK
<1>4. CallOK' /\ txn'.step = "keys" /\ txn'.before = key /\ txn'.kind = txn.kind
      /\ txn'.new = txn.new
  <2>1. txn' = [txn EXCEPT !.step = "keys", !.before = key, !.cardToo = txn.cardToo,
                           !.intact = txn.intact]
    BY <1>1, <1>3 DEF Transactions
  <2>2. txn.cardToo \in BOOLEAN /\ txn.intact \in BOOLEAN /\ "keys" \in Steps
    BY <1>3 DEF Transactions, Steps, Writing, Storing
  <2>3. key \in Keys \cup { << >> } /\ ram' = ram
    BY <1>1, <1>3
  <2> QED
    BY <1>3, <2>1, <2>2, <2>3, StepTaken
<1>5. OwnJournal'
  BY <1>2, <1>3, <1>4 DEF OwnJournal
<1>6. Flow' /\ Written'
  BY <1>1, <1>2, <1>4, <1>5 DEF Flow, Written, At, Settling, Writing, Storing, Undoing
<1>7. Before'
  <2>1. ASSUME NEW i \in Target PROVE Recorded(i)'
    <3>1. /\ key[i] # Absent => ram.net[i] # None /\ Pass(journal'.old[i]) = key[i]
          /\ Unknown(i) => key[i] = Absent /\ ram.net[i] # None
          /\ key[i] = Absent /\ ram.net[i] # None =>
                /\ Upgraded /\ (Unknown(i) \/ media = "card")
                /\ ~Unknown(i) => card[i] = journal'.old[i]
      BY <1>2, <1>3, OldPairFacts DEF Unknown
    <3> QED
      BY <1>1, <1>2, <1>4, <3>1 DEF Recorded, Pass
  <2> QED
    BY <1>2, <2>1 DEF Before
<1>8. RepliesOK'
  BY <1>1, Replies
<1> QED
  BY <1>2, <1>4, <1>6, <1>7, <1>8 DEF IInv, StoredOK

LEMMA WriteJournalFailsKeeps ==
    ASSUME IInv, WriteJournalFails
    PROVE  IInv' /\ \A j \in Slots : Held(j)' = Held(j)
<1>1. /\ At("journal") /\ Return("failed") /\ txn' = Idle
      /\ \/ journal' = journal
         \/ CanCommit /\ journal' = Entry
      /\ UNCHANGED << stored, ram, key, card, media, recovering >>
  BY DEF WriteJournalFails, Return
<1>2. StoredOK' /\ \A j \in Slots : Held(j)' = Held(j)
  BY <1>1, JournalWritten, NothingWritten
<1> QED
  BY <1>1, <1>2, Ends, Replies

LEMMA AlreadyForgottenKeeps ==
    ASSUME IInv, AlreadyForgotten
    PROVE  IInv' /\ \A j \in Slots : Held(j)' = Held(j)
<1>1. /\ txn' = Idle /\ Return("ok")
      /\ UNCHANGED << stored, ram, key, card, media, journal, recovering >>
  BY DEF AlreadyForgotten, Return
<1> QED
  BY <1>1, NothingWritten, Ends, Replies

-----------------------------------------------------------------------------
(* The writes of a mutation, and their undoing.                            *)

LEMMA OwnFacts ==
    ASSUME IInv, txn.step \in Writing \cup { "clear" }
    PROVE  /\ Running /\ Pending /\ txn \in Transactions /\ txn.kind \in Kinds \ { "recover" }
           /\ Covered = Target /\ Target \in SUBSET Slots /\ journal.new = txn.new
           /\ txn.new \in [Target -> Pairs] /\ journal.old \in [Target -> Pairs]
           /\ Apart(txn.new) /\ Apart(journal.old) /\ txn.before \in Keys
           /\ txn.kind # "forget" => journal.mode = "one" /\ \E i \in Slots : Target = { i }
           /\ txn.kind = "forget" => /\ journal.mode = "all" /\ Target = Slots
                                     /\ \A i \in Slots : txn.new[i] = NoPair
           /\ txn.kind \in { "set", "edit" } => \A i \in Target : Net(txn.new[i]) # None
           /\ txn.kind = "clear" => \A i \in Target : txn.new[i] = NoPair
<1>1. Running /\ OwnJournal
  BY DEF IInv, Flow, Running, Writing, Storing, Undoing
<1>2. Pending /\ journal.new = txn.new /\ txn.kind # "recover" /\ txn.before \in Keys
      /\ (journal.mode = "all" <=> txn.kind = "forget")
  BY <1>1 DEF OwnJournal
<1>3. txn \in Transactions /\ txn # Idle
  BY <1>1, RunningIs DEF Idle, Running
<1>4. journal \in Journals /\ DOMAIN journal.new = Covered /\ Apart(journal.old)
  BY <1>2 DEF IInv, JournalTells, Pending, NoJournal
<1>5. Covered = Target
  BY <1>2, <1>4 DEF Target
<1>6. Target \in SUBSET Slots /\ txn.new \in [Target -> Pairs] /\ journal.old \in [Target -> Pairs]
  BY <1>3, <1>4, <1>5, ContentFacts DEF Transactions, Journals, Target, Covered
<1>7. txn.kind \in Kinds /\ journal.mode \in { "one", "all" }
  BY <1>3, <1>4 DEF Transactions, Journals
<1> QED
  BY <1>1, <1>2, <1>3, <1>4, <1>5, <1>6, <1>7 DEF IInv, CallOK, Kinds

(* A mutation that goes on owes what it owed.                              *)
LEMMA WritesOn ==
    ASSUME IInv, txn.step \in Writing, NEW p \in Writing, p \in Storing => txn.step \in Storing,
           txn'.step = p, txn'.kind = txn.kind, txn'.new = txn.new, txn'.before = txn.before,
           UNCHANGED << stored, ram, media, journal >>,
           CardUntouched' => CardUntouched /\ card' = card
    PROVE  Flow' /\ Before'
<1>1. OwnJournal /\ Undecided /\ \A i \in Covered : Recorded(i)
  BY DEF IInv, Flow, Before
<1>2. Covered' = Covered /\ Pending' = Pending /\ Committed(journal)' = Committed(journal)
  BY SameJournal
<1>3. OwnJournal' /\ Undecided'
  BY <1>1, <1>2 DEF OwnJournal, Undecided, Net
<1>4. Flow'
  BY <1>3 DEF IInv, Flow, At, Settling, Writing, Storing, Undoing
<1>5. \A i : Recorded(i) => Recorded(i)'
  BY DEF Recorded, Pass
<1> QED
  BY <1>1, <1>2, <1>4, <1>5 DEF Before

(* A mutation turns back.                                                  *)
LEMMA UndoBegins ==
    ASSUME IInv, txn.step \in Storing, NEW c \in BOOLEAN, Undo(c),
           UNCHANGED << stored, ram, card, media, journal >>,
           ~c => CardUntouched
    PROVE  CallOK' /\ Flow' /\ Written' /\ Before'
<1>1. Running /\ txn \in Transactions /\ txn.kind # "recover"
  BY OwnFacts DEF Writing
<1>2. txn' = [txn EXCEPT !.step = "undoKeys", !.before = txn.before, !.cardToo = c,
                         !.intact = txn.intact]
  BY <1>1 DEF Undo, Transactions
<1>3. txn.before \in Keys \cup { << >> } /\ txn.intact \in BOOLEAN /\ "undoKeys" \in Steps
  BY <1>1 DEF Transactions, Steps, Writing, Undoing
<1>4. /\ CallOK' /\ txn'.step = "undoKeys" /\ txn'.before = txn.before /\ txn'.cardToo = c
      /\ txn'.kind = txn.kind /\ txn'.new = txn.new
  BY <1>1, <1>2, <1>3, StepTaken
<1>5. CardUntouched' => CardUntouched
  BY <1>4 DEF CardUntouched, At
<1>6. Flow' /\ Before'
  BY <1>4, <1>5, WritesOn DEF Writing, Storing, Undoing
<1>7. Written'
  BY <1>4 DEF Written, At
<1> QED
  BY <1>4, <1>6, <1>7

LEMMA CandidateKey ==
    ASSUME IInv, txn.step \in Writing \cup { "clear" }, NEW i \in Target
    PROVE  /\ Candidate(i) \in Secrets \cup { Absent }
           /\ Net(txn.new[i]) = None => Candidate(i) = Absent
           /\ Net(txn.new[i]) # None => Candidate(i) = Pass(txn.new[i]) /\ Candidate(i) # Absent
<1>1. txn.new[i] \in Pairs
  BY OwnFacts
<1> QED
  BY <1>1, KeyForFacts DEF Candidate

LEMMA StoreKeysKeeps ==
    ASSUME IInv, StoreKeys
    PROVE  IInv' /\ \A j \in Slots : Held(j)' = Held(j)
<1>1. /\ txn.step \in Storing /\ To("card") /\ CardUntouched
      /\ key' = [i \in Slots |-> IF i \in Target THEN Candidate(i) ELSE key[i]]
      /\ UNCHANGED << stored, ram, card, media, journal, recovering, answer >>
  BY DEF StoreKeys, At, Storing, CardUntouched
<1>2. /\ Running /\ Pending /\ Covered = Target /\ Target \subseteq Slots /\ txn.kind # "recover"
  BY <1>1, OwnFacts DEF Writing
<1>3. key' \in Keys
  BY <1>1, CandidateKey DEF Keys, IInv, PlacesOK, Writing
<1>4. StoredOK' /\ \A j \in Slots : Held(j)' = Held(j)
  BY <1>1, <1>2, <1>3, KeysWritten
<1>5. /\ CallOK' /\ txn'.step = "card" /\ txn'.before = txn.before
      /\ txn'.kind = txn.kind /\ txn'.new = txn.new
  BY <1>1, <1>2, StepTo DEF Steps, Writing, Storing
<1>6. Flow' /\ Before'
  BY <1>1, <1>5, WritesOn DEF Writing, Storing
<1>7. Written'
  <2>1. Covered' = Covered /\ \A i : Candidate(i)' = Candidate(i)
    BY <1>1, <1>5, SameJournal DEF Candidate, KeyFor, Net, Pass
  <2>2. \A i \in Covered : key'[i] = Candidate(i)
    BY <1>1, <1>2
  <2> QED
    BY <1>5, <2>1, <2>2 DEF Written, At
<1>8. RepliesOK'
  BY <1>1, Replies
<1> QED
  BY <1>4, <1>5, <1>6, <1>7, <1>8 DEF IInv, StoredOK

LEMMA StoreKeysFailsKeeps ==
    ASSUME IInv, StoreKeysFails
    PROVE  IInv' /\ \A j \in Slots : Held(j)' = Held(j)
<1>1. /\ txn.step \in Storing /\ CardUntouched
      /\ UNCHANGED << stored, ram, card, media, journal, recovering, answer >>
  BY DEF StoreKeysFails, At, Storing, CardUntouched
<1>2. PICK W \in SUBSET Target :
         key' = [i \in Slots |-> IF i \in W THEN Candidate(i) ELSE key[i]]
  BY DEF StoreKeysFails
<1>3. PICK c \in BOOLEAN : Undo(c)
  BY DEF StoreKeysFails
<1>4. Pending /\ Covered = Target
  BY <1>1, OwnFacts DEF Writing
<1>5. key' \in Keys /\ \A j \in Slots \ Covered : key'[j] = key[j]
  BY <1>2, <1>1, <1>4, CandidateKey DEF Keys, IInv, PlacesOK, Writing
<1>6. StoredOK' /\ \A j \in Slots : Held(j)' = Held(j)
  BY <1>1, <1>4, <1>5, KeysWritten
<1>7. CallOK' /\ Flow' /\ Written' /\ Before'
  BY <1>1, <1>3, UndoBegins
<1>8. RepliesOK'
  BY <1>1, Replies
<1> QED
  BY <1>6, <1>7, <1>8 DEF IInv, StoredOK

(* A card that is written has no password which the journal leaves to it,  *)
(* and the passwords it alone has lie under other names.                   *)
LEMMA CardOfMutation ==
    ASSUME IInv, txn.step \in Writing, media = "card", NEW j \in Slots, CardOnly(j)
    PROVE  /\ journal.unknown = {} /\ j \notin Target /\ j \in Configured
           /\ \A i \in Target : /\ Net(card[j]) # Net(txn.new[i]) /\ Net(card[j]) # ram.net[i]
                                /\ Net(card[j]) # Net(journal.old[i])
<1>1. journal.unknown = {}
  BY DEF IInv, Flow, Undecided
<1>2. Answers(j)
  BY <1>1 DEF CardOnly, LeftOnCard
<1>3. Upgraded /\ Net(card[j]) = ram.net[j] /\ ram.net[j] # None /\ j \notin Target
  BY <1>2, CardOnlyElsewhere, OwnFacts
<1>4. ASSUME NEW i \in Target
      PROVE  /\ Net(card[j]) # Net(txn.new[i]) /\ Net(card[j]) # ram.net[i]
             /\ Net(card[j]) # Net(journal.old[i])
  <2>1. Apart(txn.new) /\ Apart(journal.old) /\ DOMAIN txn.new = Target
        /\ DOMAIN journal.old = Target /\ i \in Slots
    BY OwnFacts
  <2>2. ram.net[j] # Net(txn.new[i]) /\ ram.net[j] # Net(journal.old[i])
    BY <1>3, <2>1 DEF Apart
  <2>3. ram.net[j] # ram.net[i]
    BY <1>3, <2>1 DEF IInv, NamesApart
  <2> QED
    BY <1>3, <2>2, <2>3
<1> QED
  BY <1>1, <1>3, <1>4 DEF Configured

LEMMA NewCardFacts ==
    ASSUME IInv, txn.step \in Writing, media = "card"
    PROVE  /\ NewCard \in [Slots -> Pairs] /\ OldCard \in [Slots -> Pairs]
           /\ \A j \in Slots : CardOnly(j) => NewCard[j] = card[j] /\ OldCard[j] = card[j]
<1>1. card \in [Slots -> Pairs] /\ journal.unknown = {} /\ Configured \subseteq Slots
  BY DEF IInv, PlacesOK, Flow, Undecided, Configured
<1>2. txn.kind \in Kinds \ { "recover" } /\ txn.new \in [Target -> Pairs]
      /\ journal.old \in [Target -> Pairs]
  BY OwnFacts
<1>3. CASE txn.kind = "forget"
  <2>1. Target = Slots
    BY <1>3, OwnFacts
  <2>2. NewCard = [j \in Slots |-> NoPair]
    BY <1>1, <1>3, <2>1 DEF NewCard
  <2>3. OldCard = journal.old
    BY <1>1, <1>3 DEF OldCard
  <2> QED
    BY <1>2, <2>1, <2>2, <2>3, CardOfMutation, NoPairFacts
<1>4. CASE txn.kind # "forget"
  <2>1. PICK i \in Slots : Target = { i }
    BY <1>4, OwnFacts
  <2>2. Only(Target) = i
    BY <2>1 DEF Only
  <2>3. txn.new[i] \in Pairs /\ journal.old[i] \in Pairs
    BY <1>2, <2>1
  <2>4. \A j \in Slots : CardOnly(j) =>
           /\ j # i /\ j \in Configured /\ Net(card[j]) # Net(txn.new[i])
           /\ Net(card[j]) # ram.net[i] /\ Net(card[j]) # Net(journal.old[i])
    BY <2>1, CardOfMutation
  <2>5. /\ NewCard \in [Slots -> Pairs] /\ \A j \in Slots : CardOnly(j) => NewCard[j] = card[j]
    <3>1. CASE txn.kind \in { "set", "edit" }
      <4>1. NewCard = SaveOnCard(i, txn.new[i])
        BY <2>2, <3>1 DEF NewCard
      <4> QED
        BY <1>1, <2>3, <2>4, <4>1, SavedOnCard
    <3>2. CASE txn.kind = "clear" /\ Configured \subseteq Target
      <4>1. NewCard = [j \in Slots |-> NoPair]
        BY <3>2 DEF NewCard
      <4> QED
        BY <2>1, <2>4, <3>2, <4>1, NoPairFacts
    <3>3. CASE txn.kind = "clear" /\ ~(Configured \subseteq Target)
      <4>1. NewCard = RemoveFromCard(i, ram.net[i])
        BY <2>2, <3>3 DEF NewCard
      <4> QED
        BY <1>1, <2>4, <4>1, RemovedFromCard
    <3> QED
      BY <1>2, <1>4, <3>1, <3>2, <3>3 DEF Kinds
  <2>6. /\ OldCard \in [Slots -> Pairs] /\ \A j \in Slots : CardOnly(j) => OldCard[j] = card[j]
    <3>1. CASE ram.net[i] # None
      <4>1. OldCard = SaveOnCard(i, journal.old[i])
        BY <1>4, <2>2, <3>1 DEF OldCard
      <4> QED
        BY <1>1, <2>3, <2>4, <4>1, SavedOnCard
    <3>2. CASE ram.net[i] = None /\ txn.kind = "clear"
      BY <1>1, <1>4, <2>2, <3>2 DEF OldCard
    <3>3. CASE ram.net[i] = None /\ txn.kind # "clear"
      <4>1. OldCard = RemoveFromCard(i, Net(txn.new[i]))
        BY <1>4, <2>2, <3>3 DEF OldCard
      <4> QED
        BY <1>1, <2>4, <4>1, RemovedFromCard
    <3> QED
      BY <3>1, <3>2, <3>3
  <2> QED
    BY <2>5, <2>6
<1> QED
  BY <1>3, <1>4

LEMMA StoreCardKeeps ==
    ASSUME IInv, StoreCard
    PROVE  IInv' /\ \A j \in Slots : Held(j)' = Held(j)
<1>1. /\ txn.step = "card" /\ txn.step \in Storing /\ txn.step \in Writing /\ To("commit")
      /\ card' = IF media = "card" THEN NewCard ELSE card
      /\ UNCHANGED << stored, ram, key, media, journal, recovering, answer >>
  BY DEF StoreCard, At, Storing, Writing
<1>2. Running /\ txn.kind # "recover"
  BY <1>1, OwnFacts
<1>3. card' \in [Slots -> Pairs] /\ \A j \in Slots : CardOnly(j) => card'[j] = card[j]
  BY <1>1, NewCardFacts DEF IInv, PlacesOK
<1>4. StoredOK' /\ \A j \in Slots : Held(j)' = Held(j)
  BY <1>1, <1>3, CardWritten
<1>5. /\ CallOK' /\ txn'.step = "commit" /\ txn'.before = txn.before
      /\ txn'.kind = txn.kind /\ txn'.new = txn.new
  BY <1>1, <1>2, StepTo DEF Steps, Writing, Storing
<1>6. ~CardUntouched'
  BY <1>5 DEF CardUntouched, At
<1>7. Flow' /\ Before'
  BY <1>1, <1>5, <1>6, WritesOn DEF Writing, Storing
<1>8. Written'
  <2>1. Covered' = Covered /\ \A i : Candidate(i)' = Candidate(i)
    BY <1>1, <1>5, SameJournal DEF Candidate, KeyFor, Net, Pass
  <2> QED
    BY <1>1, <1>5, <2>1 DEF IInv, Written, At
<1>9. RepliesOK'
  BY <1>1, Replies
<1> QED
  BY <1>4, <1>5, <1>7, <1>8, <1>9 DEF IInv, StoredOK

LEMMA TurnsBack ==
    ASSUME IInv, StoreCardFails \/ CommitSettingsFails
    PROVE  IInv' /\ \A j \in Slots : Held(j)' = Held(j)
<1>1. /\ txn.step \in Storing /\ Undo(TRUE)
      /\ UNCHANGED << stored, ram, key, card, media, journal, recovering, answer >>
  BY DEF StoreCardFails, CommitSettingsFails, At, Storing
<1>2. StoredOK' /\ \A j \in Slots : Held(j)' = Held(j)
  BY <1>1, NothingWritten
<1>3. CallOK' /\ Flow' /\ Written' /\ Before'
  BY <1>1, UndoBegins
<1>4. RepliesOK'
  BY <1>1, Replies
<1> QED
  BY <1>2, <1>3, <1>4 DEF IInv, StoredOK

(* restoreWifiPasswordNvsSnapshot                                          *)
LEMMA UndoKeysKeeps ==
    ASSUME IInv, UndoKeys
    PROVE  IInv' /\ \A j \in Slots : Held(j)' = Held(j)
<1>1. /\ At("undoKeys") /\ txn.step \in Writing /\ txn.step \notin Storing
      /\ UNCHANGED << stored, ram, card, media, journal, recovering >>
  BY DEF UndoKeys, At, Storing, Writing, Undoing
<1>2. PICK W \in SUBSET Target, ok \in BOOLEAN :
         /\ ok => W = Target
         /\ key' = [i \in Slots |-> IF i \in W THEN txn.before[i] ELSE key[i]]
         /\ IF txn.cardToo
            THEN txn' = [txn EXCEPT !.step = "undoCard", !.intact = ok] /\ UNCHANGED answer
            ELSE AfterUndo(ok)
  BY DEF UndoKeys
<1>3. /\ Running /\ Pending /\ Covered = Target /\ Target \subseteq Slots
      /\ txn \in Transactions /\ txn.kind # "recover" /\ txn.before \in Keys
  BY <1>1, OwnFacts
<1>4. key' \in Keys /\ \A j \in Slots \ Covered : key'[j] = key[j]
  BY <1>2, <1>3 DEF Keys, IInv, PlacesOK
<1>5. StoredOK' /\ \A j \in Slots : Held(j)' = Held(j)
  BY <1>1, <1>3, <1>4, KeysWritten
<1>6. Covered' = Covered
  BY <1>1, SameJournal
<1>7. ok => \A i \in Covered : key'[i] = txn.before[i]
  BY <1>2, <1>3
<1>8. CASE txn.cardToo
  <2>1. txn' = [txn EXCEPT !.step = "undoCard", !.before = txn.before,
                           !.cardToo = txn.cardToo, !.intact = ok]
    BY <1>2, <1>3, <1>8 DEF Transactions
  <2>2. txn.before \in Keys \cup { << >> } /\ txn.cardToo \in BOOLEAN /\ "undoCard" \in Steps
    BY <1>3 DEF Transactions, Steps, Writing, Undoing
  <2>3. /\ CallOK' /\ txn'.step = "undoCard" /\ txn'.before = txn.before /\ txn'.intact = ok
        /\ txn'.kind = txn.kind /\ txn'.new = txn.new
    BY <1>1, <1>3, <2>1, <2>2, StepTaken
  <2>4. ~CardUntouched'
    BY <2>3 DEF CardUntouched, At
  <2>5. Flow' /\ Before'
    BY <1>1, <2>3, <2>4, WritesOn DEF Writing, Storing, Undoing
  <2>6. Written'
    BY <1>6, <1>7, <2>3 DEF Written, At
  <2>7. RepliesOK'
    BY <1>1, <1>2, <1>8, Replies
  <2> QED
    BY <1>5, <2>3, <2>5, <2>6, <2>7 DEF IInv, StoredOK
<1>9. CASE ~txn.cardToo /\ ok
  <2>1. To("undoClear") /\ UNCHANGED answer
    BY <1>2, <1>9 DEF AfterUndo, To
  <2>2. /\ CallOK' /\ txn'.step = "undoClear" /\ txn'.before = txn.before
        /\ txn'.kind = txn.kind /\ txn'.new = txn.new
    BY <1>1, <1>3, <2>1, StepTo DEF Steps, Writing, Undoing
  <2>3. CardUntouched
    BY <1>1, <1>9 DEF CardUntouched
  <2>4. Flow' /\ Before'
    BY <1>1, <2>2, <2>3, WritesOn DEF Writing, Storing, Undoing
  <2>5. Written'
    BY <1>6, <1>7, <1>9, <2>2 DEF Written, At
  <2>6. RepliesOK'
    BY <1>1, <2>1, Replies
  <2> QED
    BY <1>5, <2>2, <2>4, <2>5, <2>6 DEF IInv, StoredOK
<1>10. CASE ~txn.cardToo /\ ~ok
  <2>1. txn' = Idle /\ Return("failed")
    BY <1>2, <1>10 DEF AfterUndo, Return
  <2> QED
    BY <1>1, <1>5, <2>1, Ends, Replies
<1> QED
  BY <1>8, <1>9, <1>10

(* After an undo the card holds what the journal would return to.          *)
LEMMA OldCardRecords ==
    ASSUME IInv, txn.step \in Writing, media = "card", NEW i \in Target, ram.net[i] # None
    PROVE  OldCard[i] = journal.old[i]
<1>1. card \in [Slots -> Pairs] /\ journal.unknown = {}
  BY DEF IInv, PlacesOK, Flow, Undecided
<1>2. CASE txn.kind = "forget"
  BY <1>1, <1>2 DEF OldCard
<1>3. CASE txn.kind # "forget"
  <2>1. Target = { i } /\ i \in Slots /\ journal.old[i] \in Pairs
    BY <1>3, OwnFacts
  <2>2. Only(Target) = i
    BY <2>1 DEF Only
  <2>3. OldCard = SaveOnCard(i, journal.old[i])
    BY <1>3, <2>2 DEF OldCard
  <2> QED
    BY <1>1, <2>1, <2>3, SavedOnCard
<1> QED
  BY <1>2, <1>3

LEMMA UndoCardKeeps ==
    ASSUME IInv, UndoCard
    PROVE  IInv' /\ \A j \in Slots : Held(j)' = Held(j)
<1>1. /\ At("undoCard") /\ txn.step \in Writing /\ txn.step \notin Storing
      /\ card' = IF media = "card" THEN OldCard ELSE card
      /\ UNCHANGED << stored, ram, key, media, journal, recovering >>
      /\ AfterUndo(txn.intact)
  BY DEF UndoCard, At, Storing, Writing, Undoing
<1>2. Running /\ txn.kind # "recover" /\ Covered = Target
  BY <1>1, OwnFacts
<1>3. card' \in [Slots -> Pairs] /\ \A j \in Slots : CardOnly(j) => card'[j] = card[j]
  BY <1>1, NewCardFacts DEF IInv, PlacesOK
<1>4. StoredOK' /\ \A j \in Slots : Held(j)' = Held(j)
  BY <1>1, <1>3, CardWritten
<1>5. CASE txn.intact
  <2>1. To("undoClear") /\ UNCHANGED answer
    BY <1>1, <1>5 DEF AfterUndo, To
  <2>2. /\ CallOK' /\ txn'.step = "undoClear" /\ txn'.before = txn.before
        /\ txn'.kind = txn.kind /\ txn'.new = txn.new
    BY <1>1, <1>2, <2>1, StepTo DEF Steps, Writing, Undoing
  <2>3. /\ Covered' = Covered /\ Pending' = Pending
        /\ Committed(journal)' = Committed(journal)
    BY <1>1, SameJournal
  <2>4. OwnJournal /\ Undecided /\ \A i \in Covered : Recorded(i)
    BY <1>1 DEF IInv, Flow, Before
  <2>5. OwnJournal' /\ Undecided'
    BY <1>1, <2>2, <2>3, <2>4 DEF OwnJournal, Undecided, Net
  <2>6. Flow'
    BY <2>2, <2>5 DEF Flow, At, Settling, Writing, Storing, Undoing
  <2>7. ASSUME NEW i \in Covered PROVE Recorded(i)'
    <3>1. media = "card" /\ ram.net[i] # None => card'[i] = journal.old[i]
      BY <1>1, <1>2, OldCardRecords
    <3>2. Recorded(i)
      BY <2>4
    <3> QED
      BY <1>1, <2>2, <3>1, <3>2 DEF Recorded, Pass
  <2>8. Before'
    BY <2>3, <2>7 DEF Before
  <2>9. Written'
    <3>1. \A i \in Covered : key[i] = txn.before[i]
      BY <1>1, <1>5 DEF IInv, Written, At
    <3> QED
      BY <1>1, <2>2, <2>3, <3>1 DEF Written, At
  <2>10. RepliesOK'
    BY <1>1, <2>1, Replies
  <2> QED
    BY <1>4, <2>2, <2>6, <2>8, <2>9, <2>10 DEF IInv, StoredOK
<1>6. CASE ~txn.intact
  <2>1. txn' = Idle /\ Return("failed")
    BY <1>1, <1>6 DEF AfterUndo, Return
  <2> QED
    BY <1>1, <1>4, <2>1, Ends, Replies
<1> QED
  BY <1>5, <1>6

LEMMA UndoCardFailsKeeps ==
    ASSUME IInv, UndoCardFails
    PROVE  IInv' /\ \A j \in Slots : Held(j)' = Held(j)
<1>1. /\ txn' = Idle /\ Return("failed")
      /\ UNCHANGED << stored, ram, key, card, media, journal, recovering >>
  BY DEF UndoCardFails, Return
<1> QED
  BY <1>1, NothingWritten, Ends, Replies

(* An undo that went through needs its journal no more.                    *)
LEMMA UndoneRedundant ==
    ASSUME IInv, At("undoClear"), NEW i \in Covered
    PROVE  Pending /\ Redundant(i)
<1>1. txn.step \in Writing /\ CardUntouched
  BY DEF At, Writing, Undoing, CardUntouched
<1>2. Pending /\ i \in Slots /\ journal.old[i] \in Pairs /\ Covered = Target
      /\ journal.mode \in { "one", "all" }
  BY <1>1, OwnFacts
<1>3. key[i] = txn.before[i] /\ Recorded(i) /\ Undecided
  BY <1>1 DEF IInv, Written, Before, Flow, At
<1>4. ~Answers(i)
  BY <1>2 DEF Answers
<1>5. CASE ram.net[i] = None
  BY <1>2, <1>3, <1>5 DEF Recorded, Redundant
<1>6. CASE ram.net[i] # None
  <2>1. ~Committed(journal) /\ Outcome(i) = journal.old[i] /\ ram.net[i] = Net(journal.old[i])
    BY <1>2, <1>3, <1>6 DEF Undecided, Committed, Configured, Outcome
  <2>2. journal.old[i] = << ram.net[i], Pass(journal.old[i]) >>
    BY <1>2, <2>1, PairFacts
  <2>3. CASE i \in journal.unknown
    <3>1. key[i] = Absent /\ CardOnly(i) /\ Held(i) = card[i] /\ Upgraded
      BY <1>2, <1>3, <1>4, <1>6, <2>1, <2>3 DEF Recorded, CardOnly, LeftOnCard, Held
    <3> QED
      BY <1>2, <1>6, <3>1 DEF Redundant
  <2>4. CASE i \notin journal.unknown
    <3>1. Held(i) = journal.old[i]
      BY <1>4, <1>6, <2>1, <2>4 DEF CardOnly, LeftOnCard, Held
    <3> QED
      BY <1>1, <1>2, <1>3, <1>6, <2>2, <2>4, <3>1 DEF Recorded, Redundant
  <2> QED
    BY <2>3, <2>4
<1> QED
  BY <1>5, <1>6

LEMMA UndoClearKeeps ==
    ASSUME IInv, UndoClear
    PROVE  IInv' /\ \A j \in Slots : Held(j)' = Held(j)
<1>1. /\ At("undoClear") /\ Return("failed") /\ txn' = Idle
      /\ (journal' = journal \/ journal' = NoJournal)
      /\ UNCHANGED << stored, ram, key, card, media, recovering >>
  BY DEF UndoClear, Return
<1>2. Pending
  BY <1>1, OwnFacts DEF At, Writing, Undoing
<1>3. StoredOK' /\ \A j \in Slots : Held(j)' = Held(j)
  BY <1>1, <1>2, UndoneRedundant, JournalDropped, NothingWritten
<1> QED
  BY <1>1, <1>3, Ends, Replies

(* A key that was stored answers as its committed journal does.            *)
LEMMA CommittedRedundant ==
    ASSUME IInv, At("clear"), NEW i \in Covered
    PROVE  Pending /\ Redundant(i)
<1>1. /\ Pending /\ Covered = Target /\ i \in Slots /\ journal.new = txn.new
      /\ txn.new[i] \in Pairs
  BY OwnFacts DEF At
<1>2. Committed(journal) /\ key[i] = Candidate(i) /\ ram.net[i] = Net(Outcome(i))
  BY <1>1 DEF IInv, Flow, Written, At, JournalTells, Pending, NoJournal
<1>3. Outcome(i) = txn.new[i] /\ ~CardOnly(i) /\ ~Answers(i)
  BY <1>1, <1>2 DEF Outcome, CardOnly, LeftOnCard, Answers
<1>4. /\ ram.net[i] = None => key[i] = Absent
      /\ ram.net[i] # None => key[i] = Pass(txn.new[i]) /\ key[i] # Absent
  BY <1>1, <1>2, <1>3, CandidateKey DEF At
<1>5. ram.net[i] # None => Held(i) = << ram.net[i], key[i] >>
  BY <1>1, <1>2, <1>3, <1>4, PairFacts DEF Held
<1> QED
  BY <1>1, <1>4, <1>5 DEF Redundant

LEMMA ClearJournalKeeps ==
    ASSUME IInv, ClearJournal
    PROVE  IInv' /\ \A j \in Slots : Held(j)' = Held(j)
<1>1. /\ At("clear") /\ Return("ok") /\ txn' = Idle
      /\ (journal' = journal \/ journal' = NoJournal)
      /\ UNCHANGED << stored, ram, key, card, media, recovering >>
  BY DEF ClearJournal, Return
<1>2. Pending
  BY <1>1, OwnFacts DEF At
<1>3. StoredOK' /\ \A j \in Slots : Held(j)' = Held(j)
  BY <1>1, <1>2, CommittedRedundant, JournalDropped, NothingWritten
<1> QED
  BY <1>1, <1>3, Ends, Replies

(* The commit of the settings decides: networks and passwords of the call  *)
(* take effect with it, and those of no other slot change.                 *)
LEMMA CommitSettingsKeeps ==
    ASSUME IInv, CommitSettings
    PROVE  /\ IInv'
           /\ \A j \in Slots : Held(j)' = IF j \in Target THEN txn.new[j] ELSE Held(j)
<1>1. /\ txn.step = "commit" /\ txn.step \in Storing /\ txn.step \in Writing
      /\ stored.generation < MaxGeneration /\ To("clear")
      /\ ram' = [marker |-> Marker, net |-> NewNet]
      /\ stored' = [generation |-> stored.generation + 1, marker |-> Marker, net |-> NewNet]
      /\ UNCHANGED << key, card, media, journal, recovering, answer >>
  BY DEF CommitSettings, At, Storing, Writing
<1>2. /\ Running /\ Pending /\ txn.kind \in Kinds \ { "recover" }
      /\ txn \in Transactions /\ Covered = Target /\ Target \subseteq Slots
      /\ journal.new = txn.new /\ txn.new \in [Target -> Pairs]
      /\ journal.old \in [Target -> Pairs] /\ txn.before \in Keys
      /\ Apart(txn.new) /\ Apart(journal.old)
      /\ txn.kind # "forget" => journal.mode = "one" /\ \E i \in Slots : Target = { i }
      /\ txn.kind = "forget" => /\ journal.mode = "all" /\ Target = Slots
                                /\ \A i \in Slots : txn.new[i] = NoPair
  BY <1>1, OwnFacts
<1>3. /\ ram.net \in [Slots -> Names] /\ ram.marker \in 0..MaxGeneration
      /\ stored.generation \in 1..MaxGeneration /\ ram.marker <= stored.generation
      /\ MaxGeneration \in Nat
      /\ card \in [Slots -> Pairs]
  BY CredentialsAssumption DEF IInv, SettingsOK, PlacesOK
<1>4. \A i \in Target : txn.new[i] \in Pairs /\ Net(txn.new[i]) \in Names
  BY <1>2, PairFacts
<1>5. /\ ram'.net = NewNet /\ NewNet \in [Slots -> Names]
      /\ \A i \in Target : NewNet[i] = Net(txn.new[i])
      /\ \A i \in Slots \ Target : NewNet[i] = ram.net[i]
  BY <1>1, <1>2, <1>3, <1>4 DEF NewNet
<1>6. Marker \in 0..MaxGeneration /\ Marker <= stored.generation + 1
      /\ (txn.kind # "forget" => Marker = journal.generation)
  <2>1. txn.kind # "forget" => journal.generation = stored.generation + 1
    BY <1>1, <1>2 DEF IInv, Flow
  <2> QED
    BY <1>1, <1>3, <2>1 DEF Marker
<1>7. SettingsOK'
  BY <1>1, <1>3, <1>5, <1>6 DEF SettingsOK
<1>8. txn' = [txn EXCEPT !.step = "clear"] /\ txn' \in Transactions /\ txn'.step = "clear"
      /\ txn'.kind = txn.kind /\ txn'.new = txn.new /\ txn'.before = txn.before
  BY <1>1, <1>2 DEF To, Transactions, Steps
<1>9. Target' = Target /\ Covered' = Covered /\ Pending'
  BY <1>1, <1>2, <1>8 DEF Target, Covered, Pending
<1>10. Committed(journal)'
  <2>1. CASE txn.kind = "forget"
    <3>1. \A i \in Slots : ram'.net[i] = None
      BY <1>2, <1>5, <2>1, NoPairFacts
    <3> QED
      BY <1>1, <1>2, <2>1, <3>1 DEF Committed, Configured
  <2>2. CASE txn.kind # "forget"
    BY <1>1, <1>2, <1>6, <2>2 DEF Committed
  <2> QED
    BY <2>1, <2>2
<1>11. \A i : Outcome(i)' = txn.new[i] /\ ~LeftOnCard(i)' /\ Answers(i)' = Answers(i)
  BY <1>1, <1>2, <1>9, <1>10 DEF Outcome, LeftOnCard, Answers
<1>12. \A i \in Slots : Answers(i) <=> i \notin Target
  BY <1>2 DEF Answers
<1>13. NamesApart'
  <2>1. ASSUME Upgraded, NEW i \in Slots, NEW j \in Slots, i # j, NewNet[i] # None
        PROVE  NewNet[i] # NewNet[j]
    <3>1. CASE i \in Target /\ j \in Target
      BY <1>2, <1>5, <2>1, <3>1, NoPairFacts
    <3>2. CASE i \in Target /\ j \notin Target
      BY <1>2, <1>5, <2>1, <3>2 DEF Apart
    <3>3. CASE i \notin Target /\ j \in Target
      BY <1>2, <1>5, <2>1, <3>3 DEF Apart
    <3>4. CASE i \notin Target /\ j \notin Target
      BY <1>5, <2>1, <3>4 DEF IInv, NamesApart
    <3> QED
      BY <3>1, <3>2, <3>3, <3>4
  <2> QED
    BY <1>5, <2>1 DEF NamesApart
<1>14. Apart(txn.new)' /\ Apart(journal.old)' /\ Apart(journal.new)'
  BY <1>1, <1>2, <1>5, <1>8 DEF Apart, Net
<1>15. JournalTells'
  <2>1. /\ journal \in Journals /\ DOMAIN journal.new = Covered /\ journal.unknown \subseteq Covered
        /\ journal.mode = "one" => \E i \in Slots : Covered = { i }
        /\ journal.mode = "all" => Covered = Slots /\ \A i \in Slots : journal.new[i] = NoPair
    BY <1>2 DEF IInv, JournalTells, Pending, NoJournal
  <2>2. \A i \in Covered : ram'.net[i] = Net(Outcome(i)')
    BY <1>2, <1>5, <1>11
  <2> QED
    BY <1>1, <1>9, <1>14, <2>1, <2>2 DEF JournalTells, Net, NoPair
<1>16. CallOK'
  <2>1. CallOK /\ txn # Idle
    BY <1>2 DEF IInv, Running, Idle
  <2> QED
    BY <1>2, <1>8, <1>9, <1>14, <2>1 DEF CallOK, Net, NoPair
<1>17. Flow'
  <2>1. OwnJournal'
    BY <1>1, <1>2, <1>8, <1>9 DEF OwnJournal
  <2> QED
    BY <1>8, <1>10, <2>1 DEF Flow, At, Settling, Writing, Storing, Undoing
<1>18. Written'
  <2>1. \A i : Candidate(i)' = Candidate(i)
    BY <1>8 DEF Candidate, KeyFor, Net, Pass
  <2>2. \A i \in Covered : key[i] = Candidate(i)
    BY <1>1 DEF IInv, Written
  <2> QED
    BY <1>1, <1>8, <1>9, <2>1, <2>2 DEF Written, At
<1>19. Before'
  BY <1>8 DEF Before, Writing, Storing, Undoing
<1>20. NoLeftover'
  BY <1>1, <1>5, <1>11, <1>12 DEF IInv, NoLeftover
<1>21. \A j \in Slots : CardOnly(j)' <=> j \notin Target /\ CardOnly(j)
  BY <1>1, <1>5, <1>11, <1>12 DEF CardOnly
<1>22. OnOwnCard'
  BY <1>1, <1>5, <1>21 DEF IInv, OnOwnCard, Net
<1>23. PlacesOK' /\ RepliesOK'
  BY <1>1, Replies DEF IInv, PlacesOK
<1>24. ASSUME NEW j \in Slots
       PROVE  Held(j)' = IF j \in Target THEN txn.new[j] ELSE Held(j)
  <2>1. CASE j \in Target
    <3>1. ~CardOnly(j)' /\ ~Answers(j)' /\ Outcome(j)' = txn.new[j]
          /\ ram'.net[j] = Net(txn.new[j])
      BY <1>5, <1>11, <1>12, <1>21, <2>1
    <3>2. Net(txn.new[j]) = None => txn.new[j] = NoPair
      BY <1>4, <2>1, PairFacts
    <3> QED
      BY <2>1, <3>1, <3>2 DEF Held, NoPair
  <2>2. CASE j \notin Target
    <3>1. (CardOnly(j)' <=> CardOnly(j)) /\ Answers(j)' /\ Answers(j)
      BY <1>11, <1>12, <1>21, <2>2
    <3>2. ram'.net[j] = ram.net[j]
      BY <1>5, <2>2
    <3> QED
      BY <1>1, <2>2, <3>1, <3>2 DEF Held, NoPair
  <2> QED
    BY <2>1, <2>2
<1> QED
  BY <1>7, <1>13, <1>15, <1>16, <1>17, <1>18, <1>19, <1>20, <1>22, <1>23, <1>24 DEF IInv

-----------------------------------------------------------------------------
(* The three facts about the inductive invariant.                          *)

LEMMA Starts == ASSUME Init PROVE IInv
<1>1. PICK net \in [Slots -> Networks \cup { None }] :
         /\ ram = [marker |-> 0, net |-> net]
         /\ stored = [generation |-> 1, marker |-> 0, net |-> net]
         /\ \E pass \in [Slots -> Secrets], kept \in SUBSET Slots :
              /\ \A i \in Slots : net[i] = None => pass[i] = Open
              /\ Upgraded \/ kept = Slots
              /\ key = [i \in Slots |-> IF i \in kept /\ net[i] # None THEN pass[i] ELSE Absent]
              /\ card = [i \in Slots |-> << net[i], pass[i] >>]
         /\ \A i, j \in Slots : i # j /\ net[i] # None => net[i] # net[j]
  BY DEF Init
<1>2. PICK pass \in [Slots -> Secrets], kept \in SUBSET Slots :
         /\ \A i \in Slots : net[i] = None => pass[i] = Open
         /\ Upgraded \/ kept = Slots
         /\ key = [i \in Slots |-> IF i \in kept /\ net[i] # None THEN pass[i] ELSE Absent]
         /\ card = [i \in Slots |-> << net[i], pass[i] >>]
  BY <1>1
<1>3. media \in Media /\ journal = NoJournal /\ txn = Idle /\ recovering = FALSE /\ answer = "none"
  BY DEF Init
<1>4. ~Pending /\ \A i : Answers(i)
  BY <1>3 DEF Pending, NoJournal, Answers
<1>5. ram.net = net /\ ram.marker = 0
  BY <1>1
<1>6. SettingsOK
  BY <1>1, <1>5, CredentialsAssumption DEF SettingsOK, Names
<1>7. PlacesOK
  <2>1. \A i \in Slots : << net[i], pass[i] >> \in Pairs
    BY <1>2 DEF Pairs, NoPair
  <2>2. key \in Keys
    BY <1>2 DEF Keys
  <2> QED
    BY <1>2, <1>3, <2>1, <2>2 DEF PlacesOK
<1>8. RepliesOK
  BY <1>3 DEF RepliesOK
<1>9. NamesApart
  BY <1>1, <1>5 DEF NamesApart
<1>10. JournalTells /\ CallOK
  BY <1>3 DEF JournalTells, CallOK
<1>11. Flow /\ Written /\ Before
  BY <1>3 DEF Idle, Flow, Written, Before, At, Settling, Writing, Storing, Undoing
<1>12. NoLeftover
  BY <1>2, <1>5 DEF NoLeftover
<1>13. ASSUME NEW i \in Slots, CardOnly(i) PROVE Upgraded /\ Net(card[i]) = ram.net[i]
  <2>1. net[i] # None /\ key[i] = Absent
    BY <1>4, <1>5, <1>13 DEF CardOnly
  <2>2. i \notin kept
    BY <1>2, <2>1, CredentialsAssumption DEF Secrets
  <2> QED
    BY <1>2, <1>5, <2>2 DEF Net
<1>14. OnOwnCard
  BY <1>13 DEF OnOwnCard
<1> QED
  BY <1>6, <1>7, <1>8, <1>9, <1>10, <1>11, <1>12, <1>14 DEF IInv

(* No step but a commit changes what any slot holds.                       *)
Quiet == Resolving \/ (Mutating /\ ~CommitSettings) \/ SaveOther \/ \E i \in Slots : Connect(i)

LEMMA QuietKeeps ==
    ASSUME IInv, Quiet
    PROVE  IInv' /\ \A j \in Slots : Held(j)' = Held(j)
<1>1. CASE Resolving
  BY <1>1, RecoverKeeps, ResolveKeysKeeps, ResolveKeysFailsKeeps, ResolveCardKeeps,
     ResolveCardFailsKeeps, ResolveClearKeeps, ResolveClearFailsKeeps DEF Resolving
<1>2. CASE Mutating /\ ~CommitSettings
  BY <1>2, WriteJournalKeeps, WriteJournalFailsKeeps, AlreadyForgottenKeeps, StoreKeysKeeps,
     StoreKeysFailsKeeps, StoreCardKeeps, TurnsBack, ClearJournalKeeps, UndoKeysKeeps,
     UndoCardKeeps, UndoCardFailsKeeps, UndoClearKeeps DEF Mutating
<1> QED
  BY <1>1, <1>2, SaveOtherKeeps, ConnectKeeps DEF Quiet

LEMMA NextIs == Next => Asking \/ Quiet \/ CommitSettings \/ PowerLoss
BY DEF Next, Asking, Quiet, Mutating

LEMMA Keeps == ASSUME IInv, [Next]_vars PROVE IInv'
<1>1. CASE Asking
  <2>1. PICK kind \in Kinds, T \in SlotSets, pair \in Pairs :
          /\ WellAsked(kind, [s \in T |-> pair]) /\ Ask(kind, [s \in T |-> pair])
          /\ SameOrHealed
    BY <1>1, Asks
  <2> QED
    BY <2>1, AskKeeps
<1>2. CASE UNCHANGED vars
  <2>1. UNCHANGED << stored, ram, key, card, media, journal, txn, recovering, answer >>
    BY <1>2 DEF vars
  <2>2. StoredOK'
    BY <2>1, NothingWritten
  <2>3. /\ Covered' = Covered /\ Pending' = Pending /\ Committed(journal)' = Committed(journal)
        /\ \A i : Settled(i)' = Settled(i)
    BY <2>1, SameJournal
  <2>4. CallOK' /\ Flow' /\ Written' /\ Before' /\ RepliesOK'
    BY <2>1, <2>3
    DEF IInv, CallOK, Flow, Written, Before, RepliesOK, At, Apart, Net, Target, OwnJournal,
        Undecided, Candidate, KeyFor, Pass, Recorded, CardUntouched
  <2> QED
    BY <2>2, <2>4 DEF IInv, StoredOK
<1> QED
  BY <1>1, <1>2, NextIs, QuietKeeps, CommitSettingsKeeps, PowerLossKeeps

LEMMA Inductive == Spec => []IInv
BY Starts, Keeps, PTL DEF Spec

-----------------------------------------------------------------------------
(* What follows from it.                                                   *)

LEMMA Types == ASSUME IInv PROVE TypeOK
<1>1. /\ stored.generation \in 1..MaxGeneration /\ ram.marker \in 0..stored.generation
      /\ stored.marker \in 0..stored.generation
      /\ stored.net \in [Slots -> Networks \cup { None }]
      /\ ram.net \in [Slots -> Networks \cup { None }]
  BY CredentialsAssumption DEF IInv, SettingsOK, Names
<1>2. TxnOK
  <2>1. CASE txn = Idle
    BY <2>1 DEF TxnOK
  <2>2. CASE txn \in Transactions
    <3>1. txn.new \in [Target -> Pairs]
      BY <2>2, ContentFacts DEF Transactions, Target
    <3> QED
      BY <2>2, <3>1 DEF TxnOK, Transactions, Kinds, Keys
  <2> QED
    BY <2>1, <2>2 DEF IInv, CallOK
<1>3. JournalOK
  <2>1. CASE journal = NoJournal
    BY <2>1 DEF JournalOK
  <2>2. CASE journal # NoJournal
    <3>1. /\ journal \in Journals /\ DOMAIN journal.new = Covered /\ journal.unknown \subseteq Covered
          /\ journal.mode = "one" => \E i \in Slots : Covered = { i }
      BY <2>2 DEF IInv, JournalTells
    <3>2. journal.old \in [Covered -> Pairs] /\ journal.new \in [Covered -> Pairs]
      BY <3>1, ContentFacts DEF Journals, Covered
    <3>3. journal.mode = "one" => Cardinality(Covered) = 1
      BY <3>1, FS_Singleton
    <3> QED
      BY <3>1, <3>2, <3>3 DEF JournalOK, Journals
  <2> QED
    BY <2>1, <2>2
<1> QED
  BY <1>1, <1>2, <1>3 DEF TypeOK, IInv, PlacesOK, RepliesOK, Keys

LEMMA Fits == ASSUME IInv PROVE JournalFits
<1>1. ASSUME Pending, NEW i \in Covered PROVE ram.net[i] = Net(Outcome(i))
  BY <1>1, OutcomeFacts DEF IInv
<1>2. ASSUME Pending, ~Committed(journal), NEW i \in Covered PROVE ram.net[i] = Net(journal.old[i])
  BY <1>1, <1>2 DEF Outcome
<1> QED
  BY <1>1, <1>2 DEF JournalFits, Mismatch

(* Through any calls, failed writes and power losses every variable has    *)
(* its type, the journal that waits can be settled, and a removed network  *)
(* leaves no password in flash (resolveWifiCredentialTransaction).         *)
THEOREM CredentialsSafeAlways == Spec => []CredentialsSafe
<1>1. ASSUME IInv PROVE ForgottenKeysGone
  BY <1>1 DEF IInv, NoLeftover, Answers, ForgottenKeysGone
<1>2. IInv => CredentialsSafe
  BY <1>1, Types, Fits DEF CredentialsSafe
<1> QED
  BY <1>2, Inductive, PTL

-----------------------------------------------------------------------------
(* The vault: every step of a call, seen as one of the vault's.            *)

LEMMA VaultIs ==
    ASSUME IInv
    PROVE  vault \in [Slots -> Pairs] /\ \A i \in Slots : vault[i] = Held(i)
BY HeldFactsNow DEF HeldOK, vault

LEMMA WantsNothing ==
    /\ ~Running => Wanted = {} /\ ~Granted
    /\ txn.kind = "recover" /\ ~At("clear") => Wanted = {} /\ ~Granted
BY DEF Running, Wanted, Granted, At

(* A call that goes on wants the same.                                     *)
LEMMA GoesOn ==
    ASSUME IInv, IInv', \A j \in Slots : Held(j)' = Held(j), Running,
           ~At("clear"), txn'.step \notin { "idle", "clear" },
           txn'.kind = txn.kind, txn'.new = txn.new, answer' = answer
    PROVE  UNCHANGED Vault!vars
<1>1. vault' = vault
  BY VaultKept
<1>2. Wanted' = Wanted
  BY <1>1 DEF Wanted, Running, Target
<1>3. Granted' = Granted
  BY DEF Granted, At
<1> QED
  BY <1>1, <1>2, <1>3 DEF Vault!vars

(* A call that ends owes nothing any more; one that fails has done nothing *)
LEMMA Refuses ==
    ASSUME IInv, IInv', \A j \in Slots : Held(j)' = Held(j), Running,
           ~At("clear"), Return("failed")
    PROVE  VaultStep
<1>1. vault' = vault
  BY VaultKept
<1>2. txn' = Idle /\ Wanted' = {} /\ ~Granted' /\ ~Granted
  BY DEF Return, Idle, Wanted, Running, Granted, At
<1>3. CASE txn.kind = "recover"
  <2>1. answer' = answer /\ Wanted = {}
    BY <1>3 DEF Return, Wanted
  <2> QED
    BY <1>1, <1>2, <2>1 DEF VaultStep, Vault!vars, Granted, At
<1>4. CASE txn.kind # "recover"
  <2>1. answer' = "failed" /\ Wanted # {}
    BY <1>4 DEF Return, Wanted
  <2>2. Granted' = FALSE
    BY <1>2 DEF Granted, At
  <2>3. Vault!Refuse
    BY <1>1, <1>2, <2>1, <2>2 DEF Vault!Refuse, Vault!End
  <2> QED
    BY <2>3 DEF VaultStep, Vault!Next
<1> QED
  BY <1>3, <1>4

(* Success is reported of contents that are in effect.                     *)
LEMMA Succeeds ==
    ASSUME IInv, IInv', \A j \in Slots : Held(j)' = Held(j), Running,
           txn.kind # "recover", Return("ok"),
           \A i \in Target \cap Slots : Held(i) = txn.new[i]
    PROVE  VaultStep
<1>1. vault' = vault
  BY VaultKept
<1>2. txn' = Idle /\ Wanted' = {} /\ answer' = "ok"
  BY DEF Return, Idle, Wanted, Running
<1>3. Granted' = FALSE
  BY <1>2 DEF Granted, At, Idle
<1>4. [i \in Slots |-> IF i \in Target THEN txn.new[i] ELSE vault[i]] = vault
  BY VaultIs
<1>5. Wanted = { vault }
  BY <1>4 DEF Wanted
<1>6. Vault!Succeed
  BY <1>1, <1>2, <1>3, <1>5 DEF Vault!Succeed, Vault!End
<1> QED
  BY <1>6 DEF VaultStep, Vault!Next

(* How a call moves.                                                       *)
Moves ==
    /\ ~At("clear") /\ txn'.step \notin { "idle", "clear" }
    /\ txn'.kind = txn.kind /\ txn'.new = txn.new /\ answer' = answer
Fails == ~At("clear") /\ Return("failed")

LEMMA ResolvingMoves ==
    ASSUME IInv, Resolving
    PROVE  \/ Running /\ (Moves \/ Fails)
           \/ /\ ~Running \/ (txn.kind = "recover" /\ ~At("clear"))
              /\ txn' = Idle \/ txn' = Recovers
              /\ answer' = answer
<1> USE DEF At, Running
<1>1. CASE Recover
  BY <1>1, IdleIs DEF Recover, Call, Recovers
<1>2. CASE ResolveKeys \/ ResolveCard
  <2>1. txn \in Transactions /\ Running
    BY <1>2, RunningIs DEF ResolveKeys, ResolveCard
  <2>2. \E p \in { "resolveCard", "resolveClear" } : To(p)
    BY <1>2 DEF ResolveKeys, ResolveCard
  <2>3. answer' = answer /\ ~At("clear")
    BY <1>2 DEF ResolveKeys, ResolveCard
  <2> QED
    BY <2>1, <2>2, <2>3 DEF To, Transactions, Moves
<1>3. CASE ResolveKeysFails \/ ResolveCardFails \/ ResolveClearFails
  BY <1>3 DEF ResolveKeysFails, ResolveCardFails, ResolveClearFails, Unresolved, Fails
<1>4. CASE ResolveClear
  <2>1. txn \in Transactions /\ Running /\ ~At("clear") /\ answer' = answer
    BY <1>4, RunningIs DEF ResolveClear
  <2>2. CASE txn.kind = "recover"
    BY <1>4, <2>1, <2>2 DEF ResolveClear
  <2>3. CASE txn.kind # "recover"
    <3>1. To("journal")
      BY <1>4, <2>3 DEF ResolveClear
    <3> QED
      BY <2>1, <3>1 DEF To, Transactions, Moves
  <2> QED
    BY <2>2, <2>3
<1> QED
  BY <1>1, <1>2, <1>3, <1>4 DEF Resolving

LEMMA MutatingMoves ==
    ASSUME IInv, Mutating, ~CommitSettings
    PROVE  Running /\ (Moves \/ Fails \/ AlreadyForgotten \/ ClearJournal)
<1> USE DEF At, Running
<1>1. CASE WriteJournal \/ StoreKeys \/ StoreCard \/ StoreKeysFails \/ StoreCardFails
           \/ CommitSettingsFails
  <2>1. txn \in Transactions /\ Running /\ ~At("clear") /\ answer' = answer
    BY <1>1, RunningIs DEF WriteJournal, StoreKeys, StoreCard, StoreKeysFails, StoreCardFails,
       CommitSettingsFails
  <2>2. \/ txn' = [txn EXCEPT !.step = "keys", !.before = key]
        \/ \E p \in { "card", "commit" } : To(p)
        \/ \E c : Undo(c)
    BY <1>1 DEF WriteJournal, StoreKeys, StoreCard, StoreKeysFails, StoreCardFails,
       CommitSettingsFails
  <2> QED
    BY <2>1, <2>2 DEF To, Undo, Transactions, Moves
<1>2. CASE WriteJournalFails \/ UndoCardFails \/ UndoClear
  BY <1>2 DEF WriteJournalFails, UndoCardFails, UndoClear, Fails
<1>3. CASE UndoKeys \/ UndoCard
  <2>1. txn \in Transactions /\ Running /\ ~At("clear")
    BY <1>3, RunningIs DEF UndoKeys, UndoCard
  <2>2. \/ \E ok : txn' = [txn EXCEPT !.step = "undoCard", !.intact = ok] /\ UNCHANGED answer
        \/ \E ok : AfterUndo(ok)
    BY <1>3 DEF UndoKeys, UndoCard
  <2>3. ASSUME NEW ok, AfterUndo(ok)
        PROVE  Fails \/ (txn' = [txn EXCEPT !.step = "undoClear"] /\ UNCHANGED answer)
    BY <2>1, <2>3 DEF AfterUndo, Fails
  <2> QED
    BY <2>1, <2>2, <2>3 DEF Transactions, Moves
<1>4. CASE AlreadyForgotten \/ ClearJournal
  BY <1>4 DEF AlreadyForgotten, ClearJournal
<1> QED
  BY <1>1, <1>2, <1>3, <1>4 DEF Mutating

LEMMA QuietSteps == ASSUME IInv, Quiet PROVE VaultStep
<1>1. IInv' /\ \A j \in Slots : Held(j)' = Held(j)
  BY QuietKeeps
<1>2. vault' = vault
  BY <1>1, VaultKept
<1>3. ASSUME Running, Moves PROVE VaultStep
  BY <1>1, <1>3, GoesOn DEF Moves, VaultStep
<1>4. ASSUME Running, Fails PROVE VaultStep
  BY <1>1, <1>4, Refuses DEF Fails
<1>5. CASE Resolving
  <2>1. ASSUME ~Running \/ (txn.kind = "recover" /\ ~At("clear")),
               txn' = Idle \/ txn' = Recovers, answer' = answer
        PROVE  VaultStep
    <3>1. Wanted = {} /\ ~Granted
      BY <2>1, WantsNothing
    <3>2. Wanted' = {} /\ ~Granted'
      BY <2>1 DEF Idle, Recovers, Wanted, Running, Granted, At
    <3>3. Granted' = Granted
      BY <3>1, <3>2 DEF Granted, At
    <3> QED
      BY <1>2, <2>1, <3>1, <3>2, <3>3 DEF VaultStep, Vault!vars
  <2> QED
    BY <1>3, <1>4, <1>5, <2>1, ResolvingMoves
<1>6. CASE Mutating /\ ~CommitSettings
  <2>1. ASSUME AlreadyForgotten PROVE VaultStep
    <3>1. Running /\ Return("ok") /\ txn.kind = "forget" /\ Configured = {} /\ At("journal")
      BY <2>1 DEF AlreadyForgotten, NothingToForget, At, Running
    <3>2. \A i \in Target \cap Slots : Held(i) = txn.new[i]
      BY <3>1, MutationIs DEF Held, Configured
    <3> QED
      BY <1>1, <3>1, <3>2, Succeeds
  <2>2. ASSUME ClearJournal PROVE VaultStep
    <3>1. Running /\ Return("ok") /\ At("clear")
      BY <2>2 DEF ClearJournal, At, Running
    <3>2. /\ Pending /\ Covered = Target /\ journal.new = txn.new /\ txn.kind # "recover"
          /\ txn.new \in [Target -> Pairs]
      BY <3>1, OwnFacts DEF At
    <3>3. Committed(journal) /\ \A i \in Covered : ram.net[i] = Net(Outcome(i))
      BY <3>1, <3>2 DEF IInv, Flow, JournalTells, Pending, NoJournal
    <3>4. ASSUME NEW i \in Target PROVE Held(i) = txn.new[i]
      <4>1. Outcome(i) = txn.new[i] /\ ~CardOnly(i) /\ ~Answers(i)
        BY <3>2, <3>3 DEF Outcome, CardOnly, LeftOnCard, Answers
      <4> QED
        BY <3>2, <3>3, <4>1, PairFacts DEF Held
    <3> QED
      BY <1>1, <3>1, <3>2, <3>4, Succeeds
  <2> QED
    BY <1>3, <1>4, <1>6, <2>1, <2>2, MutatingMoves
<1>7. CASE SaveOther \/ \E i \in Slots : Connect(i)
  <2>1. txn' = txn /\ answer' = answer
    BY <1>7 DEF SaveOther, Connect
  <2>2. Wanted' = Wanted /\ Granted' = Granted
    BY <1>2, <2>1 DEF Wanted, Running, Target, Granted, At
  <2> QED
    BY <1>2, <2>1, <2>2 DEF VaultStep, Vault!vars
<1> QED
  BY <1>5, <1>6, <1>7 DEF Quiet

LEMMA AskSteps == ASSUME IInv, Asking PROVE VaultStep
<1>1. PICK kind \in Kinds, T \in SlotSets, pair \in Pairs :
        /\ WellAsked(kind, [s \in T |-> pair]) /\ Ask(kind, [s \in T |-> pair])
        /\ SameOrHealed
  BY Asks
<1> DEFINE new == [s \in T |-> pair]
<1>2. /\ IInv' /\ \A i \in Slots : Held(i)' = Held(i)
      /\ txn = Idle /\ txn'.kind = kind /\ txn'.new = new /\ Running'
      /\ ~At("clear")' /\ answer' = "none"
  BY <1>1, AskKeeps
<1>3. vault' = vault
  BY <1>2, VaultKept
<1>4. Wanted = {} /\ Granted = FALSE
  BY <1>2 DEF Idle, Wanted, Running, Granted, At
<1>5. kind # "recover" /\ DOMAIN new = T /\ \A i \in T : new[i] = pair
  BY <1>1 DEF WellAsked
<1>6. Granted' = FALSE
  BY <1>2 DEF Granted, At
<1>7. Wanted' = { [i \in Slots |-> IF i \in T THEN pair ELSE vault[i]] }
  <2>1. Wanted' = { [i \in Slots |-> IF i \in DOMAIN txn'.new THEN txn'.new[i] ELSE vault'[i]] }
    BY <1>2, <1>5 DEF Wanted, Running, Target
  <2> HIDE DEF new
  <2>2. [i \in Slots |-> IF i \in DOMAIN new THEN new[i] ELSE vault[i]]
        = [i \in Slots |-> IF i \in T THEN pair ELSE vault[i]]
    BY <1>5
  <2> QED
    BY <1>2, <1>3, <2>1, <2>2
<1>8. Vault!Ask(T, pair)
  BY <1>2, <1>3, <1>4, <1>6, <1>7 DEF Vault!Ask
<1>9. Vault!Next
  BY <1>8 DEF Vault!Next, SlotSets
<1> QED
  BY <1>9 DEF VaultStep

LEMMA CommitSteps == ASSUME IInv, CommitSettings PROVE VaultStep
<1>1. /\ IInv'
      /\ \A j \in Slots : Held(j)' = IF j \in Target THEN txn.new[j] ELSE Held(j)
  BY CommitSettingsKeeps
<1>2. /\ At("commit") /\ txn \in Transactions /\ Running /\ txn.kind # "recover" /\ To("clear")
      /\ answer' = answer
  BY OwnFacts DEF CommitSettings, At, Writing, Storing
<1>3. txn'.step = "clear" /\ txn'.kind = txn.kind /\ txn'.new = txn.new
  BY <1>2 DEF To, Transactions
<1>4. Granted = FALSE /\ Granted' = TRUE
  BY <1>2, <1>3 DEF Granted, At
<1> DEFINE asked == [i \in Slots |-> IF i \in Target THEN txn.new[i] ELSE vault[i]]
<1>5. \A i \in Slots : vault[i] = Held(i) /\ vault'[i] = Held(i)'
  BY <1>1, HeldFactsNow, HeldFactsNext DEF HeldOK, vault
<1>6. vault' = [i \in Slots |-> vault'[i]]
  BY DEF vault
<1>7. vault' = asked
  BY <1>1, <1>5, <1>6
<1>8. Wanted = { asked }
  BY <1>2 DEF Wanted
<1>9. Wanted' = { asked }
  <2>1. Wanted' = { [i \in Slots |-> IF i \in Target THEN txn.new[i] ELSE vault'[i]] }
    BY <1>2, <1>3 DEF Wanted, Running, Target
  <2>2. [i \in Slots |-> IF i \in Target THEN txn.new[i] ELSE vault'[i]] = asked
    BY <1>7
  <2> QED
    BY <2>1, <2>2
<1> HIDE DEF asked
<1>10. Vault!Grant
  BY <1>2, <1>4, <1>7, <1>8, <1>9 DEF Vault!Grant
<1> QED
  BY <1>10 DEF VaultStep, Vault!Next

LEMMA PowerLossSteps == ASSUME IInv, PowerLoss PROVE VaultStep
<1>1. IInv' /\ \A j \in Slots : Held(j)' = Held(j)
  BY PowerLossKeeps
<1>2. vault' = vault
  BY <1>1, VaultKept
<1>3. txn' = Idle \/ txn' = Recovers
  BY DEF PowerLoss, Call, Recovers
<1>4. Wanted' = {} /\ Granted' = FALSE
  BY <1>3 DEF Idle, Recovers, Wanted, Running, Granted, At
<1>5. Vault!PowerLoss
  BY <1>2, <1>4 DEF PowerLoss, Vault!PowerLoss, Vault!End
<1> QED
  BY <1>5 DEF VaultStep, Vault!Next

LEMMA StartsEmpty == ASSUME Init PROVE Vault!Init
<1>1. vault \in [Slots -> Pairs]
  BY Starts, VaultIs
<1>2. Wanted = {} /\ Granted = FALSE /\ answer = "none"
  BY DEF Init, Idle, Wanted, Running, Granted, At
<1> QED
  BY <1>1, <1>2 DEF Vault!Init

LEMMA Simulates == ASSUME IInv, [Next]_vars PROVE VaultStep
<1>1. CASE UNCHANGED vars
  <2>1. vault' = vault /\ Wanted' = Wanted /\ Granted' = Granted /\ answer' = answer
    <3>1. UNCHANGED << stored, ram, key, card, media, journal, txn, recovering, answer >>
      BY <1>1 DEF vars
    <3>2. vault' = vault
      BY <1>1, <3>1, Keeps, NothingWritten, VaultKept
    <3> QED
      BY <3>1, <3>2 DEF Wanted, Running, Target, Granted, At
  <2> QED
    BY <2>1 DEF VaultStep, Vault!vars
<1> QED
  BY <1>1, NextIs, AskSteps, QuietSteps, CommitSteps, PowerLossSteps

(* Network and password of every slot change as one, at the commit of the  *)
(* settings; what fails, is undone half-way or is cut off leaves them as   *)
(* they were, and the answer tells which (setWifiStaSlotCredentials,       *)
(* clearWifiStaSlot, clearWifiClientCredentials).                          *)
THEOREM ImplementsVaultAlways == Spec => ImplementsVault
<1>1. IInv /\ [Next]_vars => [Vault!Next]_Vault!vars
  BY Simulates DEF VaultStep
<1>2. Init => Vault!Init
  BY StartsEmpty
<1> QED
  BY <1>1, <1>2, Inductive, PTL DEF Spec, ImplementsVault, Vault!Spec
=============================================================================
