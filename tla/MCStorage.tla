----------------------------- MODULE MCStorage ------------------------------
(***************************************************************************)
(* What is settled after a cut, one at a time: the transactions that span  *)
(* profiles, settings and secrets, and one slot of Wi-Fi credentials       *)
(* through two generations of the settings.                                *)
(***************************************************************************)
EXTENDS StorageTransactions

CONSTANTS Parts,   \* which of "transactions", "credentials"
          a, b, p, Open, Absent

VARIABLES part,
          stored, wifi, key, card, media, pending, txn, due, answer                       \* WifiCredentials

Wifi == INSTANCE WifiCredentials WITH
    Slots <- { 0 }, Networks <- { a, b }, Passwords <- { p }, MaxGeneration <- 2,
    Media <- { "card", "flash" }, Upgraded <- TRUE,
    ram <- wifi, journal <- pending, recovering <- due

-----------------------------------------------------------------------------
(* One of them at a time; the transactions that do not run are as they began. *)
credentialVars == << stored, wifi, key, card, media, pending, txn, due, answer >>
storageVars == << part, vars, credentialVars >>

NoCredentials ==
    /\ stored = 0 /\ wifi = 0 /\ key = 0 /\ card = 0 /\ media = 0
    /\ pending = 0 /\ txn = 0 /\ due = 0 /\ answer = 0

StorageInit ==
    /\ part \in Parts
    /\ Init
    /\ part # "transactions" => profile = None /\ nvs.network = a
    /\ IF part = "credentials" THEN Wifi!Init ELSE NoCredentials

OnStores(A) == part = "transactions" /\ A /\ UNCHANGED << part, credentialVars >>
OnWifi(A) == part = "credentials" /\ A /\ UNCHANGED << part, vars >>

StorageNext == OnStores(Next) \/ OnWifi(Wifi!Next)

\* The fairness of each module.  The part never changes, so the fairness of a
\* disjunction over the parts is the fairness of the part that runs.
StorageSpec ==
    /\ StorageInit /\ [][StorageNext]_storageVars
    /\ WF_storageVars(OnStores(Working) \/ OnWifi(Wifi!Mutating))
    /\ WF_storageVars(OnWifi(Wifi!Resolving))
    /\ SF_storageVars(OnWifi(Wifi!Recover))
    /\ SF_storageVars(OnWifi(Wifi!ResolveKeys))
    /\ SF_storageVars(OnWifi(Wifi!ResolveCard))
    /\ SF_storageVars(OnWifi(Wifi!ResolveClear))

-----------------------------------------------------------------------------
(* Properties, besides those of the transactions. *)

\* A recovery of the transactions that is due ends, and a pending journal of the
\* credentials is settled: none refuses every later edit for ever.
Waits == IF part = "transactions" THEN recovering ELSE Wifi!Pending
Over == IF part = "transactions" THEN RecoveryOver ELSE ~Wifi!Pending
StorageSettles == Waits ~> Over
=============================================================================
