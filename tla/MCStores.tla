------------------------------ MODULE MCStores ------------------------------
(***************************************************************************)
(* The two stores whose entries a power loss may split, one at a time: the *)
(* settings in NVS and the profiles on card and flash.  They share neither *)
(* state nor files, so a behaviour concerns one of them; what they do      *)
(* together is StorageTransactions.  The settings have two values, of which *)
(* one is the default, and few generations so that they run out.           *)
(***************************************************************************)
EXTENDS SettingsStore, ProfileStore, TLC

CONSTANTS Parts,   \* those checked: "settings", "profiles"
          v0, v1, profileA, profileB

MCContents == { profileA, profileB }
MCValues == { v0, v1 }
MCRank == (v0 :> 1) @@ (v1 :> 2)

VARIABLE part

storeVars == << part, vars, profileVars >>

NoProfiles ==
    /\ disk = 0 /\ mount = 0 /\ ready = 0 /\ task = 0
    /\ promise = 0 /\ behind = 0 /\ forked = 0 /\ trouble = 0
\* The settings that do not run wait for a boot.
NoSettings == Init /\ copy = Flash(New(Defaults, 2), Empty, Empty) /\ sel = "A"

StoresInit ==
    /\ part \in Parts
    /\ IF part = "settings" THEN Init ELSE NoSettings
    /\ IF part = "profiles" THEN ProfileInit ELSE NoProfiles

StoresNext ==
    \/ part = "settings" /\ Next /\ UNCHANGED << part, profileVars >>
    \/ part = "profiles" /\ ProfileNext /\ UNCHANGED << part, vars >>

StoresSpec == StoresInit /\ [][StoresNext]_storeVars

\* No part of the model tells these apart.
Alike == Permutations({ profileA, profileB })

\* V1ProfileManager: a read shows what was acknowledged, a success is on both
\* media, an undecided save can be undone.
ProfilesKept ==
    part = "profiles" =>
        /\ ProfileTypeOK
        /\ AcknowledgedKept /\ MirroredWhenReported
        /\ UndecidedIsUndone
=============================================================================
