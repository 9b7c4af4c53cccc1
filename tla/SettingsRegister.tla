-------------------------- MODULE SettingsRegister --------------------------
(***************************************************************************)
(* What the settings store of the device promises its callers: a register *)
(* that survives power loss.  A save either commits its value, as the next *)
(* generation, before it reports success, or it changes nothing.           *)
(*                                                                         *)
(* The transactions that pair the settings with another store (Wi-Fi       *)
(* credentials, profile deletion, backup restore) rest on exactly this:    *)
(* they predict the generation a save will commit, and decide after a      *)
(* reset, from the value that is loaded, whether it did.                   *)
(***************************************************************************)
EXTENDS Naturals

CONSTANTS
    Values,         \* complete settings
    MaxGeneration   \* the largest generation, UINT32_MAX in the code

VARIABLES
    durable,   \* the settings the next boot loads
    gen,       \* the generation that committed them; 0 before any save
    saving,    \* the value being saved, if any
    reply      \* what the running save will report

vars == << durable, gen, saving, reply >>

TypeOK ==
    /\ durable \in Values
    /\ gen \in 0..MaxGeneration
    /\ saving \in SUBSET Values
    /\ reply \in { "none", "ok", "failed" }

Init ==
    /\ durable \in Values /\ gen \in 0..MaxGeneration
    /\ saving = {} /\ reply = "none"

Begin(v) ==
    /\ saving = {}
    /\ saving' = { v } /\ reply' = "none"
    /\ UNCHANGED << durable, gen >>

(* Settings of an older firmware become generation 1 unchanged. *)
Adopt ==
    /\ gen = 0
    /\ gen' = 1
    /\ UNCHANGED << durable, saving, reply >>

Commit ==
    /\ reply = "none" /\ gen < MaxGeneration
    /\ \E v \in saving : durable' = v
    /\ gen' = gen + 1 /\ reply' = "ok"
    /\ UNCHANGED saving

(* The save that fails may have adopted the old settings first. *)
Refuse ==
    /\ saving # {} /\ reply = "none"
    /\ reply' = "failed"
    /\ gen' \in { gen, IF gen = 0 THEN 1 ELSE gen }
    /\ UNCHANGED << durable, saving >>

Return ==
    /\ saving # {} /\ reply # "none"
    /\ saving' = {} /\ reply' = "none"
    /\ UNCHANGED << durable, gen >>

Crash ==
    /\ saving' = {} /\ reply' = "none"
    /\ UNCHANGED << durable, gen >>

Next ==
    \/ \E v \in Values : Begin(v)
    \/ Adopt \/ Commit \/ Refuse \/ Return \/ Crash

Spec == Init /\ [][Next]_vars

=============================================================================
