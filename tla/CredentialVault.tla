--------------------------- MODULE CredentialVault ---------------------------
(***************************************************************************)
(* What the Wi-Fi credential operations promise: every slot holds a        *)
(* network together with ITS password, the two change as one, and an       *)
(* answer tells whether they did.  Where the two are kept (settings, flash *)
(* keys, SD card) and how often the power fails is not visible here.       *)
(***************************************************************************)
EXTENDS Naturals

CONSTANTS
    Slots,   \* saved networks
    Pairs    \* a network and its password, or no network

VARIABLES
    vault,     \* the pair each slot would be connected with
    wanted,    \* the contents a running operation asked for, if one is running
    granted,   \* the running operation has taken effect
    answer     \* what the last operation reported; "none" if it was cut off

vars == << vault, wanted, granted, answer >>

Init ==
    /\ vault \in [Slots -> Pairs]
    /\ wanted = {} /\ granted = FALSE /\ answer = "none"

(* One slot is written or cleared, or all of them are. *)
Ask(T, pair) ==
    /\ wanted = {}
    /\ wanted' = { [i \in Slots |-> IF i \in T THEN pair ELSE vault[i]] }
    /\ answer' = "none"
    /\ UNCHANGED << vault, granted >>

Grant ==
    /\ ~granted
    /\ \E v \in wanted : vault' = v
    /\ granted' = TRUE
    /\ UNCHANGED << wanted, answer >>

End(reply) ==
    /\ wanted' = {} /\ granted' = FALSE /\ answer' = reply
    /\ UNCHANGED vault

(* Success is reported of what is in effect, failure of what is not. *)
Succeed == wanted = { vault } /\ End("ok")
Refuse == wanted # {} /\ ~granted /\ End("failed")
PowerLoss == End("none")

Next ==
    \/ \E i \in Slots, pair \in Pairs : Ask({ i }, pair)
    \/ \E pair \in Pairs : Ask(Slots, pair)
    \/ Grant \/ Succeed \/ Refuse \/ PowerLoss

Spec == Init /\ [][Next]_vars

=============================================================================
