---------------------------- MODULE MCObdRuntime ----------------------------
(***************************************************************************)
(* The OBD session with two adapters in a small set of loop contexts: the  *)
(* cycle admits or refuses OBD, a phone is there or not, timers expire or  *)
(* not.                                                                    *)
(***************************************************************************)
EXTENDS ObdRuntime, TLC

CONSTANTS a1, a2

Adapters == { a1, a2 }
Twins == Permutations(Adapters)

Refused ==
    [ bootReady |-> TRUE, v1 |-> FALSE, scanIdle |-> TRUE, v1Connecting |-> FALSE,
      proxyAdv |-> FALSE, proxyClient |-> FALSE, scanAllowed |-> FALSE,
      connectAllowed |-> FALSE, retryAllowed |-> FALSE,
      due |-> FALSE, rssiDue |-> FALSE ]
Admitted == [ Refused EXCEPT !.v1 = TRUE, !.connectAllowed = TRUE,
                             !.retryAllowed = TRUE ]

MCContexts ==
    { [ Admitted EXCEPT !.due = d, !.rssiDue = r ] : d \in BOOLEAN, r \in BOOLEAN }
    \cup { [ Refused EXCEPT !.due = d ] : d \in BOOLEAN }
    \cup { [ Admitted EXCEPT !.proxyClient = TRUE, !.scanIdle = FALSE ] }

OneInit == [ warm \in BOOLEAN |-> 1 ]
=============================================================================
