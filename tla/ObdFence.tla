------------------------------ MODULE ObdFence ------------------------------
(***************************************************************************)
(* What the OBD transport promises the OBD session: a fence.  While it is  *)
(* open the session may hand in one operation at a time and the transport  *)
(* starts it; closing the fence withdraws whatever has not started, and it *)
(* opens again only when nothing runs and the radio link is down.          *)
(***************************************************************************)

VARIABLES
    open,      \* the session may submit operations
    waiting,   \* an operation is submitted and not yet started
    running,   \* an operation is on the radio
    up         \* the link to the adapter exists or is being made or cut

vars == << open, waiting, running, up >>

TypeOK == /\ open \in BOOLEAN /\ waiting \in BOOLEAN
          /\ running \in BOOLEAN /\ up \in BOOLEAN

Init == << open, waiting, running, up >> = << TRUE, FALSE, FALSE, FALSE >>

Submit == /\ open /\ ~waiting
          /\ waiting' = TRUE
          /\ UNCHANGED << open, running, up >>

Start == /\ open /\ waiting /\ ~running
         /\ waiting' = FALSE /\ running' = TRUE
         /\ up' \in { up, TRUE }
         /\ UNCHANGED open

LinkUp == /\ running
          /\ up' = TRUE
          /\ UNCHANGED << open, waiting, running >>

Finish == /\ running
          /\ running' = FALSE
          /\ up' \in { up, FALSE }
          /\ UNCHANGED << open, waiting >>

LinkDown == /\ up' = FALSE
            /\ UNCHANGED << open, waiting, running >>

Close == /\ open
         /\ open' = FALSE /\ waiting' = FALSE
         /\ UNCHANGED << running, up >>

Reopen == /\ ~open /\ ~running /\ ~up
          /\ open' = TRUE
          /\ UNCHANGED << waiting, running, up >>

Next == Submit \/ Start \/ LinkUp \/ Finish \/ LinkDown \/ Close \/ Reopen

Spec == Init /\ [][Next]_vars
=============================================================================
