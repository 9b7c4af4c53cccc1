------------------------------- MODULE MCObd --------------------------------
(***************************************************************************)
(* The OBD transport on two links (the ids allow two disconnects around a  *)
(* second connection), and the OBD session with its settings edited at any *)
(* moment: what is asked of either is answered in the end.                 *)
(***************************************************************************)
EXTENDS ObdTransport

CONSTANTS Parts,   \* which of "transport", "session"
          a1, NoAddress

VARIABLES part, s, peer, run, owes, ev, wire   \* ObdRuntime

AllOps == { "CONNECT", "DISCOVER", "WRITE" }

NotAdmitted ==
    [ bootReady |-> TRUE, v1 |-> FALSE, scanIdle |-> TRUE, v1Connecting |-> FALSE,
      proxyAdv |-> FALSE, proxyClient |-> FALSE, scanAllowed |-> FALSE,
      connectAllowed |-> FALSE, retryAllowed |-> FALSE, due |-> TRUE, rssiDue |-> FALSE ]
Admitted == [ NotAdmitted EXCEPT !.v1 = TRUE, !.connectAllowed = TRUE, !.retryAllowed = TRUE, !.due = FALSE ]
Session == INSTANCE ObdRuntime WITH
    Address <- { a1 },
    Contexts <- { NotAdmitted, Admitted, [ Admitted EXCEPT !.due = TRUE, !.rssiDue = TRUE ] },
    link <- wire, InitLength <- [ warm \in BOOLEAN |-> 1 ], Retries <- 0, MaxFailures <- 1, MaxErrors <- 1,
    CutErrors <- 1, IdleBackoffs <- 1

-----------------------------------------------------------------------------
(* One of them at a time; the transport that does not run is as it begins. *)
sessionVars == << s, peer, run, owes, ev, wire >>
obdVars == << part, vars, sessionVars >>

ObdInit ==
    /\ part \in Parts
    /\ Init
    /\ \/ part = "transport" /\ s = 0 /\ peer = 0 /\ run = 0 /\ owes = 0 /\ ev = 0 /\ wire = 0
       \/ part = "session" /\ Session!Init

Transports(A) == A /\ UNCHANGED << part, sessionVars >>
Updates(A) == A /\ UNCHANGED << part, vars >>

ObdNext ==
    \/ part = "transport" /\ Transports(Next)
    \/ part = "session" /\ Updates(Session!Next)

\* The fairness of each module.  The part never changes, so the fairness of a
\* disjunction over the parts is the fairness of the part that runs.
ObdSpec ==
    /\ ObdInit /\ [][ObdNext]_obdVars
    /\ WF_obdVars(\/ part = "transport" /\ Transports(MainPump)
                  \/ part = "session" /\ Updates(Session!Turns))
    /\ WF_obdVars(\/ part = "transport" /\ Transports(MainQueueDisconnect)
                  \/ part = "session" /\ Updates(Session!Transport))
    /\ WF_obdVars(\/ part = "transport" /\ Transports(TaskStep)
                  \/ part = "session" /\ Updates(s.fence /\ Session!LinkLost))
    /\ WF_obdVars(\/ part = "transport" /\ Transports(link = "closing" /\ HostLinkLost)
                  \/ part = "session" /\ Updates(Session!LossQueued))
    /\ WF_obdVars(\/ part = "transport" /\ Transports(HostConfirm)
                  \/ part = "session" /\ Updates(Session!ScanEnds))
    /\ WF_obdVars(part = "transport" /\ Transports(HostPublish))
    /\ SF_obdVars(part = "transport" /\ Transports(TaskCommandAccepted))

-----------------------------------------------------------------------------
(* Properties, besides those of the transport. *)

\* Disconnects and requests are answered; no timed state holds the session, and
\* a pairing that began to scan ends.
Waits == IF part = "transport" THEN main.disc ELSE s.st \in Session!TimedStates
Asks == IF part = "transport" THEN main.active # "NONE" ELSE s.manual /\ s.st = "SCANNING"
Open == IF part = "transport" THEN main.active # "NONE" ELSE s.manual
ObdAdvances == (Waits ~> ~Waits) /\ (Asks ~> ~Open)
=============================================================================
