------------------------- MODULE MCConnectionCycle -------------------------
(***************************************************************************)
(* ConnectionCycle in an open environment: every context below may be      *)
(* sampled by any update.  The contexts are those the drive loop can build: *)
(* a phone or an event needs its radio, an OBD session needs OBD enabled.  *)
(***************************************************************************)
EXTENDS ConnectionCycle

Quiet == [ v1 |-> FALSE, bootReady |-> TRUE, autoPush |-> FALSE,
           verifyEdge |-> FALSE, v1EventAge |-> MaxAge,
           obdEnabled |-> FALSE, obdSaved |-> FALSE, obdConnected |-> FALSE,
           obdState |-> "IDLE", obdSpeed |-> FALSE, proxyEnabled |-> FALSE,
           proxyClient |-> FALSE, proxyOnce |-> FALSE,
           obdStopped |-> TRUE, proxyStopped |-> TRUE ]

\* The OBD session as the coordinator may find it.
ObdViews ==
    { << FALSE, FALSE, "IDLE", FALSE >>, << TRUE, FALSE, "IDLE", FALSE >> }
    \cup { << TRUE, TRUE, s, FALSE >> :
             s \in { "WAIT_BOOT", "CONNECTING", "POLLING", "ERROR_BACKOFF",
                     "DISCONNECTED", "ECU_IDLE" } }
    \cup { << TRUE, TRUE, "POLLING", TRUE >> }

ProxyViews ==   \* enabled, client, client seen this boot
    { << FALSE, FALSE, FALSE >>, << TRUE, FALSE, FALSE >>,
      << TRUE, TRUE, TRUE >>, << TRUE, FALSE, TRUE >> }

WithObd(c, o) ==
    [c EXCEPT !.obdEnabled = o[1], !.obdSaved = o[2], !.obdState = o[3],
              !.obdSpeed = o[4],
              !.obdConnected = o[3] \in { "POLLING", "ERROR_BACKOFF" }]

WithProxy(c, x) ==
    [c EXCEPT !.proxyEnabled = x[1], !.proxyClient = x[2], !.proxyOnce = x[3]]

Connected ==
    { WithProxy(WithObd([Quiet EXCEPT !.v1 = TRUE, !.autoPush = a,
                                      !.verifyEdge = e, !.v1EventAge = age],
                        o), x)
      : a \in BOOLEAN, e \in BOOLEAN, age \in { 0, SettleFallback },
        o \in ObdViews, x \in ProxyViews }

Absent ==
    { [Quiet EXCEPT !.bootReady = b, !.obdStopped = os, !.proxyStopped = ps,
                    !.v1 = v, !.v1EventAge = 0]
      : b \in BOOLEAN, os \in BOOLEAN, ps \in BOOLEAN, v \in BOOLEAN }

MCContexts == Connected \cup Absent
============================================================================
