------------------------- MODULE MCWifiCredentials -------------------------
(* Small instances of WifiCredentials. *)
EXTENDS WifiCredentials, TLC

CONSTANTS a, b, p, q

AnyNetwork == Permutations({ a, b })
=============================================================================
