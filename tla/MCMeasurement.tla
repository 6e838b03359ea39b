----------------------------- MODULE MCMeasurement ------------------------------
(***************************************************************************)
(* Measurement with one browser, which connects, lags and disconnects as   *)
(* it likes, and one request that begins an epoch.  Where alerts and       *)
(* epochs matter there is one status; where the status matters it changes  *)
(* for ever, and there is one alert and one instant.                       *)
(***************************************************************************)
EXTENDS Measurement

CONSTANTS c1, h1

MCClient == {c1}
MCHandler == {h1}
MCOneWorld == {"present"}
MCWorlds == {"present", "absent"}
MCOneLoad == {"running"}
=================================================================================
