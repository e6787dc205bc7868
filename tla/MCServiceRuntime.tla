--------------------------- MODULE MCServiceRuntime ---------------------------
(***************************************************************************)
(* Small instances of ServiceRuntime for TLC.                              *)
(***************************************************************************)
EXTENDS ServiceRuntime

TwoDeployments == {{"auth", "subscription"}, {"auth", "monitoring", "notification"}}
OneClient == {"subscription"}
=============================================================================
