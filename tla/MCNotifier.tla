----------------------------- MODULE MCNotifier -----------------------------
(***************************************************************************)
(* Notifier with one alert the policy lets through and one it does not.    *)
(***************************************************************************)
EXTENDS Notifier

CONSTANTS urgent, minor
=============================================================================
