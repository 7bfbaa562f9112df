--------------------------- MODULE MCChaosRunner ---------------------------
(***************************************************************************)
(* ChaosRunner with the shapes of service-down, host-high-memory,          *)
(* tempo-pipeline-stop and backend-network-delay.                          *)
(***************************************************************************)
EXTENDS ChaosRunner, TLC

CONSTANTS r1, r2, r3

TwoSteps ==
  [down |-> <<"break", "wait">>, memory |-> <<"stress", "cap">>]

ThreeSteps ==
  [tempo |-> <<"break", "probe", "repair">>, delay |-> <<"delay", "undelay">>,
   memory |-> <<"stress", "cap">>]

Symmetric == Permutations(Run)
=============================================================================
