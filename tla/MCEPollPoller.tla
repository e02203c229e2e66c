---------------------------- MODULE MCEPollPoller ----------------------------
(***************************************************************************)
(* EPollPoller on three channels, two of them one after the other on the   *)
(* same descriptor.                                                        *)
(***************************************************************************)
EXTENDS EPollPoller, TLC

CONSTANTS a, b1, b2, fdA, fdB

MCFdOf == (a :> fdA) @@ (b1 :> fdB) @@ (b2 :> fdB)

==============================================================================
