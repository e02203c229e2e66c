----------------------------- MODULE MCEventLoop -----------------------------
(***************************************************************************)
(* EventLoop on small instances.  There is no symmetry, since the runs     *)
(* check liveness.                                                         *)
(***************************************************************************)
EXTENDS EventLoop

==============================================================================
