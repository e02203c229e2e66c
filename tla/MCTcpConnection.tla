--------------------------- MODULE MCTcpConnection ---------------------------
(***************************************************************************)
(* TcpConnection on small instances.  Users and messages are               *)
(* interchangeable in the runs that check safety alone.                    *)
(***************************************************************************)
EXTENDS TcpConnection

Symmetry == Permutations(Users) \cup Permutations(Messages)

==============================================================================
