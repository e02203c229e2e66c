------------------------------- MODULE MCBuffer -------------------------------
(***************************************************************************)
(* Buffer with a vector of a few bytes.                                    *)
(***************************************************************************)
EXTENDS Buffer

==============================================================================
