------------------------------ MODULE ByteQueue ------------------------------
(***************************************************************************)
(* What a Buffer promises its connection: bytes leave it in the order they *)
(* were put in, each once.                                                 *)
(***************************************************************************)
EXTENDS Naturals, Sequences

VARIABLES
  content,   \* the bytes put in and not taken out yet
  moved      \* the bytes put in or taken out last

Init == content = <<>> /\ moved = <<>>

Put == content' = content \o moved'

Take ==
  \E n \in 0..Len(content) :
    /\ moved' = SubSeq(content, 1, n)
    /\ content' = SubSeq(content, n + 1, Len(content))

Next == Put \/ Take

Spec == Init /\ [][Next]_<<content, moved>>

==============================================================================
