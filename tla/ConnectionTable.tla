--------------------------- MODULE ConnectionTable ---------------------------
(***************************************************************************)
(* What a TcpServer promises of its connections (TcpServer.h, TcpConnection.h *)
(* 69-79): clients are accepted in the order they come and within the      *)
(* descriptors there are; a connection is established once, closed once,   *)
(* and given back only after that; nothing stays half done.                *)
(***************************************************************************)
EXTENDS Naturals, FiniteSets

CONSTANTS
  Conns,   \* the connections, numbered in the order the clients come
  Limit    \* how many may be held at a time

VARIABLE stage

Stages == {"waiting", "accepted", "open", "closed", "released"}

Init == stage = [c \in Conns |-> "waiting"]

Held == {c \in Conns : stage[c] \in {"accepted", "open", "closed"}}

\* The connection may be established on the spot.
Accept(c) ==
  /\ stage[c] = "waiting" /\ \A d \in Conns : d < c => stage[d] # "waiting"
  /\ Cardinality(Held) < Limit
  /\ \E s \in {"accepted", "open"} : stage' = [stage EXCEPT ![c] = s]

Open(c) == stage[c] = "accepted" /\ stage' = [stage EXCEPT ![c] = "open"]

Close(c) == stage[c] = "open" /\ stage' = [stage EXCEPT ![c] = "closed"]

\* Closed connections are given back, several at a time.
Release(S) ==
  /\ \A c \in S : stage[c] = "closed"
  /\ stage' = [c \in Conns |-> IF c \in S THEN "released" ELSE stage[c]]

Next ==
  \/ \E c \in Conns : Accept(c) \/ Open(c) \/ Close(c)
  \/ \E S \in (SUBSET Conns) \ {{}} : Release(S)

SafeSpec == Init /\ [][Next]_stage

Progress ==
  \A c \in Conns :
    /\ stage[c] = "accepted" ~> stage[c] # "accepted"
    /\ stage[c] = "closed" ~> stage[c] = "released"

Spec == SafeSpec /\ Progress

==============================================================================
