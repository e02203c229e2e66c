-------------------------- MODULE RoundRobinProofs --------------------------
(***************************************************************************)
(* The pool's round robin, for any number of threads and clients:          *)
(* connections are spread evenly over the loops (TcpServer's Balanced).    *)
(***************************************************************************)
EXTENDS TcpServerProofs, FiniteSetTheorems

\* The connections of a loop.
On(l) == {c \in 1..accepted : conn[c].ioLoop = l}

\* The loops ahead of the cursor have had one connection more than the others.
\* Nobody adds to the pool after the first client has come: m_listenning itself
\* falls again with the acceptor.
BalanceInv ==
  /\ arrived > 0 => Len(m_loops) = m_numThreads
  /\ accepted = 0 => m_next = 0
  /\ \A c \in 1..accepted : conn[c].ioLoop \in Range(getAllLoops)
  /\ \E q \in Nat : \A l \in 1..Len(m_loops) :
       Cardinality(On(l)) = IF l <= m_next THEN q + 1 ELSE q

\* The loops there are.
LEMMA LoopRange ==
  ASSUME TypeOK
  PROVE  /\ Len(m_loops) \in Nat /\ (m_loops = <<>> <=> Len(m_loops) = 0)
         /\ Range(getAllLoops) = IF m_loops = <<>> THEN {Base} ELSE 1..Len(m_loops)
<1>1. m_loops \in Seq(Loops) /\ \A i \in 1..Len(m_loops) : m_loops[i] = i
  BY DEF TypeOK, PoolTypes
<1>2. Len(m_loops) \in Nat /\ DOMAIN m_loops = 1..Len(m_loops)
      /\ (m_loops = <<>> <=> Len(m_loops) = 0)
  BY <1>1
<1>3. Range(m_loops) = 1..Len(m_loops)
  BY <1>1, <1>2 DEF Range
<1>4. Range(<<Base>>) = {Base}
  BY DEF Range
<1> QED
  BY <1>2, <1>3, <1>4 DEF getAllLoops

\* The connections of a loop can be counted.
LEMMA OnFinite ==
  ASSUME TypeOK, NEW l
  PROVE  IsFiniteSet(On(l)) /\ Cardinality(On(l)) \in Nat
<1>1. accepted \in Int /\ 1 \in Int
  BY Accepted
<1>2. IsFiniteSet(1..accepted)
  BY <1>1, FS_Interval
<1>3. On(l) \in SUBSET (1..accepted)
  BY DEF On
<1>4. IsFiniteSet(On(l))
  BY <1>2, <1>3, FS_Subset
<1> QED
  BY <1>4, FS_CardinalityType

LEMMA BalanceInit == Init => BalanceInv
<1> SUFFICES ASSUME Init PROVE BalanceInv
  OBVIOUS
<1>1. arrived = 0 /\ accepted = 0 /\ m_next = 0 /\ m_loops = <<>>
  BY DEF Init
<1>2. Len(m_loops) = 0 /\ 0 \in Nat
  BY <1>1
<1> QED
  BY <1>1, <1>2 DEF BalanceInv

\* Steps that accept nothing and leave the pool alone.
LEMMA BalanceStays ==
  ASSUME BalanceInv, UNCHANGED <<m_numThreads, m_loops, accepted, m_next>>,
         \A c \in 1..accepted : conn'[c].ioLoop = conn[c].ioLoop,
         arrived' > 0 => arrived > 0 \/ Len(m_loops) = m_numThreads
  PROVE  BalanceInv'
<1>1. \A l : On(l)' = On(l)
  BY DEF On
<1>2. PICK q \in Nat : \A l \in 1..Len(m_loops) :
        Cardinality(On(l)) = IF l <= m_next THEN q + 1 ELSE q
  BY DEF BalanceInv
<1>3. \A l \in 1..Len(m_loops') :
        Cardinality(On(l)') = IF l <= m_next' THEN q + 1 ELSE q
  BY <1>1, <1>2
<1>4. getAllLoops' = getAllLoops
  BY DEF getAllLoops
<1> QED
  BY <1>3, <1>4 DEF BalanceInv

\* The pool grows before the first client.
LEMMA PoolGrows ==
  ASSUME TypeOK, TypeOK', StartInv, BalanceInv, NEW t \in Starters, startLoopReturns(t)
  PROVE  BalanceInv'
<1>1. /\ start[t] = "startLoop" /\ Len(m_loops) < m_numThreads
      /\ UNCHANGED <<m_numThreads, arrived, accepted, m_next>>
  BY DEF startLoopReturns, StartInv, netVars, connVars
<1>2. ~(arrived > 0)
  <2>1. Len(m_loops) \in Nat /\ m_numThreads \in Int
    BY LoopRange DEF TypeOK, PoolTypes
  <2> QED
    BY <1>1, <2>1 DEF BalanceInv
<1>3. accepted = 0
  BY <1>2, ServerAssumption DEF TypeOK, ConnTypes
<1>4. m_next' = 0 /\ 1..accepted' = {}
  BY <1>1, <1>3 DEF BalanceInv
<1>5. \A l : On(l)' = {}
  BY <1>4 DEF On
<1>6. \A l \in 1..Len(m_loops') :
        Cardinality(On(l)') = IF l <= m_next' THEN 0 + 1 ELSE 0
  BY <1>4, <1>5, FS_EmptySet
<1> QED
  BY <1>1, <1>2, <1>4, <1>6 DEF BalanceInv

\* A connection goes to the loop under the cursor.
LEMMA AcceptBalances ==
  ASSUME TypeOK, BalanceInv, acceptReady
  PROVE  BalanceInv'
<1> DEFINE c == accepted + 1
           N == Len(m_loops)
<1>1. /\ UNCHANGED <<m_numThreads, m_loops, arrived>> /\ accepted < arrived
      /\ accepted' = c /\ m_next' = NextIndex
      /\ conn' = [conn EXCEPT ![c] =
           [phase |-> IF NextLoop = Base THEN "connected" ELSE "connecting",
            ioLoop |-> NextLoop, name |-> m_nextConnId]]
  BY DEF acceptReady, newConnection, poolVars, netVars
<1>2. /\ accepted \in Nat /\ arrived \in Nat /\ arrived <= MaxConns /\ MaxConns \in Nat
      /\ N \in Nat /\ m_next \in Nat /\ (m_next = 0 \/ m_next < N)
      /\ \A i \in 1..N : m_loops[i] = i
  BY LoopRange, ServerAssumption DEF TypeOK, ConnTypes, PoolTypes, ServerAssumption
<1>3. c \in Conns /\ c \in Nat /\ c > 0 /\ 1..accepted' = 1..accepted \cup {c}
      /\ c \notin 1..accepted
  BY <1>1, <1>2 DEF Conns
<1>4. conn'[c].ioLoop = NextLoop /\ \A d \in 1..accepted : conn'[d] = conn[d]
  <2>1. DOMAIN conn = Conns /\ 1..accepted \subseteq Conns
    BY Accepted
  <2> QED
    BY <1>1, <1>3, <2>1
<1>5. NextLoop = IF m_loops = <<>> THEN Base ELSE m_next + 1
  BY <1>2, LoopRange DEF NextLoop
<1>6. \A l : On(l)' = IF l = NextLoop THEN On(l) \cup {c} ELSE On(l)
  <2> SUFFICES ASSUME NEW l
               PROVE  On(l)' = IF l = NextLoop THEN On(l) \cup {c} ELSE On(l)
    OBVIOUS
  <2>1. On(l)' = {d \in 1..accepted \cup {c} : conn'[d].ioLoop = l}
    BY <1>3 DEF On
  <2> QED
    BY <1>3, <1>4, <2>1 DEF On
<1>7. \A l : c \notin On(l)
  BY <1>3 DEF On
<1>8. \A l : Cardinality(On(l)') =
        IF l = NextLoop THEN Cardinality(On(l)) + 1 ELSE Cardinality(On(l))
  <2> SUFFICES ASSUME NEW l
               PROVE  Cardinality(On(l)') =
                        IF l = NextLoop THEN Cardinality(On(l)) + 1 ELSE Cardinality(On(l))
    OBVIOUS
  <2>1. IsFiniteSet(On(l)) /\ c \notin On(l)
    BY <1>7, OnFinite
  <2>2. Cardinality(On(l) \cup {c}) = Cardinality(On(l)) + 1
    BY <2>1, FS_AddElement
  <2> QED
    BY <1>6, <2>2
<1>9. \A d \in 1..accepted' : conn'[d].ioLoop \in Range(getAllLoops')
  <2>1. getAllLoops' = getAllLoops
    BY <1>1 DEF getAllLoops
  <2>2. NextLoop \in Range(getAllLoops)
    BY <1>2, <1>5, LoopRange
  <2> QED
    BY <1>3, <1>4, <2>1, <2>2 DEF BalanceInv
<1>10. PICK q \in Nat : \A l \in 1..N :
         Cardinality(On(l)) = IF l <= m_next THEN q + 1 ELSE q
  BY DEF BalanceInv
<1>11. \E r \in Nat : \A l \in 1..N :
         Cardinality(On(l)') = IF l <= m_next' THEN r + 1 ELSE r
  <2>1. CASE m_loops = <<>>
    <3>1. 1..N = {}
      BY <1>2, <2>1, LoopRange
    <3> QED
      BY <3>1
  <2>2. CASE m_loops # <<>> /\ m_next + 1 < N
    <3>1. m_next' = m_next + 1
      BY <1>1, <1>2, <2>2 DEF NextIndex
    <3>2. \A l \in 1..N : Cardinality(On(l)') = IF l <= m_next' THEN q + 1 ELSE q
      BY <1>2, <1>5, <1>8, <1>10, <2>2, <3>1
    <3> QED
      BY <3>2
  <2>3. CASE m_loops # <<>> /\ ~(m_next + 1 < N)
    <3>1. m_next' = 0 /\ m_next + 1 = N
      BY <1>1, <1>2, <2>3, LoopRange DEF NextIndex
    <3>2. q + 1 \in Nat
        /\ \A l \in 1..N : Cardinality(On(l)') = IF l <= m_next' THEN q + 1 + 1 ELSE q + 1
      BY <1>2, <1>5, <1>8, <1>10, <2>3, <3>1
    <3> QED
      BY <3>2
  <2> QED
    BY <2>1, <2>2, <2>3
<1>12. arrived' > 0 => Len(m_loops') = m_numThreads'
  BY <1>1 DEF BalanceInv
<1>13. ~(accepted' = 0)
  BY <1>1, <1>3
<1> QED
  BY <1>1, <1>9, <1>11, <1>12, <1>13 DEF BalanceInv

LEMMA BalanceStep ==
  ASSUME TypeOK, TypeOK', StartInv, BalanceInv, [Next]_vars
  PROVE  BalanceInv'
<1>1. ASSUME UNCHANGED <<m_numThreads, m_loops, arrived, accepted, m_next, conn>>
      PROVE  BalanceInv'
  BY <1>1, BalanceStays
<1>2. ASSUME NEW t \in Starters, startServer(t) \/ startLoop(t) \/ runListen(t)
      PROVE  BalanceInv'
  BY <1>1, <1>2 DEF startServer, startLoop, runListen, netVars, connVars
<1>3. ASSUME NEW t \in Starters, startLoopReturns(t) PROVE BalanceInv'
  BY <1>3, PoolGrows
<1>4. CASE clientComes
  <2>1. m_listenning /\ UNCHANGED <<m_numThreads, m_loops, accepted, m_next, conn>>
    BY <1>4 DEF clientComes, poolVars, connVars
  <2>2. Len(m_loops) = m_numThreads
    BY <2>1 DEF StartInv
  <2> QED
    BY <2>1, <2>2, BalanceStays
<1>5. CASE acceptReady
  BY <1>5, AcceptBalances
<1>6. ASSUME NEW c \in Conns, clientLeaves(c) PROVE BalanceInv'
  BY <1>1, <1>6 DEF clientLeaves, poolVars, connVars
<1>7. ASSUME NEW c \in 1..accepted, NEW p, conn' = [conn EXCEPT ![c].phase = p],
             UNCHANGED <<m_numThreads, m_loops, arrived, accepted, m_next>>
      PROVE  BalanceInv'
  BY <1>7, PhaseChange, BalanceStays
<1>8. ASSUME NEW c \in Conns, handleClose(c) PROVE BalanceInv'
  <2>1. /\ conn[c].phase = "connected" /\ conn' = [conn EXCEPT ![c].phase = "disconnected"]
        /\ UNCHANGED <<m_numThreads, m_loops, arrived, accepted, m_next>>
    BY <1>8 DEF handleClose, poolVars, netVars
  <2>2. c \in 1..accepted
    BY <2>1, ServerAssumption, Accepted DEF TypeOK, ConnTypes, Conns
  <2> QED
    BY <1>7, <2>1, <2>2
<1>9. ASSUME NEW l \in Loops, NEW c \in Conns, connectEstablished(l, c) \/ connectDestroyed(l, c)
      PROVE  BalanceInv'
  <2>1. PICK op \in {"establish", "destroy"}, p \in Phases :
          runs(l, op, c) /\ conn' = [conn EXCEPT ![c].phase = p]
    BY <1>9 DEF connectEstablished, connectDestroyed, Phases
  <2>2. UNCHANGED <<m_numThreads, m_loops, arrived, accepted, m_next>>
    BY <2>1 DEF runs, poolVars
  <2>3. Functor(op, c) \in Functors
    <3>1. functors[l] \in Seq(Functors) /\ ran[l] \in Nat
      BY DEF TypeOK, QueueTypes
    <3>2. ran[l] + 1 \in 1..Len(functors[l])
      BY <2>1, <3>1 DEF runs
    <3> QED
      BY <2>1, <3>1, <3>2 DEF runs
  <2>4. c \in 1..accepted
    BY <2>1, <2>3 DEF Functors, Functor
  <2> QED
    BY <1>7, <2>1, <2>2, <2>4
<1>10. ASSUME NEW l \in Loops,
              publish(l) \/ loop(l) \/ takeFunctors(l) \/ functorsDone(l) \/ destroyLoop(l)
       PROVE  BalanceInv'
  BY <1>1, <1>10 DEF publish, loop, takeFunctors, functorsDone, destroyLoop, poolVars,
       netVars, connVars
<1>11. CASE listen \/ (\E c \in Conns : removalRuns(c)) \/ loopAgain \/ quit
  BY <1>1, <1>11 DEF listen, removalRuns, runs, loopAgain, quit, poolVars, netVars, connVars
<1>12. CASE endStep
  BY <1>1, <1>12 DEF endStep, destruct, acceptorGoes, quitThread, joinThread, poolVars,
       netVars, connVars
<1>13. CASE UNCHANGED vars
  BY <1>1, <1>13 DEF vars, poolVars, netVars, connVars
<1> QED
  BY <1>2, <1>3, <1>4, <1>5, <1>6, <1>8, <1>9, <1>10, <1>11, <1>12, <1>13
     DEF Next, starterStep, loopStep, runFunctor, baseStep

\* Balanced: the round robin (EventLoopThreadPool.h:52-59) puts each connection in a
\* loop of the pool, and gives no loop two connections more than another.
THEOREM PoolBalanced == SafeSpec => []Balanced
<1>1. Init => TypeOK /\ StartInv /\ BalanceInv
  BY TypeInit, StartInit, BalanceInit
<1>2. TypeOK /\ StartInv /\ BalanceInv /\ [Next]_vars => (TypeOK /\ StartInv /\ BalanceInv)'
  BY TypeStep, StartStep, BalanceStep
<1>3. TypeOK /\ BalanceInv => Balanced
  <2> SUFFICES ASSUME TypeOK, BalanceInv,
                      NEW k \in Range(getAllLoops), NEW l \in Range(getAllLoops)
               PROVE  Cardinality(On(k)) - Cardinality(On(l)) <= 1
    BY DEF Balanced, BalanceInv, On
  <2>1. CASE m_loops = <<>>
    <3>1. k = l
      BY <2>1, LoopRange
    <3>2. Cardinality(On(l)) \in Nat
      BY OnFinite
    <3> QED
      BY <3>1, <3>2
  <2>2. CASE m_loops # <<>>
    <3>1. k \in 1..Len(m_loops) /\ l \in 1..Len(m_loops)
      BY <2>2, LoopRange
    <3>2. PICK q \in Nat : \A i \in 1..Len(m_loops) :
            Cardinality(On(i)) = IF i <= m_next THEN q + 1 ELSE q
      BY DEF BalanceInv
    <3> QED
      BY <3>1, <3>2
  <2> QED
    BY <2>1, <2>2
<1> QED
  BY <1>1, <1>2, <1>3, PTL DEF SafeSpec

=============================================================================
