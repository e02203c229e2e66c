--------------------------- MODULE TcpServerProofs ---------------------------
(***************************************************************************)
(* Proofs about TcpServer, for any number of threads, clients, descriptors *)
(* and callers of start().                                                 *)
(***************************************************************************)
EXTENDS TcpServer, TLAPS

(***************************************************************************)
(* The inductive invariant.                                                *)
(***************************************************************************)

\* One caller of start() at a time is in the pool, and only before the server
\* listens or is told to; the threads are started one after the other.
StartInv ==
  /\ \A t \in Starters : start[t] # "idle" => m_started
  /\ \A t, u \in Starters : Starting(t) /\ Starting(u) => t = u
  /\ \A t \in Starters : start[t] = "startLoop" => Len(m_loops) < m_numThreads
  /\ \A t \in Starters : Starting(t) => server = "alive"
  /\ m_listenning \/ Functor("listen", 0) \in Queued[Base] =>
       /\ m_started /\ Len(m_loops) = m_numThreads
       /\ \A t \in Starters : ~Starting(t)
  /\ \A l \in Loops :
       /\ l > Len(m_loops) + 1 \/ (l # Base /\ ~m_started) => at[l] = "none"
       /\ \A t \in Starters :
            start[t] = "pool" /\ l > Len(m_loops) => at[l] = "none"

\* What is left of a queue p and of a batch b of which r callbacks have run, and
\* that no callback is in there twice.
Rest(p, b, r) == Range(p) \cup {b[i] : i \in {j \in DOMAIN b : j > r}}

Once(p, b, r) ==
  /\ \A i, j \in 1..Len(p) : p[i] = p[j] => i = j
  /\ \A i, j \in (r + 1)..Len(b) : b[i] = b[j] => i = j
  /\ \A i \in (r + 1)..Len(b), j \in 1..Len(p) : b[i] # p[j]

\* The loops' queues.
QueueInv == \A l \in Loops :
  /\ Once(m_pendingFunctors[l], functors[l], ran[l])
  /\ at[l] # "functors" => functors[l] = <<>> /\ ran[l] = 0
  /\ l # Base => \A f \in Queued[l] : f.op \notin {"listen", "remove"}

\* Where a connection is mentioned, by its phase.
Mentions(c, l) ==
  /\ Functor("establish", c) \in Waiting[l] =>
       l = conn[c].ioLoop /\ conn[c].phase = "connecting"
  /\ Functor("destroy", c) \in Waiting[l] =>
       l = conn[c].ioLoop /\ conn[c].phase = "disconnected"
  /\ Functor("remove", c) \in Waiting[Base] =>
       conn[c].phase = "disconnected" /\ Functor("destroy", c) \notin Waiting[l]
  /\ conn[c].phase = "disconnected" /\ l = conn[c].ioLoop =>
       \/ Functor("remove", c) \in Waiting[Base]
       \/ Functor("destroy", c) \in Waiting[l]
       \/ at[l] = "dead"

ConnInv == \A c \in 1..accepted, l \in Loops : Mentions(c, l)

\* The names, until they come round.
NameInv ==
  /\ accepted < MaxConns => m_nextConnId = accepted + 1
  /\ \A c \in 1..accepted : conn[c].name = c
  /\ \A n \in DOMAIN m_connections : m_connections[n] = n

\* The map keeps a connection until it is removed in the base loop, and an idle
\* server has none to keep.
MapInv ==
  /\ \A c \in 1..accepted :
       \/ conn[c].phase \in {"connecting", "connected"}
       \/ Functor("remove", c) \in Waiting[Base]
       => server = "alive" /\ c \in DOMAIN m_connections
  /\ server # "alive" => at[Base] \in {"exited", "dead"}
  /\ Functor("listen", 0) \in Waiting[Base] => server = "alive" /\ ~m_listenning

ServerInv == TypeOK /\ StartInv /\ QueueInv /\ ConnInv /\ NameInv /\ MapInv

------------------------------------------------------------------------------
(***************************************************************************)
(* Queues and batches.                                                     *)
(***************************************************************************)

\* Appending a callback that is not there.
LEMMA RestAppend ==
  ASSUME NEW S, NEW p \in Seq(S), NEW b \in Seq(S), NEW r \in Nat, NEW f \in S
  PROVE  /\ Rest(Append(p, f), b, r) = Rest(p, b, r) \cup {f}
         /\ Range(Append(p, f)) = Range(p) \cup {f}
         /\ Once(p, b, r) /\ f \notin Rest(p, b, r) => Once(Append(p, f), b, r)
<1> DEFINE q == Append(p, f)
<1>1. /\ q \in Seq(S) /\ Len(q) = Len(p) + 1
      /\ \A i \in 1..Len(p) : q[i] = p[i]
      /\ q[Len(p) + 1] = f
  OBVIOUS
<1>2. /\ DOMAIN q = 1..(Len(p) + 1) /\ DOMAIN p = 1..Len(p)
      /\ Len(p) \in Nat /\ DOMAIN b = 1..Len(b) /\ Len(b) \in Nat
  BY <1>1
<1>3. Range(q) = Range(p) \cup {f}
  BY <1>1, <1>2 DEF Range
<1>4. ASSUME Once(p, b, r), f \notin Rest(p, b, r) PROVE Once(q, b, r)
  <2>1. \A i \in 1..Len(p) : p[i] # f
    BY <1>4, <1>2 DEF Rest, Range
  <2>2. \A i \in (r + 1)..Len(b) : b[i] # f
    BY <1>4, <1>2 DEF Rest
  <2> HIDE DEF q
  <2>3. \A i, j \in 1..Len(q) : q[i] = q[j] => i = j
    BY <1>1, <1>2, <2>1, <1>4, SMTT(30) DEF Once
  <2>4. \A i \in (r + 1)..Len(b), j \in 1..Len(q) : b[i] # q[j]
    BY <1>1, <1>2, <2>2, <1>4 DEF Once
  <2> QED
    BY <1>4, <2>3, <2>4 DEF Once
<1> QED
  BY <1>3, <1>4 DEF Rest

\* Running the next callback of a batch.
LEMMA RestRun ==
  ASSUME NEW S, NEW p \in Seq(S), NEW b \in Seq(S), NEW r \in Nat,
         r < Len(b), Once(p, b, r)
  PROVE  /\ b[r + 1] \in Rest(p, b, r)
         /\ Rest(p, b, r + 1) = Rest(p, b, r) \ {b[r + 1]}
         /\ Once(p, b, r + 1)
<1>1. DOMAIN b = 1..Len(b) /\ Len(b) \in Nat /\ DOMAIN p = 1..Len(p) /\ Len(p) \in Nat
  OBVIOUS
<1>2. b[r + 1] \in Rest(p, b, r)
  BY <1>1 DEF Rest
<1>3. b[r + 1] \notin Rest(p, b, r + 1)
  BY <1>1 DEF Rest, Once, Range
<1>4. Rest(p, b, r + 1) \subseteq Rest(p, b, r)
  BY <1>1 DEF Rest
<1>5. Rest(p, b, r) \ {b[r + 1]} \subseteq Rest(p, b, r + 1)
  BY <1>1 DEF Rest
<1>6. Once(p, b, r + 1)
  BY <1>1 DEF Once
<1> QED
  BY <1>2, <1>3, <1>4, <1>5, <1>6

\* The queue becomes the batch, and a batch that has run goes.
LEMMA RestMove ==
  ASSUME NEW S, NEW p \in Seq(S), NEW b \in Seq(S)
  PROVE  /\ Rest(<<>>, p, 0) = Rest(p, <<>>, 0)
         /\ Once(p, <<>>, 0) => Once(<<>>, p, 0)
         /\ Rest(p, b, Len(b)) = Rest(p, <<>>, 0)
         /\ Once(p, b, Len(b)) => Once(p, <<>>, 0)
         /\ Rest(<<>>, <<>>, 0) = {} /\ Once(<<>>, <<>>, 0)
         /\ Range(<<>>) = {}
<1>1. DOMAIN b = 1..Len(b) /\ Len(b) \in Nat /\ DOMAIN p = 1..Len(p) /\ Len(p) \in Nat
  OBVIOUS
<1> QED
  BY <1>1 DEF Rest, Range, Once

------------------------------------------------------------------------------
(***************************************************************************)
(* Types and start().                                                      *)
(***************************************************************************)

\* Sequences over a set are sequences over a larger one.
LEMMA SeqGrows ==
  ASSUME NEW S, NEW T, S \subseteq T
  PROVE  Seq(S) \subseteq Seq(T)
  OBVIOUS

\* Queueing keeps the type of the queues.
LEMMA QueueType ==
  ASSUME m_pendingFunctors \in [Loops -> Seq(Functors)],
         NEW l \in Loops, NEW f \in Functors, queueInLoop(l, f)
  PROVE  m_pendingFunctors' \in [Loops -> Seq(Functors)]
<1>1. Append(m_pendingFunctors[l], f) \in Seq(Functors)
  OBVIOUS
<1> QED
  BY <1>1 DEF queueInLoop

\* The callbacks there are.
LEMMA FunctorTypes ==
  /\ Functor("listen", 0) \in Functors
  /\ \A c \in 1..accepted :
       /\ Functor("establish", c) \in Functors
       /\ Functor("remove", c) \in Functors
       /\ Functor("destroy", c) \in Functors
  BY DEF Functor, Functors

\* The loop of a new connection is one of the loops, and the index stays good.
LEMMA NextTypes ==
  ASSUME TypeOK
  PROVE  /\ NextLoop \in Loops
         /\ NextIndex \in Nat /\ (NextIndex = 0 \/ NextIndex < Len(m_loops))
         /\ NextId(m_nextConnId) \in 1..IdRange
<1> USE ServerAssumption DEF ServerAssumption, TypeOK, PoolTypes, ConnTypes
<1>1. Base \in Loops
  BY DEF Base, Loops
<1>2. CASE m_loops = <<>>
  BY <1>1, <1>2 DEF NextLoop, NextIndex, NextId
<1>3. CASE m_loops # <<>>
  <2>1. Len(m_loops) \in Nat /\ Len(m_loops) > 0
    BY <1>3
  <2>2. m_next + 1 \in 1..Len(m_loops)
    BY <2>1
  <2>3. m_loops[m_next + 1] \in Loops
    BY <2>2
  <2> QED
    BY <1>3, <2>1, <2>3 DEF NextLoop, NextIndex, NextId
<1> QED
  BY <1>2, <1>3

LEMMA TypeInit == Init => TypeOK
<1> SUFFICES ASSUME Init PROVE TypeOK
  OBVIOUS
<1> USE ServerAssumption DEF ServerAssumption, Init
<1>1. Base \in Loops
  BY DEF Base, Loops
<1>2. /\ <<>> \in Seq(Functors) /\ <<>> \in Seq(Loops) /\ Len(<<>>) = 0
      /\ Len(m_loops) = 0
  OBVIOUS
<1>3. DOMAIN m_connections = {} /\ Range(m_connections) = {}
  BY DEF Range
<1>4. conn \in [Conns -> [phase : Phases, ioLoop : Loops, name : 0..IdRange]]
  BY <1>1 DEF Phases
<1>5. /\ \A c \in Conns : conn[c].phase = "none" <=> c > accepted
      /\ at \in [Loops -> LoopPhases] /\ m_quit \in [Loops -> BOOLEAN]
      /\ start \in [Starters -> {"idle", "pool", "startLoop", "done"}]
  BY DEF LoopPhases, Conns
<1>6. /\ m_pendingFunctors \in [Loops -> Seq(Functors)]
      /\ functors \in [Loops -> Seq(Functors)]
      /\ ran \in [Loops -> Nat] /\ \A l \in Loops : ran[l] <= Len(functors[l])
  BY <1>2
<1>7. /\ m_loops \in Seq(Loops) /\ \A i \in 1..Len(m_loops) : m_loops[i] = i
      /\ Len(m_loops) <= m_numThreads /\ joined \in 0..Len(m_loops)
  BY <1>2
<1> HIDE DEF Init
<1>8. /\ m_numThreads \in 0..MaxThreads /\ m_started \in BOOLEAN
      /\ m_listenning \in BOOLEAN /\ m_next = 0 /\ m_next \in Nat
      /\ server \in {"alive", "ending", "gone"}
  BY DEF Init
<1>9. /\ arrived \in 0..MaxConns /\ left \subseteq 1..arrived /\ accepted \in 0..arrived
      /\ m_nextConnId \in 1..IdRange
  BY DEF Init
<1> QED
  BY <1>3, <1>4, <1>5, <1>6, <1>7, <1>8, <1>9
     DEF TypeOK, PoolTypes, ConnTypes, LoopTypes, QueueTypes

\* Parts of the state that a step leaves alone keep their types.
LEMMA TypesStay ==
  /\ PoolTypes /\ UNCHANGED <<poolVars, m_next>> => PoolTypes'
  /\ ConnTypes /\ UNCHANGED <<netVars, accepted, m_nextConnId, m_connections, conn>>
       => ConnTypes'
  /\ LoopTypes /\ UNCHANGED <<at, m_quit, endVars, m_loops>> => LoopTypes'
  /\ QueueTypes /\ UNCHANGED <<functors, ran, m_pendingFunctors, accepted>> => QueueTypes'
<1>1. PoolTypes /\ UNCHANGED <<poolVars, m_next>> => PoolTypes'
  BY DEF PoolTypes, poolVars
<1>2. ConnTypes /\ UNCHANGED <<netVars, accepted, m_nextConnId, m_connections, conn>>
        => ConnTypes'
  BY DEF ConnTypes, netVars
<1>3. LoopTypes /\ UNCHANGED <<at, m_quit, endVars, m_loops>> => LoopTypes'
  BY DEF LoopTypes, endVars
<1>4. QueueTypes /\ UNCHANGED <<functors, ran, m_pendingFunctors, accepted>> => QueueTypes'
  BY DEF QueueTypes, Functors
<1> QED
  BY <1>1, <1>2, <1>3, <1>4

\* A callback that is run is one of the callbacks there are.
LEMMA RunsTypes ==
  ASSUME TypeOK, NEW l \in Loops, NEW op, NEW c, runs(l, op, c)
  PROVE  /\ Functor(op, c) \in Functors
         /\ op # "listen" => c \in 1..accepted
<1>1. /\ functors[l] \in Seq(Functors) /\ ran[l] \in Nat /\ ran[l] < Len(functors[l])
      /\ functors[l][ran[l] + 1] = Functor(op, c)
  BY DEF TypeOK, QueueTypes, runs
<1>2. functors[l][ran[l] + 1] \in Functors
  BY <1>1
<1> QED
  BY <1>1, <1>2 DEF Functors, Functor

\* Every step keeps the types; that the pool does not outgrow m_numThreads needs
\* StartInv.
LEMMA TypeStep == TypeOK /\ StartInv /\ [Next]_vars => TypeOK'
<1> SUFFICES ASSUME TypeOK, StartInv, [Next]_vars PROVE TypeOK'
  OBVIOUS
<1> USE ServerAssumption DEF ServerAssumption, TypeOK
<1>0. /\ PoolTypes /\ ConnTypes /\ LoopTypes /\ QueueTypes
      /\ Base \in Loops /\ Len(m_loops) \in Nat
      /\ \A i \in Nat : i <= MaxThreads => i \in Loops
  BY DEF Base, Loops, PoolTypes
<1>1. ASSUME NEW t \in Starters, startServer(t) PROVE TypeOK'
  <2>1. PoolTypes'
    BY <1>0, <1>1 DEF startServer, PoolTypes, connVars
  <2> QED
    BY <1>0, <1>1, <2>1, TypesStay DEF startServer, connVars, loopVars
<1>2. ASSUME NEW t \in Starters, startLoop(t) PROVE TypeOK'
  <2>1. PoolTypes' /\ LoopTypes'
    BY <1>0, <1>2 DEF startLoop, PoolTypes, LoopTypes, LoopPhases, connVars, endVars
  <2> QED
    BY <1>0, <1>2, <2>1, TypesStay DEF startLoop, connVars
<1>3. ASSUME NEW t \in Starters, startLoopReturns(t) PROVE TypeOK'
  <2>1. /\ Len(m_loops) + 1 <= m_numThreads
        /\ m_loops' = Append(m_loops, Len(m_loops) + 1)
        /\ start' \in [Starters -> {"idle", "pool", "startLoop", "done"}]
        /\ UNCHANGED <<m_numThreads, m_started, netVars, connVars, loopVars,
                       m_pendingFunctors, endVars>>
    BY <1>0, <1>3 DEF startLoopReturns, StartInv, PoolTypes
  <2>2. Len(m_loops) + 1 \in Loops
    BY <1>0, <2>1 DEF PoolTypes
  <2>3. /\ m_loops' \in Seq(Loops) /\ Len(m_loops') = Len(m_loops) + 1
        /\ \A i \in 1..Len(m_loops') : m_loops'[i] = i
    BY <1>0, <2>1, <2>2 DEF PoolTypes
  <2>4. PoolTypes' /\ LoopTypes'
    BY <1>0, <2>1, <2>3 DEF PoolTypes, LoopTypes, connVars, loopVars, endVars
  <2> QED
    BY <1>0, <2>1, <2>4, TypesStay DEF connVars, loopVars
<1>4. ASSUME NEW t \in Starters, runListen(t) PROVE TypeOK'
  <2>0. m_listenning' \in BOOLEAN
    BY <1>0, <1>4 DEF runListen, ConnTypes
  <2>1. PoolTypes'
    BY <1>0, <1>4 DEF runListen, PoolTypes, connVars
  <2>3. ConnTypes'
    <3>1. UNCHANGED <<arrived, left, accepted, m_nextConnId, m_connections, conn>>
      BY <1>4 DEF runListen, connVars
    <3> QED
      BY <1>0, <3>1, <2>0 DEF ConnTypes
  <2>2. QueueTypes'
    <3>1. m_pendingFunctors' \in [Loops -> Seq(Functors)]
      BY <1>0, <1>4, FunctorTypes, QueueType DEF runListen, QueueTypes
    <3> QED
      BY <1>0, <1>4, <3>1 DEF runListen, QueueTypes, Functors, connVars, loopVars
  <2> QED
    BY <1>0, <1>4, <2>1, <2>2, <2>3, TypesStay DEF runListen, loopVars
<1>5. CASE clientComes
  <2>1. ConnTypes'
    BY <1>0, <1>5 DEF clientComes, ConnTypes, connVars
  <2> QED
    BY <1>0, <1>5, <2>1, TypesStay DEF clientComes, poolVars, connVars, loopVars
<1>6. ASSUME NEW c \in Conns, clientLeaves(c) PROVE TypeOK'
  <2>1. ConnTypes'
    BY <1>0, <1>6 DEF clientLeaves, ConnTypes, connVars, Conns
  <2> QED
    BY <1>0, <1>6, <2>1, TypesStay DEF clientLeaves, poolVars, connVars, loopVars
<1>7. CASE acceptReady
  <2> DEFINE c == accepted + 1
  <2>1. /\ accepted' = c /\ c \in Conns /\ accepted' \in 0..arrived
        /\ newConnection(c)
        /\ UNCHANGED <<poolVars, netVars, loopVars, endVars>>
    BY <1>0, <1>7 DEF acceptReady, ConnTypes, Conns
  <2>2. /\ m_next' = NextIndex /\ m_nextConnId' = NextId(m_nextConnId)
        /\ m_next' \in Nat /\ (m_next' = 0 \/ m_next' < Len(m_loops))
        /\ m_nextConnId' \in 1..IdRange
    BY <2>1, NextTypes DEF newConnection
  <2>3. conn' \in [Conns -> [phase : Phases, ioLoop : Loops, name : 0..IdRange]]
    BY <1>0, <2>1, NextTypes DEF newConnection, ConnTypes, Phases
  <2>4. \A d \in Conns : conn'[d].phase = "none" <=> d > accepted'
    BY <1>0, <2>1 DEF newConnection, ConnTypes, Conns
  <2>5. /\ DOMAIN m_connections' \subseteq 1..IdRange
        /\ Range(m_connections') \subseteq 1..accepted'
    <3>1. m_nextConnId \in 1..IdRange /\ accepted' \in Nat /\ accepted \in Nat
      BY <1>0, <2>1 DEF ConnTypes
    <3>2. DOMAIN m_connections' = DOMAIN m_connections \cup {m_nextConnId}
      BY <2>1 DEF newConnection
    <3>3. \A n \in DOMAIN m_connections' :
            m_connections'[n] = c \/ (n \in DOMAIN m_connections /\ m_connections'[n] = m_connections[n])
      BY <2>1 DEF newConnection
    <3>4. Range(m_connections') \subseteq Range(m_connections) \cup {c}
      BY <3>2, <3>3 DEF Range
    <3>5. Range(m_connections) \subseteq 1..accepted /\ DOMAIN m_connections \subseteq 1..IdRange
      BY <1>0 DEF ConnTypes
    <3> QED
      BY <2>1, <3>1, <3>2, <3>4, <3>5
  <2>6. Functors \subseteq Functors' /\ Functor("establish", c) \in Functors'
    BY <1>0, <2>1 DEF Functors, Functor, ConnTypes
  <2>7. Seq(Functors) \subseteq Seq(Functors')
    BY <2>6, SeqGrows
  <2>8. m_pendingFunctors' \in [Loops -> Seq(Functors')]
    <3>1. m_pendingFunctors \in [Loops -> Seq(Functors')]
      BY <1>0, <2>7 DEF QueueTypes
    <3>2. CASE NextLoop = Base
      BY <2>1, <3>1, <3>2 DEF newConnection
    <3>3. CASE NextLoop # Base
      <4>1. NextLoop \in Loops
        BY NextTypes
      <4>2. Append(m_pendingFunctors[NextLoop], Functor("establish", c)) \in Seq(Functors')
        BY <3>1, <4>1, <2>6
      <4> QED
        BY <2>1, <3>1, <3>3, <4>1, <4>2 DEF newConnection, queueInLoop
    <3> QED
      BY <3>2, <3>3
  <2>9. QueueTypes'
    BY <1>0, <2>1, <2>7, <2>8 DEF QueueTypes, loopVars
  <2>10. ConnTypes'
    BY <1>0, <2>1, <2>2, <2>3, <2>4, <2>5 DEF ConnTypes, netVars
  <2>11. PoolTypes'
    BY <1>0, <2>1, <2>2 DEF PoolTypes, poolVars
  <2> QED
    BY <1>0, <2>1, <2>9, <2>10, <2>11, TypesStay DEF loopVars, poolVars
<1>8. ASSUME NEW c \in Conns, handleClose(c) PROVE TypeOK'
  <2>1. c \in 1..accepted /\ conn[c].ioLoop \in Loops /\ accepted' = accepted
    BY <1>0, <1>8 DEF handleClose, ConnTypes, Conns
  <2>2. QueueTypes'
    <3>1. m_pendingFunctors' \in [Loops -> Seq(Functors)]
      BY <1>0, <1>8, <2>1, FunctorTypes, QueueType
         DEF handleClose, removeConnection, removeConnectionInLoop, QueueTypes
    <3> QED
      BY <1>0, <1>8, <2>1, <3>1 DEF handleClose, QueueTypes, Functors, loopVars
  <2>3. ConnTypes'
    <3>1. DOMAIN m_connections' \subseteq 1..IdRange /\ Range(m_connections') \subseteq 1..accepted
      BY <1>0, <1>8 DEF handleClose, removeConnection, removeConnectionInLoop,
                        ConnTypes, Restrict, Range
    <3> QED
      BY <1>0, <1>8, <2>1, <3>1 DEF handleClose, ConnTypes, Phases, netVars
  <2> QED
    BY <1>0, <1>8, <2>2, <2>3, TypesStay DEF handleClose, loopVars, poolVars
<1>9. ASSUME NEW l \in Loops, publish(l) \/ loop(l) PROVE TypeOK'
  <2>1. LoopTypes'
    BY <1>0, <1>9 DEF publish, loop, LoopTypes, LoopPhases, poolVars, endVars
  <2> QED
    BY <1>0, <1>9, <2>1, TypesStay DEF publish, loop, connVars
<1>10. ASSUME NEW l \in Loops, takeFunctors(l) PROVE TypeOK'
  <2>1. LoopTypes'
    BY <1>0, <1>10 DEF takeFunctors, LoopTypes, LoopPhases, poolVars, endVars
  <2>2. QueueTypes'
    <3>1. <<>> \in Seq(Functors) /\ m_pendingFunctors[l] \in Seq(Functors)
      BY <1>0 DEF QueueTypes
    <3>2. /\ m_pendingFunctors' \in [Loops -> Seq(Functors)]
          /\ functors' \in [Loops -> Seq(Functors)]
      BY <1>0, <1>10, <3>1 DEF takeFunctors, QueueTypes
    <3>3. ran' = [ran EXCEPT ![l] = 0] /\ functors' = [functors EXCEPT ![l] = m_pendingFunctors[l]]
      BY <1>10 DEF takeFunctors
    <3>4. ran' \in [Loops -> Nat] /\ \A k \in Loops : ran'[k] <= Len(functors'[k])
      BY <1>0, <3>1, <3>3 DEF QueueTypes
    <3> QED
      BY <1>0, <1>10, <3>2, <3>4 DEF takeFunctors, QueueTypes, Functors, connVars
  <2> QED
    BY <1>0, <1>10, <2>1, <2>2, TypesStay DEF takeFunctors, connVars
<1>11. ASSUME NEW l \in Loops, NEW op, NEW c \in 0..MaxConns, runs(l, op, c),
              QueueTypes' \/ UNCHANGED m_pendingFunctors,
              ConnTypes'
       PROVE  TypeOK'
  <2>1. LoopTypes' /\ PoolTypes'
    BY <1>0, <1>11, TypesStay DEF runs, poolVars
  <2>2. CASE UNCHANGED m_pendingFunctors
    <3>1. ran' = [ran EXCEPT ![l] = @ + 1] /\ ran[l] < Len(functors[l])
      BY <1>11 DEF runs
    <3>2. \A k \in Loops : ran[k] \in Nat /\ Len(functors[k]) \in Nat
      BY <1>0 DEF QueueTypes
    <3>3. ran' \in [Loops -> Nat] /\ \A k \in Loops : ran'[k] <= Len(functors[k])
      BY <1>0, <3>1, <3>2 DEF QueueTypes
    <3>4. QueueTypes'
      BY <1>0, <1>11, <2>2, <3>3 DEF runs, QueueTypes, Functors
    <3> QED
      BY <1>11, <2>1, <3>4
  <2> QED
    BY <1>11, <2>1, <2>2
<1>12. CASE listen
  <2>1. ConnTypes'
    BY <1>0, <1>12 DEF listen, runs, ConnTypes
  <2> QED
    BY <1>0, <1>11, <1>12, <2>1 DEF listen
<1>13. ASSUME NEW l \in Loops, NEW c \in Conns, connectEstablished(l, c) \/ connectDestroyed(l, c)
       PROVE  TypeOK'
  <2>2. c \in 1..accepted
    BY <1>13, RunsTypes DEF connectEstablished, connectDestroyed
  <2>3. ConnTypes'
    <3>1. \E p \in {"connected", "removed"} : conn' = [conn EXCEPT ![c].phase = p]
      BY <1>13 DEF connectEstablished, connectDestroyed
    <3>2. /\ conn \in [Conns -> [phase : Phases, ioLoop : Loops, name : 0..IdRange]]
          /\ \A d \in Conns : conn[d].phase = "none" <=> d > accepted
          /\ ~(c > accepted)
      BY <1>0, <2>2 DEF ConnTypes, Conns
    <3>3. /\ conn' \in [Conns -> [phase : Phases, ioLoop : Loops, name : 0..IdRange]]
          /\ \A d \in Conns : conn'[d].phase = "none" <=> d > accepted
      BY <3>1, <3>2 DEF Phases
    <3> QED
      BY <1>0, <1>13, <3>3 DEF connectEstablished, connectDestroyed, runs, ConnTypes
  <2> QED
    BY <1>0, <1>11, <1>13, <2>3 DEF connectEstablished, connectDestroyed, Conns
<1>14. ASSUME NEW c \in Conns, removalRuns(c) PROVE TypeOK'
  <2>1. c \in 1..accepted /\ conn[c].ioLoop \in Loops /\ accepted' = accepted
    <3>1. runs(Base, "remove", c) /\ "remove" # "listen"
      BY <1>14 DEF removalRuns
    <3>2. c \in 1..accepted
      BY <1>0, <3>1, RunsTypes
    <3> QED
      BY <1>0, <3>1, <3>2 DEF runs, ConnTypes
  <2>2. QueueTypes'
    <3>1. m_pendingFunctors' \in [Loops -> Seq(Functors)]
      BY <1>0, <1>14, <2>1, FunctorTypes, QueueType
         DEF removalRuns, removeConnectionInLoop, QueueTypes
    <3>2. ran' \in [Loops -> Nat] /\ \A k \in Loops : ran'[k] <= Len(functors[k])
      <4>1. ran' = [ran EXCEPT ![Base] = @ + 1] /\ ran[Base] < Len(functors[Base])
        BY <1>14 DEF removalRuns, runs
      <4>2. \A k \in Loops : ran[k] \in Nat /\ Len(functors[k]) \in Nat
        BY <1>0 DEF QueueTypes
      <4> QED
        BY <1>0, <4>1, <4>2 DEF QueueTypes
    <3> QED
      BY <1>0, <1>14, <2>1, <3>1, <3>2 DEF removalRuns, runs, QueueTypes, Functors
  <2>3. ConnTypes'
    <3>1. DOMAIN m_connections' \subseteq 1..IdRange /\ Range(m_connections') \subseteq 1..accepted
      BY <1>0, <1>14 DEF removalRuns, removeConnectionInLoop, ConnTypes, Restrict, Range
    <3> QED
      BY <1>0, <1>14, <2>1, <3>1 DEF removalRuns, runs, ConnTypes
  <2> QED
    BY <1>0, <1>14, <2>2, <2>3, TypesStay DEF removalRuns, runs, poolVars
<1>15. ASSUME NEW l \in Loops, functorsDone(l) \/ destroyLoop(l) PROVE TypeOK'
  <2>1. LoopTypes'
    BY <1>0, <1>15 DEF functorsDone, destroyLoop, LoopTypes, LoopPhases, poolVars, endVars
  <2>2. QueueTypes'
    <3>1. <<>> \in Seq(Functors) /\ Len(<<>>) = 0
      OBVIOUS
    <3> QED
      <4>1. CASE functorsDone(l)
        <5>1. /\ functors' \in [Loops -> Seq(Functors)] /\ ran' \in [Loops -> Nat]
              /\ \A k \in Loops : ran'[k] <= Len(functors'[k])
          BY <1>0, <4>1, <3>1 DEF functorsDone, QueueTypes
        <5> QED
          BY <1>0, <4>1, <5>1 DEF functorsDone, QueueTypes, Functors, connVars
      <4>2. CASE destroyLoop(l)
        <5>1. m_pendingFunctors' \in [Loops -> Seq(Functors)]
          BY <1>0, <4>2, <3>1 DEF destroyLoop, QueueTypes
        <5> QED
          BY <1>0, <4>2, <5>1 DEF destroyLoop, QueueTypes, Functors, connVars
      <4> QED
        BY <1>15, <4>1, <4>2
  <2> QED
    BY <1>0, <1>15, <2>1, <2>2, TypesStay DEF functorsDone, destroyLoop, connVars
<1>16. CASE quit \/ loopAgain
  <2>1. LoopTypes'
    BY <1>0, <1>16 DEF quit, loopAgain, LoopTypes, LoopPhases, poolVars, endVars
  <2> QED
    BY <1>0, <1>16, <2>1, TypesStay DEF quit, loopAgain, connVars
<1>17. CASE destruct
  <2>1. LoopTypes'
    BY <1>0, <1>17 DEF destruct, LoopTypes, loopVars, poolVars
  <2>2. DOMAIN m_connections' = {} /\ Range(m_connections') = {}
    BY <1>17 DEF destruct, Range
  <2>3. ConnTypes'
    BY <1>0, <1>17, <2>2 DEF destruct, ConnTypes, netVars
  <2> QED
    BY <1>0, <1>17, <2>1, <2>3, TypesStay DEF destruct, loopVars
<1>18. ASSUME NEW l \in Loops, quitThread(l) \/ joinThread(l) PROVE TypeOK'
  <2>1. LoopTypes'
    BY <1>0, <1>18 DEF quitThread, joinThread, LoopTypes, poolVars, endVars, loopVars
  <2> QED
    BY <1>0, <1>18, <2>1, TypesStay DEF quitThread, joinThread, connVars, loopVars
<1>19. CASE acceptorGoes
  <2>1. LoopTypes' /\ ConnTypes'
    BY <1>0, <1>19 DEF acceptorGoes, LoopTypes, ConnTypes, poolVars, loopVars, connVars
  <2> QED
    BY <1>0, <1>19, <2>1, TypesStay DEF acceptorGoes, connVars, loopVars
<1>20. CASE UNCHANGED vars
  BY <1>0, <1>20, TypesStay DEF vars, connVars, loopVars, poolVars
<1> QED
  BY <1>1, <1>2, <1>3, <1>4, <1>5, <1>6, <1>7, <1>8, <1>9, <1>10, <1>12, <1>13, <1>14,
     <1>15, <1>16, <1>17, <1>18, <1>19, <1>20
     DEF Next, starterStep, loopStep, runFunctor, baseStep, endStep

\* What is queued in a loop, as Rest of it, and after one more callback.
LEMMA QueuedAppend ==
  ASSUME QueueTypes, NEW l \in Loops, NEW f, queueInLoop(l, f), UNCHANGED functors
  PROVE  \A g : \A k \in Loops :
           /\ g \in Queued'[k] <=> g \in Queued[k] \/ (k = l /\ g = f)
           /\ UNCHANGED ran =>
                (g \in Waiting'[k] <=> g \in Waiting[k] \/ (k = l /\ g = f))
<1> DEFINE S == Functors \cup {f}
<1>1. \A k \in Loops : m_pendingFunctors[k] \in Seq(S) /\ functors[k] \in Seq(S) /\ ran[k] \in Nat
  <2>1. Seq(Functors) \subseteq Seq(S)
    BY SeqGrows
  <2> QED
    BY <2>1 DEF QueueTypes
<1>2. \A k \in Loops : m_pendingFunctors'[k] =
        IF k = l THEN Append(m_pendingFunctors[l], f) ELSE m_pendingFunctors[k]
  BY DEF queueInLoop, QueueTypes
<1>3. f \in S
  OBVIOUS
<1> HIDE DEF S
<1>4. /\ Rest(Append(m_pendingFunctors[l], f), functors[l], ran[l])
           = Rest(m_pendingFunctors[l], functors[l], ran[l]) \cup {f}
      /\ Range(Append(m_pendingFunctors[l], f)) = Range(m_pendingFunctors[l]) \cup {f}
  BY <1>1, <1>3, RestAppend
<1>5. \A k \in Loops :
        /\ Queued'[k] = Range(m_pendingFunctors'[k]) \cup Range(functors[k])
        /\ Queued[k] = Range(m_pendingFunctors[k]) \cup Range(functors[k])
        /\ Waiting[k] = Rest(m_pendingFunctors[k], functors[k], ran[k])
        /\ UNCHANGED ran => Waiting'[k] = Rest(m_pendingFunctors'[k], functors[k], ran[k])
  BY DEF Queued, Waiting, Rest
<1>6. ASSUME NEW k \in Loops, NEW g
      PROVE  /\ g \in Queued'[k] <=> g \in Queued[k] \/ (k = l /\ g = f)
             /\ UNCHANGED ran =>
                  (g \in Waiting'[k] <=> g \in Waiting[k] \/ (k = l /\ g = f))
  <2>1. CASE k = l
    BY <1>2, <1>4, <1>5, <2>1
  <2>2. CASE k # l
    <3>1. m_pendingFunctors'[k] = m_pendingFunctors[k]
      BY <1>2, <2>2
    <3> QED
      BY <1>5, <2>2, <3>1
  <2> QED
    BY <2>1, <2>2
<1> QED
  BY <1>6

\* What is told to the base loop, and to a listening server.
Told == m_listenning \/ Functor("listen", 0) \in Queued[Base]

\* Only runListen tells the server to listen.
LEMMA ToldStep ==
  ASSUME TypeOK, [Next]_vars, Told', ~Told
  PROVE  \E t \in Starters : runListen(t)
<1> SUFFICES ASSUME \A t \in Starters : ~runListen(t) PROVE FALSE
  OBVIOUS
<1> USE DEF TypeOK
<1>0. /\ Base \in Loops /\ QueueTypes /\ Functor("listen", 0).op = "listen"
      /\ \A op, c : Functor(op, c).op = op
      /\ conn \in [Conns -> [phase : Phases, ioLoop : Loops, name : 0..IdRange]]
  BY ServerAssumption DEF Base, Loops, ServerAssumption, Functor, ConnTypes
<1>1. ASSUME NEW l \in Loops, NEW op \in {"establish", "remove", "destroy"}, NEW c,
             queueInLoop(l, Functor(op, c)), UNCHANGED functors, UNCHANGED m_listenning
      PROVE  FALSE
  <2>1. Functor("listen", 0) # Functor(op, c)
    BY DEF Functor
  <2>2. \A g : \A k \in Loops : g \in Queued'[k] <=> g \in Queued[k] \/ (k = l /\ g = Functor(op, c))
    BY <1>0, <1>1, QueuedAppend
  <2> QED
    BY <1>0, <1>1, <2>1, <2>2 DEF Told
<1>2. CASE UNCHANGED <<m_listenning, m_pendingFunctors, functors>>
  BY <1>2 DEF Told, Queued
<1>3. CASE acceptReady
  BY <1>1, <1>2, <1>3, NextTypes DEF acceptReady, newConnection, netVars, loopVars
<1>4. ASSUME NEW c \in Conns, handleClose(c) PROVE FALSE
  BY <1>0, <1>1, <1>4 DEF handleClose, removeConnection, removeConnectionInLoop, netVars, loopVars
<1>5. ASSUME NEW c \in Conns, removalRuns(c) PROVE FALSE
  BY <1>0, <1>1, <1>5 DEF removalRuns, removeConnectionInLoop, runs
<1>6. CASE listen
  <2>1. functors[Base][ran[Base] + 1] = Functor("listen", 0) /\ ran[Base] + 1 \in 1..Len(functors[Base])
    BY <1>0, <1>6 DEF listen, runs, QueueTypes
  <2>2. Functor("listen", 0) \in Range(functors[Base])
    BY <1>0, <2>1 DEF QueueTypes, Range
  <2> QED
    BY <1>0, <2>2 DEF Told, Queued
<1>7. ASSUME NEW l \in Loops, takeFunctors(l) \/ functorsDone(l) \/ destroyLoop(l) PROVE FALSE
  <2>1. \A k \in Loops :
          /\ Range(m_pendingFunctors'[k]) \cup Range(functors'[k])
               \subseteq Range(m_pendingFunctors[k]) \cup Range(functors[k])
    <3>1. Range(<<>>) = {}
      BY DEF Range
    <3> QED
      <4>1. CASE takeFunctors(l)
        BY <1>0, <3>1, <4>1 DEF takeFunctors, QueueTypes
      <4>2. CASE functorsDone(l)
        BY <1>0, <3>1, <4>2 DEF functorsDone, QueueTypes
      <4>3. CASE destroyLoop(l)
        BY <1>0, <3>1, <4>3 DEF destroyLoop, QueueTypes
      <4> QED
        BY <1>7, <4>1, <4>2, <4>3
  <2>2. UNCHANGED m_listenning
    BY <1>7 DEF takeFunctors, functorsDone, destroyLoop, netVars
  <2> QED
    BY <1>0, <2>1, <2>2 DEF Told, Queued
<1>8. CASE acceptorGoes
  BY <1>8 DEF acceptorGoes, Told, Queued, loopVars
<1>9. ASSUME NEW t \in Starters, startServer(t) \/ startLoop(t) \/ startLoopReturns(t)
      PROVE FALSE
  BY <1>2, <1>9 DEF startServer, startLoop, startLoopReturns, netVars, loopVars
<1>10. CASE clientComes \/ quit \/ loopAgain \/ destruct
  BY <1>2, <1>10 DEF clientComes, quit, loopAgain, destruct, netVars, loopVars
<1>11. ASSUME NEW c \in Conns, clientLeaves(c) PROVE FALSE
  BY <1>2, <1>11 DEF clientLeaves, loopVars
<1>12. ASSUME NEW l \in Loops, publish(l) \/ loop(l) \/ runFunctor(l) \/ quitThread(l) \/ joinThread(l)
       PROVE FALSE
  BY <1>2, <1>12 DEF publish, loop, runFunctor, quitThread, joinThread, netVars, loopVars,
                     connectEstablished, connectDestroyed, runs
<1>13. CASE UNCHANGED vars
  BY <1>2, <1>13 DEF vars, netVars, loopVars
<1> QED
  BY <1>3, <1>4, <1>5, <1>6, <1>7, <1>8, <1>9, <1>10, <1>11, <1>12, <1>13
     DEF Next, starterStep, loopStep, baseStep, endStep

LEMMA StartInit == Init => StartInv
<1> SUFFICES ASSUME Init PROVE StartInv
  OBVIOUS
<1>1. Queued[Base] = {} /\ Base \in Loops
  BY ServerAssumption DEF ServerAssumption, Init, Queued, Base, Loops, Range
<1> QED
  BY <1>1 DEF Init, StartInv, Starting, Base

\* A step that tells the server nothing and leaves the starters alone, and starts
\* no thread.
LEMMA StartKept ==
  ASSUME StartInv, UNCHANGED poolVars, Told' => Told,
         \/ UNCHANGED server
         \/ \A t \in Starters : ~Starting(t),
         \A l \in Loops : at[l] = "none" => at'[l] = "none"
  PROVE  StartInv'
  BY DEF StartInv, Told, Starting, poolVars

LEMMA StartStep == TypeOK /\ StartInv /\ [Next]_vars => StartInv'
<1> SUFFICES ASSUME TypeOK, StartInv, [Next]_vars PROVE StartInv'
  OBVIOUS
<1>0. /\ (\A t \in Starters : ~runListen(t)) => (Told' => Told)
      /\ \A l \in Loops : l \in Nat
      /\ Base \in Loops /\ Base = 0 /\ Len(m_loops) \in Nat
      /\ at \in [Loops -> LoopPhases]
      /\ start \in [Starters -> {"idle", "pool", "startLoop", "done"}]
  BY ToldStep, ServerAssumption
     DEF Loops, Base, ServerAssumption, TypeOK, PoolTypes, LoopTypes
<1>1. ASSUME NEW t \in Starters, startServer(t) PROVE StartInv'
  <2>1. UNCHANGED <<m_numThreads, m_loops, m_listenning, at, server>> /\ Queued'[Base] = Queued[Base]
    BY <1>1 DEF startServer, netVars, loopVars, endVars, Queued
  <2>2. /\ m_started' /\ server = "alive" /\ start[t] = "idle"
        /\ start' = [start EXCEPT ![t] = IF m_started THEN "done" ELSE "pool"]
    BY <1>1 DEF startServer
  <2>3. CASE m_started
    BY <1>0, <2>1, <2>2, <2>3 DEF StartInv, Starting
  <2>4. CASE ~m_started
    <3>1. /\ \A u \in Starters : start[u] = "idle"
          /\ ~m_listenning /\ Functor("listen", 0) \notin Queued[Base]
          /\ \A l \in Loops : l > Len(m_loops) => at[l] = "none"
      BY <1>0, <2>4 DEF StartInv
    <3> QED
      BY <1>0, <2>1, <2>2, <2>4, <3>1 DEF StartInv, Starting
  <2> QED
    BY <2>3, <2>4
<1>2. ASSUME NEW t \in Starters, startLoop(t) PROVE StartInv'
  <2>1. /\ UNCHANGED <<m_numThreads, m_started, m_loops, m_listenning, server>>
        /\ Queued'[Base] = Queued[Base]
    BY <1>2 DEF startLoop, netVars, endVars, Queued
  <2>2. /\ start[t] = "pool" /\ Len(m_loops) < m_numThreads
        /\ start' = [start EXCEPT ![t] = "startLoop"]
        /\ at' = [at EXCEPT ![Len(m_loops) + 1] = "starting"]
    BY <1>2 DEF startLoop
  <2>3. /\ \A u \in Starters : Starting(u) => u = t
        /\ m_started /\ Starting(t)
        /\ \A l \in Loops : l # Len(m_loops) + 1 => at'[l] = at[l]
    BY <1>0, <2>2 DEF StartInv, Starting
  <2> QED
    BY <1>0, <2>1, <2>2, <2>3 DEF StartInv, Starting
<1>3. ASSUME NEW t \in Starters, startLoopReturns(t) PROVE StartInv'
  <2>1. /\ UNCHANGED <<m_numThreads, m_started, m_listenning, at, server>>
        /\ Queued'[Base] = Queued[Base]
    BY <1>3 DEF startLoopReturns, netVars, loopVars, endVars, Queued
  <2>2. /\ start[t] = "startLoop" /\ start' = [start EXCEPT ![t] = "pool"]
        /\ m_loops' = Append(m_loops, Len(m_loops) + 1)
    BY <1>3 DEF startLoopReturns
  <2>3. Len(m_loops') = Len(m_loops) + 1
    <3>1. m_loops \in Seq(Loops)
      BY DEF TypeOK, PoolTypes
    <3> QED
      BY <2>2, <3>1
  <2>4. \A u \in Starters : Starting(u) => u = t
    BY <2>2 DEF StartInv, Starting
  <2> QED
    BY <1>0, <2>1, <2>2, <2>3, <2>4 DEF StartInv, Starting
<1>4. ASSUME NEW t \in Starters, runListen(t) PROVE StartInv'
  <2>1. /\ UNCHANGED <<m_numThreads, m_started, m_loops, at, server>>
        /\ start[t] = "pool" /\ Len(m_loops) = m_numThreads
        /\ start' = [start EXCEPT ![t] = "done"]
    BY <1>4 DEF runListen, loopVars, endVars
  <2>2. \A u \in Starters : Starting(u) => u = t
    BY <2>1 DEF StartInv, Starting
  <2> QED
    BY <1>0, <2>1, <2>2 DEF StartInv, Starting
<1>5. ASSUME \A t \in Starters : ~startServer(t) /\ ~starterStep(t) PROVE StartInv'
  <2>1. UNCHANGED poolVars
    BY <1>5 DEF Next, loopStep, runFunctor, baseStep, endStep, vars, clientComes,
         acceptReady, clientLeaves, handleClose, publish, loop, takeFunctors,
         connectEstablished, connectDestroyed, runs, functorsDone, destroyLoop, listen,
         removalRuns, loopAgain, quit, destruct, acceptorGoes, quitThread, joinThread
  <2>2. Told' => Told
    BY <1>0, <1>5 DEF starterStep
  <2>3. UNCHANGED server \/ \A t \in Starters : ~Starting(t)
    BY <1>5 DEF Next, loopStep, runFunctor, baseStep, endStep, vars, clientComes,
         acceptReady, clientLeaves, handleClose, publish, loop, takeFunctors,
         connectEstablished, connectDestroyed, runs, functorsDone, destroyLoop, listen,
         removalRuns, loopAgain, quit, destruct, acceptorGoes, quitThread, joinThread,
         endVars, StartInv
  <2>4. \A l \in Loops : at[l] = "none" => at'[l] = "none"
    BY <1>0, <1>5 DEF Next, loopStep, runFunctor, baseStep, endStep, vars, clientComes,
         acceptReady, clientLeaves, handleClose, publish, loop, takeFunctors,
         connectEstablished, connectDestroyed, runs, functorsDone, destroyLoop, listen,
         removalRuns, loopAgain, quit, destruct, acceptorGoes, quitThread, joinThread,
         loopVars
  <2> QED
    BY <2>1, <2>2, <2>3, <2>4, StartKept
<1> QED
  BY <1>1, <1>2, <1>3, <1>4, <1>5 DEF starterStep

\* The state keeps its types: the pool has as many threads as it was told to start,
\* the round robin's cursor is in it, and the map holds accepted connections only.
THEOREM TypeCorrect == SafeSpec => []TypeOK
<1>1. Init => TypeOK /\ StartInv
  BY TypeInit, StartInit
<1>2. TypeOK /\ StartInv /\ [Next]_vars => (TypeOK /\ StartInv)'
  BY TypeStep, StartStep
<1> QED
  BY <1>1, <1>2, PTL DEF SafeSpec

\* start() is "thread-safe and idempotent" (TcpServer.h:93): whoever calls it, and
\* how often, the server listens only when the pool is complete and nobody is still
\* adding to it.
THEOREM FullPool == SafeSpec => []AcceptsFromFullPool
<1>1. Init => TypeOK /\ StartInv
  BY TypeInit, StartInit
<1>2. TypeOK /\ StartInv /\ [Next]_vars => (TypeOK /\ StartInv)'
  BY TypeStep, StartStep
<1>3. StartInv => AcceptsFromFullPool
  BY DEF StartInv, AcceptsFromFullPool
<1> QED
  BY <1>1, <1>2, <1>3, PTL DEF SafeSpec

------------------------------------------------------------------------------
(***************************************************************************)
(* What a step does to what the loops have still to run.                   *)
(***************************************************************************)

\* The queues as Rest sees them.
LEMMA Queues ==
  ASSUME QueueTypes
  PROVE  \A l \in Loops :
           /\ Waiting[l] = Rest(m_pendingFunctors[l], functors[l], ran[l])
           /\ m_pendingFunctors[l] \in Seq(Functors) /\ functors[l] \in Seq(Functors)
           /\ ran[l] \in Nat
           /\ Queued[l] = Range(m_pendingFunctors[l]) \cup Range(functors[l])
           /\ Waiting[l] \subseteq Queued[l] /\ Queued[l] \subseteq Functors
<1> SUFFICES ASSUME NEW l \in Loops
             PROVE  /\ Waiting[l] = Rest(m_pendingFunctors[l], functors[l], ran[l])
                    /\ m_pendingFunctors[l] \in Seq(Functors) /\ functors[l] \in Seq(Functors)
                    /\ ran[l] \in Nat
                    /\ Queued[l] = Range(m_pendingFunctors[l]) \cup Range(functors[l])
                    /\ Waiting[l] \subseteq Queued[l] /\ Queued[l] \subseteq Functors
  OBVIOUS
<1>1. /\ m_pendingFunctors[l] \in Seq(Functors) /\ functors[l] \in Seq(Functors)
      /\ ran[l] \in Nat
  BY DEF QueueTypes
<1>2. Range(m_pendingFunctors[l]) \subseteq Functors /\ Range(functors[l]) \subseteq Functors
  BY <1>1 DEF Range
<1> QED
  BY <1>1, <1>2 DEF Waiting, Queued, Rest, Range

\* The kinds of callbacks differ, and so do those of two connections.
LEMMA FunctorsDiffer ==
  \A op1, op2, c1, c2 :
    /\ Functor(op1, c1).op = op1 /\ Functor(op1, c1).conn = c1
    /\ Functor(op1, c1) = Functor(op2, c2) => op1 = op2 /\ c1 = c2
  BY DEF Functor

\* Nothing mentions a connection that has not been accepted.
LEMMA NoneAhead ==
  ASSUME TypeOK, NEW l \in Loops, NEW op
  PROVE  Functor(op, accepted + 1) \notin Waiting[l]
<1>1. accepted \in Nat /\ Waiting[l] \subseteq Functors
  BY Queues, ServerAssumption DEF TypeOK, ConnTypes, ServerAssumption
<1> QED
  BY <1>1 DEF Functors, Functor

\* One more callback is queued.
LEMMA AppendStep ==
  ASSUME TypeOK, QueueInv, NEW l \in Loops, NEW f, queueInLoop(l, f),
         f \notin Waiting[l], l # Base => f.op \notin {"listen", "remove"},
         UNCHANGED <<at, functors, ran>>
  PROVE  QueueInv'
<1> DEFINE S == Functors \cup {f}
<1> USE DEF TypeOK
<1>1. /\ \A k \in Loops : m_pendingFunctors'[k] =
           IF k = l THEN Append(m_pendingFunctors[l], f) ELSE m_pendingFunctors[k]
      /\ \A g : \A k \in Loops : g \in Queued'[k] <=> g \in Queued[k] \/ (k = l /\ g = f)
  BY QueuedAppend DEF queueInLoop, QueueTypes
<1>2. Once(Append(m_pendingFunctors[l], f), functors[l], ran[l])
  <2>1. Seq(Functors) \subseteq Seq(S) /\ f \in S
    BY SeqGrows
  <2>2. m_pendingFunctors[l] \in Seq(S) /\ functors[l] \in Seq(S) /\ ran[l] \in Nat
    BY <2>1, Queues
  <2> HIDE DEF S
  <2> QED
    BY <2>1, <2>2, RestAppend, Queues DEF QueueInv
<1> QED
  BY <1>1, <1>2 DEF QueueInv

\* The next callback of a batch is run, and queues none.
LEMMA RunStep ==
  ASSUME TypeOK, QueueInv, NEW l \in Loops, NEW op, NEW c, runs(l, op, c),
         UNCHANGED m_pendingFunctors
  PROVE  /\ Functor(op, c) \in Waiting[l]
         /\ \A g : \A k \in Loops :
              g \in Waiting'[k] <=> g \in Waiting[k] /\ ~(k = l /\ g = Functor(op, c))
         /\ QueueInv'
<1> USE DEF TypeOK
<1>1. /\ UNCHANGED <<at, functors>> /\ at[l] = "functors" /\ ran[l] < Len(functors[l])
      /\ \A k \in Loops : ran'[k] = IF k = l THEN ran[l] + 1 ELSE ran[k]
      /\ functors[l][ran[l] + 1] = Functor(op, c)
  BY DEF runs, QueueTypes
<1>2. /\ Functor(op, c) \in Rest(m_pendingFunctors[l], functors[l], ran[l])
      /\ Rest(m_pendingFunctors[l], functors[l], ran[l] + 1)
           = Rest(m_pendingFunctors[l], functors[l], ran[l]) \ {Functor(op, c)}
      /\ Once(m_pendingFunctors[l], functors[l], ran[l] + 1)
  BY <1>1, RestRun, Queues DEF QueueInv
<1>3. \A k \in Loops : /\ Queued'[k] = Queued[k]
                       /\ Waiting'[k] = Rest(m_pendingFunctors[k], functors[k], ran'[k])
  BY <1>1 DEF Queued, Waiting, Rest
<1>4. QueueInv'
  BY <1>1, <1>2, <1>3 DEF QueueInv
<1>5. ASSUME NEW k \in Loops, NEW g
      PROVE  g \in Waiting'[k] <=> g \in Waiting[k] /\ ~(k = l /\ g = Functor(op, c))
  <2>1. CASE k = l
    <3>1. ran'[l] = ran[l] + 1
      BY <1>1
    <3> QED
      BY <1>2, <1>3, <2>1, <3>1, Queues
  <2>2. CASE k # l
    <3>1. ran'[k] = ran[k]
      BY <1>1, <2>2
    <3> QED
      BY <1>3, <2>2, <3>1, Queues
  <2> QED
    BY <2>1, <2>2
<1> QED
  BY <1>2, <1>4, <1>5, Queues

\* The next callback of the base loop's batch is run, and queues one.
LEMMA RunAppendStep ==
  ASSUME TypeOK, QueueInv, NEW l \in Loops, NEW op, NEW c, runs(Base, op, c),
         NEW f \in Functors, queueInLoop(l, f), f \notin Waiting[l],
         l # Base => f.op \notin {"listen", "remove"}
  PROVE  /\ Functor(op, c) \in Waiting[Base]
         /\ \A g : \A k \in Loops :
              g \in Waiting'[k] <=>
                \/ g \in Waiting[k] /\ ~(k = Base /\ g = Functor(op, c))
                \/ k = l /\ g = f
         /\ QueueInv'
<1> USE DEF TypeOK
<1>0. Base \in Loops
  BY ServerAssumption DEF Base, Loops, ServerAssumption
<1>1. /\ UNCHANGED <<at, functors>> /\ at[Base] = "functors" /\ ran[Base] < Len(functors[Base])
      /\ \A k \in Loops : ran'[k] = IF k = Base THEN ran[Base] + 1 ELSE ran[k]
      /\ \A k \in Loops : ran'[k] \in Nat
      /\ functors[Base][ran[Base] + 1] = Functor(op, c)
  BY <1>0 DEF runs, QueueTypes
<1>2. \A k \in Loops : m_pendingFunctors'[k] =
        IF k = l THEN Append(m_pendingFunctors[l], f) ELSE m_pendingFunctors[k]
  BY DEF queueInLoop, QueueTypes
<1>3. /\ Functor(op, c) \in Rest(m_pendingFunctors[Base], functors[Base], ran[Base])
      /\ Rest(m_pendingFunctors[Base], functors[Base], ran[Base] + 1)
           = Rest(m_pendingFunctors[Base], functors[Base], ran[Base]) \ {Functor(op, c)}
      /\ Once(m_pendingFunctors[Base], functors[Base], ran[Base] + 1)
  BY <1>0, <1>1, RestRun, Queues DEF QueueInv
<1>4. \A k \in Loops :
        /\ k # Base => Rest(m_pendingFunctors[k], functors[k], ran'[k]) = Waiting[k]
        /\ k = Base => Rest(m_pendingFunctors[k], functors[k], ran'[k])
                         = Waiting[k] \ {Functor(op, c)}
        /\ Once(m_pendingFunctors[k], functors[k], ran'[k])
  BY <1>0, <1>1, <1>3, Queues DEF QueueInv
<1>5. /\ Rest(Append(m_pendingFunctors[l], f), functors[l], ran'[l])
           = Rest(m_pendingFunctors[l], functors[l], ran'[l]) \cup {f}
      /\ Once(Append(m_pendingFunctors[l], f), functors[l], ran'[l])
  <2>1. f \notin Rest(m_pendingFunctors[l], functors[l], ran'[l])
    BY <1>4
  <2>2. /\ m_pendingFunctors[l] \in Seq(Functors) /\ functors[l] \in Seq(Functors)
        /\ ran'[l] \in Nat /\ Once(m_pendingFunctors[l], functors[l], ran'[l])
    BY <1>1, <1>4, Queues
  <2> QED
    BY <2>1, <2>2, RestAppend
<1>6. \A k \in Loops : Waiting'[k] = Rest(m_pendingFunctors'[k], functors[k], ran'[k])
  BY <1>1 DEF Waiting, Rest
<1>7. ASSUME NEW k \in Loops, NEW g
      PROVE  g \in Waiting'[k] <=>
               \/ g \in Waiting[k] /\ ~(k = Base /\ g = Functor(op, c))
               \/ k = l /\ g = f
  <2>1. g \in Rest(m_pendingFunctors[k], functors[k], ran'[k]) <=>
          g \in Waiting[k] /\ ~(k = Base /\ g = Functor(op, c))
    BY <1>4
  <2>2. CASE k = l
    BY <1>2, <1>5, <1>6, <2>1, <2>2
  <2>3. CASE k # l
    <3>1. m_pendingFunctors'[k] = m_pendingFunctors[k]
      BY <1>2, <2>3
    <3> QED
      BY <1>6, <2>1, <2>3, <3>1
  <2> QED
    BY <2>2, <2>3
<1>8. \A g : \A k \in Loops : g \in Queued'[k] <=> g \in Queued[k] \/ (k = l /\ g = f)
  BY <1>1, QueuedAppend
<1>9. QueueInv'
  <2>1. \A k \in Loops : Once(m_pendingFunctors'[k], functors[k], ran'[k])
    BY <1>2, <1>4, <1>5
  <2>2. \A k \in Loops : at[k] # "functors" => functors[k] = <<>> /\ ran'[k] = 0
    BY <1>1 DEF QueueInv
  <2>3. \A k \in Loops : k # Base => \A g \in Queued'[k] : g.op \notin {"listen", "remove"}
    BY <1>8 DEF QueueInv
  <2> QED
    BY <1>1, <2>1, <2>2, <2>3 DEF QueueInv
<1> QED
  BY <1>0, <1>3, <1>7, <1>9, Queues

\* A queue becomes a batch, or a batch that has run goes.
LEMMA MoveStep ==
  ASSUME TypeOK, QueueInv, NEW l \in Loops, takeFunctors(l) \/ functorsDone(l)
  PROVE  (\A k \in Loops : Waiting'[k] = Waiting[k]) /\ QueueInv'
<1> USE DEF TypeOK
<1>1. /\ at \in [Loops -> LoopPhases]
      /\ \A k \in Loops :
           /\ k # l => UNCHANGED <<m_pendingFunctors[k], functors[k], ran[k], at[k]>>
           /\ Waiting'[k] = Rest(m_pendingFunctors'[k], functors'[k], ran'[k])
           /\ Queued'[k] = Range(m_pendingFunctors'[k]) \cup Range(functors'[k])
  BY DEF takeFunctors, functorsDone, QueueTypes, LoopTypes, Waiting, Queued, Rest
<1>2. ASSUME Waiting'[l] = Waiting[l], Queued'[l] \subseteq Queued[l],
             Once(m_pendingFunctors'[l], functors'[l], ran'[l]),
             at'[l] # "functors" => functors'[l] = <<>> /\ ran'[l] = 0
      PROVE  (\A k \in Loops : Waiting'[k] = Waiting[k]) /\ QueueInv'
  <2>1. \A k \in Loops : k # l => Waiting'[k] = Waiting[k] /\ Queued'[k] = Queued[k]
    BY <1>1, Queues
  <2> QED
    BY <1>1, <1>2, <2>1 DEF QueueInv
<1>3. CASE takeFunctors(l)
  <2>1. /\ m_pendingFunctors'[l] = <<>> /\ functors'[l] = m_pendingFunctors[l] /\ ran'[l] = 0
        /\ functors[l] = <<>> /\ ran[l] = 0 /\ at'[l] = "functors"
    BY <1>1, <1>3 DEF takeFunctors, QueueTypes, QueueInv
  <2>2. /\ Rest(<<>>, m_pendingFunctors[l], 0) = Rest(m_pendingFunctors[l], <<>>, 0)
        /\ Once(<<>>, m_pendingFunctors[l], 0) /\ Range(<<>>) = {}
    BY <2>1, RestMove, Queues DEF QueueInv
  <2>3. /\ Waiting'[l] = Waiting[l] /\ Queued'[l] \subseteq Queued[l]
        /\ Once(m_pendingFunctors'[l], functors'[l], ran'[l])
    BY <1>1, <2>1, <2>2, Queues
  <2>4. at'[l] # "functors" => functors'[l] = <<>> /\ ran'[l] = 0
    BY <2>1
  <2> QED
    BY <1>2, <2>3, <2>4
<1>4. CASE functorsDone(l)
  <2>1. /\ m_pendingFunctors'[l] = m_pendingFunctors[l] /\ functors'[l] = <<>> /\ ran'[l] = 0
        /\ ran[l] = Len(functors[l])
    BY <1>4 DEF functorsDone, QueueTypes
  <2>2. /\ Rest(m_pendingFunctors[l], <<>>, 0)
             = Rest(m_pendingFunctors[l], functors[l], Len(functors[l]))
        /\ Once(m_pendingFunctors[l], <<>>, 0) /\ Range(<<>>) = {}
    BY <2>1, RestMove, Queues DEF QueueInv
  <2>3. /\ Waiting'[l] = Waiting[l] /\ Queued'[l] \subseteq Queued[l]
        /\ Once(m_pendingFunctors'[l], functors'[l], ran'[l])
    BY <1>1, <2>1, <2>2, Queues
  <2> QED
    BY <1>2, <2>1, <2>3
<1> QED
  BY <1>3, <1>4

\* A loop goes with its queue.
LEMMA DestroyStep ==
  ASSUME TypeOK, QueueInv, NEW l \in Loops, destroyLoop(l)
  PROVE  /\ \A g : \A k \in Loops : g \in Waiting'[k] <=> g \in Waiting[k] /\ k # l
         /\ QueueInv'
<1> USE DEF TypeOK
<1>1. /\ \A k \in Loops :
           /\ k # l => UNCHANGED <<m_pendingFunctors[k], at[k]>>
           /\ UNCHANGED <<functors[k], ran[k]>>
           /\ Waiting'[k] = Rest(m_pendingFunctors'[k], functors[k], ran[k])
           /\ Queued'[k] = Range(m_pendingFunctors'[k]) \cup Range(functors[k])
  BY DEF destroyLoop, QueueTypes, LoopTypes, Waiting, Queued, Rest
<1>2. /\ m_pendingFunctors'[l] = <<>> /\ functors[l] = <<>> /\ ran[l] = 0
      /\ at'[l] = "dead"
  BY DEF destroyLoop, QueueTypes, LoopTypes, QueueInv
<1>3. Rest(<<>>, <<>>, 0) = {} /\ Once(<<>>, <<>>, 0) /\ Range(<<>>) = {}
  BY RestMove, Queues
<1>4. \A k \in Loops : k # l => Waiting'[k] = Waiting[k] /\ Queued'[k] = Queued[k]
  BY <1>1, Queues
<1>5. Waiting'[l] = {} /\ Queued'[l] = {}
  BY <1>1, <1>2, <1>3
<1>6. QueueInv'
  BY <1>1, <1>2, <1>3, <1>4, <1>5 DEF QueueInv
<1> QED
  BY <1>4, <1>5, <1>6

\* The queues are left alone.
LEMMA QueuesStay ==
  ASSUME TypeOK, QueueInv, UNCHANGED <<m_pendingFunctors, functors, ran>>,
         \A l \in Loops : at[l] = "functors" => at'[l] = "functors"
  PROVE  (\A k \in Loops : Waiting'[k] = Waiting[k]) /\ QueueInv'
<1>1. Waiting' = Waiting /\ Queued' = Queued
  BY DEF Waiting, Queued
<1> QED
  BY <1>1 DEF QueueInv

------------------------------------------------------------------------------
(***************************************************************************)
(* Connections and the map, step by step.                                  *)
(***************************************************************************)

Promises == ConnInv /\ NameInv /\ MapInv

\* A step that touches no connection, nor what is to be run.
LEMMA QuietStep ==
  ASSUME ServerInv, \A l \in Loops : Waiting'[l] = Waiting[l],
         UNCHANGED <<accepted, m_nextConnId, m_connections, conn, server, m_listenning>>,
         \A l \in Loops : at[l] = "dead" => at'[l] = "dead",
         server # "alive" => at'[Base] \in {"exited", "dead"}
  PROVE  Promises'
<1>0. Base \in Loops
  BY ServerAssumption DEF Base, Loops, ServerAssumption
<1>1. ConnInv'
  BY <1>0 DEF ServerInv, ConnInv, Mentions
<1>2. NameInv'
  BY DEF ServerInv, NameInv
<1>3. MapInv'
  BY <1>0 DEF ServerInv, MapInv
<1> QED
  BY <1>1, <1>2, <1>3 DEF Promises

\* The connections that may be mentioned have a loop and are in Conns.
LEMMA Accepted ==
  ASSUME TypeOK
  PROVE  /\ Base \in Loops /\ accepted \in Nat /\ accepted <= MaxConns
         /\ \A c \in 1..accepted :
              /\ c \in Conns /\ c \in Nat /\ conn[c].ioLoop \in Loops
              /\ conn[c].phase \in Phases \ {"none"}
         /\ conn \in [Conns -> [phase : Phases, ioLoop : Loops, name : 0..IdRange]]
<1> USE ServerAssumption DEF ServerAssumption, TypeOK
<1>1. Base \in Loops
  BY DEF Base, Loops
<1>2. accepted \in Nat /\ accepted <= MaxConns /\ accepted \in 0..MaxConns
  BY DEF ConnTypes
<1>3. conn \in [Conns -> [phase : Phases, ioLoop : Loops, name : 0..IdRange]]
  BY DEF ConnTypes
<1>4. ASSUME NEW c \in 1..accepted
      PROVE  /\ c \in Conns /\ c \in Nat /\ conn[c].ioLoop \in Loops
             /\ conn[c].phase \in Phases \ {"none"}
  <2>1. c \in Conns /\ c \in Nat /\ ~(c > accepted)
    BY <1>2 DEF Conns
  <2> QED
    BY <2>1, <1>3 DEF ConnTypes
<1> QED
  BY <1>1, <1>2, <1>3, <1>4

\* A connection that a step does not touch.
LEMMA MentionsStay ==
  ASSUME NEW c, NEW l \in Loops, Mentions(c, l), Base \in Loops, conn'[c] = conn[c],
         \A k \in Loops, op \in {"establish", "remove", "destroy"} :
           Functor(op, c) \in Waiting'[k] <=> Functor(op, c) \in Waiting[k],
         at[l] = "dead" => at'[l] = "dead"
  PROVE  Mentions(c, l)'
  BY DEF Mentions

\* A connection changes its phase, and nothing else does.
LEMMA PhaseChange ==
  ASSUME TypeOK, NEW c \in 1..accepted, NEW p, conn' = [conn EXCEPT ![c].phase = p]
  PROVE  \A d \in 1..accepted :
           /\ conn'[d].phase = IF d = c THEN p ELSE conn[d].phase
           /\ conn'[d].ioLoop = conn[d].ioLoop /\ conn'[d].name = conn[d].name
  BY Accepted

\* Connections are accepted.
LEMMA AcceptStep ==
  ASSUME ServerInv, MaxConns <= IdRange, acceptReady
  PROVE  QueueInv' /\ Promises'
<1> DEFINE c == accepted + 1
<1> USE DEF ServerInv
<1>0. /\ Base \in Loops /\ accepted \in Nat /\ accepted < MaxConns /\ c \in Conns
      /\ NextLoop \in Loops /\ MaxConns \in Nat /\ IdRange \in Nat \ {0}
      /\ accepted' = c /\ newConnection(c)
      /\ UNCHANGED <<at, functors, ran, server, m_listenning>>
      /\ at[Base] = "poll" /\ server = "alive" /\ m_nextConnId = c
      /\ \A d \in 1..c : d # c => d \in 1..accepted
  BY Accepted, NextTypes, ServerAssumption, SMTT(30)
     DEF acceptReady, ServerAssumption, TypeOK, ConnTypes, MapInv, NameInv, loopVars, netVars,
         endVars, Conns
<1>1. /\ conn'[c] = [phase |-> IF NextLoop = Base THEN "connected" ELSE "connecting",
                     ioLoop |-> NextLoop, name |-> c]
      /\ \A d \in 1..accepted : conn'[d] = conn[d]
  BY <1>0, Accepted DEF newConnection
<1>2. /\ DOMAIN m_connections' = DOMAIN m_connections \cup {c}
      /\ \A n \in DOMAIN m_connections' :
           m_connections'[n] = IF n = c THEN c ELSE m_connections[n]
  BY <1>0 DEF newConnection
<1>3. \A l \in Loops, op \in {"listen", "establish", "remove", "destroy"} :
        Functor(op, c) \notin Waiting[l]
  BY NoneAhead
<1>4. /\ QueueInv'
      /\ \A g : \A l \in Loops :
           g \in Waiting'[l] <=>
             \/ g \in Waiting[l]
             \/ l = NextLoop /\ NextLoop # Base /\ g = Functor("establish", c)
  <2>1. CASE NextLoop = Base
    <3>1. UNCHANGED m_pendingFunctors
      BY <1>0, <2>1 DEF newConnection
    <3> QED
      BY <1>0, <2>1, <3>1, QueuesStay
  <2>2. CASE NextLoop # Base
    <3>1. queueInLoop(NextLoop, Functor("establish", c))
      BY <1>0, <2>2 DEF newConnection
    <3>2. Functor("establish", c).op = "establish" /\ Functor("establish", c) \notin Waiting[NextLoop]
      BY <1>0, <1>3, FunctorsDiffer
    <3>3. QueueInv'
      BY <1>0, <3>1, <3>2, AppendStep
    <3>4. \A g : \A k \in Loops :
            g \in Waiting'[k] <=>
              g \in Waiting[k] \/ (k = NextLoop /\ g = Functor("establish", c))
      BY <1>0, <3>1, QueuedAppend DEF TypeOK
    <3> QED
      BY <2>2, <3>3, <3>4
  <2> QED
    BY <2>1, <2>2
<1> HIDE DEF c
<1>8. ASSUME NEW l \in Loops, NEW op, NEW d, op # "establish" \/ d # c
      PROVE  Functor(op, d) \in Waiting'[l] <=> Functor(op, d) \in Waiting[l]
  <2>1. Functor(op, d) # Functor("establish", c)
    BY <1>8, FunctorsDiffer
  <2> QED
    BY <1>4, <2>1
<1>9. ASSUME NEW l \in Loops, Functor("establish", c) \in Waiting'[l]
      PROVE  l = NextLoop /\ l # Base
  <2>1. Functor("establish", c) \notin Waiting[l]
    BY <1>3
  <2> QED
    BY <1>4, <1>9, <2>1
<1>5. ConnInv'
  <2> SUFFICES ASSUME NEW d \in 1..accepted', NEW l \in Loops PROVE Mentions(d, l)'
    BY DEF ConnInv
  <2>1. CASE d = c
    <3>1. conn'[d].phase # "disconnected"
      BY <1>1, <2>1
    <3>2. \A k \in Loops, op \in {"destroy", "remove"} : Functor(op, d) \notin Waiting'[k]
      BY <1>3, <1>8, <2>1
    <3>3. Functor("establish", d) \in Waiting'[l] =>
            l = conn'[d].ioLoop /\ conn'[d].phase = "connecting"
      BY <1>1, <1>9, <2>1
    <3> QED
      BY <1>0, <3>1, <3>2, <3>3 DEF Mentions
  <2>2. CASE d # c
    <3>1. d \in 1..accepted /\ conn'[d] = conn[d]
      BY <1>0, <1>1, <2>2
    <3>2. \A k \in Loops, op \in {"establish", "remove", "destroy"} :
            Functor(op, d) \in Waiting'[k] <=> Functor(op, d) \in Waiting[k]
      BY <1>8, <2>2
    <3> QED
      BY <1>0, <3>1, <3>2, MentionsStay DEF ConnInv
  <2> QED
    BY <2>1, <2>2
<1>6. NameInv'
  <2>1. accepted' < MaxConns => m_nextConnId' = accepted' + 1
    <3>1. c < MaxConns => c \in 1..(IdRange - 1)
      BY <1>0 DEF c
    <3>2. \A i \in 1..(IdRange - 1) : i % IdRange = i
      BY <1>0
    <3> QED
      BY <1>0, <3>1, <3>2 DEF newConnection, NextId
  <2>2. \A d \in 1..accepted' : conn'[d].name = d
    BY <1>0, <1>1 DEF NameInv
  <2>3. \A n \in DOMAIN m_connections' : m_connections'[n] = n
    BY <1>2 DEF NameInv
  <2> QED
    BY <2>1, <2>2, <2>3 DEF NameInv
<1>7. MapInv'
  <2>1. ASSUME NEW d \in 1..accepted',
               \/ conn'[d].phase \in {"connecting", "connected"}
               \/ Functor("remove", d) \in Waiting'[Base]
        PROVE  server' = "alive" /\ d \in DOMAIN m_connections'
    <3>1. CASE d = c
      BY <1>0, <1>2, <3>1
    <3>2. CASE d # c
      BY <1>0, <1>1, <1>2, <1>4, <2>1, <3>2, FunctorsDiffer DEF MapInv
    <3> QED
      BY <3>1, <3>2
  <2>2. Functor("listen", 0) \in Waiting'[Base] => server' = "alive" /\ ~m_listenning'
    BY <1>0, <1>4, FunctorsDiffer DEF MapInv
  <2> QED
    BY <1>0, <2>1, <2>2 DEF MapInv
<1> QED
  BY <1>4, <1>5, <1>6, <1>7 DEF Promises

\* A callback about connection c runs, or one is queued about it: the others are not
\* touched.
LEMMA OthersStay ==
  ASSUME ServerInv, NEW c \in 1..accepted, accepted' = accepted, UNCHANGED at,
         \A d \in 1..accepted : d # c => conn'[d] = conn[d],
         \A op, d : \A k \in Loops : d # c =>
           (Functor(op, d) \in Waiting'[k] <=> Functor(op, d) \in Waiting[k]),
         \A l \in Loops : Mentions(c, l)'
  PROVE  ConnInv'
<1> USE DEF ServerInv
<1>1. ASSUME NEW d \in 1..accepted, NEW l \in Loops, d # c PROVE Mentions(d, l)'
  <2>1. /\ Mentions(d, l) /\ Base \in Loops /\ conn'[d] = conn[d]
        /\ \A k \in Loops, op \in {"establish", "remove", "destroy"} :
             Functor(op, d) \in Waiting'[k] <=> Functor(op, d) \in Waiting[k]
    BY <1>1, Accepted DEF ConnInv
  <2> QED
    BY <2>1, MentionsStay
<1> QED
  BY <1>1 DEF ConnInv

\* A connection is closed by its peer.
LEMMA CloseStep ==
  ASSUME ServerInv, NEW c \in Conns, handleClose(c)
  PROVE  QueueInv' /\ Promises'
<1> USE DEF ServerInv
<1> DEFINE io == conn[c].ioLoop
           f == IF io = Base THEN Functor("destroy", c) ELSE Functor("remove", c)
           l == IF io = Base THEN io ELSE Base
<1>0. /\ c \in 1..accepted /\ Base \in Loops /\ io \in Loops /\ l = Base
      /\ conn[c].phase = "connected" /\ conn' = [conn EXCEPT ![c].phase = "disconnected"]
      /\ UNCHANGED <<at, functors, ran, server, m_listenning, accepted, m_nextConnId>>
      /\ at[io] = "poll"
  BY Accepted DEF handleClose, loopVars, netVars, endVars, TypeOK, ConnTypes, Conns
<1>1. /\ \A d \in 1..accepted :
           /\ conn'[d].phase = IF d = c THEN "disconnected" ELSE conn[d].phase
           /\ conn'[d].ioLoop = conn[d].ioLoop /\ conn'[d].name = conn[d].name
      /\ \A d \in 1..accepted : d # c => conn'[d] = conn[d]
  BY <1>0, PhaseChange, Accepted
<1>2. server = "alive" /\ c \in DOMAIN m_connections /\ conn[c].name = c
  BY <1>0 DEF MapInv, NameInv
<1>3. /\ queueInLoop(l, f)
      /\ IF io = Base THEN m_connections' = Restrict(m_connections, DOMAIN m_connections \ {c})
         ELSE UNCHANGED m_connections
  BY <1>0, <1>2 DEF handleClose, removeConnection, removeConnectionInLoop
<1>4. \A k \in Loops, op \in {"establish", "destroy"} : Functor(op, c) \notin Waiting[k]
  BY <1>0 DEF ConnInv, Mentions
<1>5. Functor("remove", c) \notin Waiting[Base]
  BY <1>0 DEF ConnInv, Mentions
<1>6. /\ f.op = (IF io = Base THEN "destroy" ELSE "remove") /\ f.conn = c
      /\ f \notin Waiting[Base] /\ f = Functor(f.op, c)
  BY <1>0, <1>4, <1>5, FunctorsDiffer
<1> HIDE DEF f
<1>7. QueueInv'
  BY <1>0, <1>3, <1>6, AppendStep
<1>8. \A g : \A k \in Loops : g \in Waiting'[k] <=> g \in Waiting[k] \/ (k = Base /\ g = f)
  BY <1>0, <1>3, QueuedAppend DEF TypeOK
<1>9. ConnInv'
  <2>1. ASSUME NEW k \in Loops PROVE Mentions(c, k)'
    <3>1. Functor("establish", c) \notin Waiting'[k]
      BY <1>4, <1>6, <1>8, FunctorsDiffer
    <3>2. CASE io = Base
      <4>1. /\ f = Functor("destroy", c)
            /\ Functor("destroy", c) \in Waiting'[k] <=> k = Base
        BY <1>4, <1>6, <1>8, <3>2
      <4>2. Functor("remove", c) \notin Waiting'[Base]
        BY <1>0, <1>5, <1>8, <4>1, FunctorsDiffer
      <4> QED
        BY <1>0, <1>1, <3>1, <3>2, <4>1, <4>2 DEF Mentions
    <3>3. CASE io # Base
      <4>1. f = Functor("remove", c) /\ Functor("remove", c) \in Waiting'[Base]
        BY <1>0, <1>6, <1>8, <3>3
      <4>2. Functor("destroy", c) \notin Waiting'[k]
        BY <1>4, <1>8, <4>1, FunctorsDiffer
      <4> QED
        BY <1>0, <1>1, <3>1, <3>3, <4>1, <4>2 DEF Mentions
    <3> QED
      BY <3>2, <3>3
  <2>2. \A op, d : \A k \in Loops : d # c =>
          (Functor(op, d) \in Waiting'[k] <=> Functor(op, d) \in Waiting[k])
    BY <1>6, <1>8, FunctorsDiffer
  <2> QED
    BY <1>0, <1>1, <2>1, <2>2, OthersStay
<1>10. /\ DOMAIN m_connections' \subseteq DOMAIN m_connections
       /\ \A n \in DOMAIN m_connections' : m_connections'[n] = m_connections[n]
       /\ \A n \in DOMAIN m_connections : n # c \/ io # Base => n \in DOMAIN m_connections'
  BY <1>3 DEF Restrict
<1>11. NameInv'
  BY <1>0, <1>1, <1>10 DEF NameInv
<1>12. MapInv'
  <2>1. ASSUME NEW d \in 1..accepted,
               \/ conn'[d].phase \in {"connecting", "connected"}
               \/ Functor("remove", d) \in Waiting'[Base]
        PROVE  server' = "alive" /\ d \in DOMAIN m_connections'
    <3>1. CASE d # c
      <4>1. conn'[d] = conn[d]
        BY <1>1, <3>1
      <4>2. Functor("remove", d) \in Waiting'[Base] => Functor("remove", d) \in Waiting[Base]
        BY <1>0, <1>6, <1>8, <3>1, FunctorsDiffer
      <4> QED
        BY <1>0, <1>10, <2>1, <3>1, <4>1, <4>2 DEF MapInv
    <3>2. CASE d = c
      <4>1. Functor("remove", c) \in Waiting'[Base]
        BY <1>0, <1>1, <2>1, <3>2
      <4>2. io # Base
        BY <1>0, <1>5, <1>6, <1>8, <4>1, FunctorsDiffer
      <4> QED
        BY <1>0, <1>2, <1>10, <3>2, <4>2
    <3> QED
      BY <3>1, <3>2
  <2>2. Functor("listen", 0) \in Waiting'[Base] => server' = "alive" /\ ~m_listenning'
    BY <1>0, <1>6, <1>8, FunctorsDiffer DEF MapInv
  <2> QED
    BY <1>0, <1>2, <2>1, <2>2 DEF MapInv
<1> QED
  BY <1>7, <1>9, <1>11, <1>12 DEF Promises

\* The base loop removes a connection, and sends it to its own loop.
LEMMA RemovalStep ==
  ASSUME ServerInv, NEW c \in Conns, removalRuns(c)
  PROVE  QueueInv' /\ Promises'
<1> USE DEF ServerInv
<1> DEFINE io == conn[c].ioLoop
           f == Functor("destroy", c)
<1>0. /\ runs(Base, "remove", c) /\ queueInLoop(io, f) /\ Base \in Loops
      /\ UNCHANGED <<at, functors, server, m_listenning, accepted, m_nextConnId, conn>>
      /\ m_connections' = Restrict(m_connections, DOMAIN m_connections \ {conn[c].name})
  BY Accepted DEF removalRuns, removeConnectionInLoop, runs, endVars
<1>1. c \in 1..accepted /\ io \in Loops /\ f \in Functors /\ f.op = "destroy"
  BY <1>0, RunsTypes, Accepted, FunctorTypes, FunctorsDiffer
<1>2. Functor("remove", c) \in Waiting[Base]
  <2>1. /\ functors[Base] \in Seq(Functors) /\ ran[Base] \in Nat
        /\ ran[Base] < Len(functors[Base])
        /\ functors[Base][ran[Base] + 1] = Functor("remove", c)
    BY <1>0 DEF runs, TypeOK, QueueTypes
  <2> QED
    BY <1>0, <2>1 DEF Waiting
<1>3. /\ conn[c].phase = "disconnected" /\ conn[c].name = c
      /\ \A k \in Loops : f \notin Waiting[k] /\ Functor("establish", c) \notin Waiting[k]
      /\ server = "alive"
  BY <1>0, <1>1, <1>2 DEF ConnInv, Mentions, NameInv, MapInv
<1>4. /\ \A g : \A k \in Loops :
           g \in Waiting'[k] <=>
             \/ g \in Waiting[k] /\ ~(k = Base /\ g = Functor("remove", c))
             \/ k = io /\ g = f
      /\ QueueInv'
  BY <1>0, <1>1, <1>3, RunAppendStep
<1>5. ConnInv'
  <2>1. ASSUME NEW k \in Loops PROVE Mentions(c, k)'
    <3>1. /\ Functor("establish", c) \notin Waiting'[k]
          /\ Functor("destroy", c) \in Waiting'[k] <=> k = io
          /\ Functor("remove", c) \notin Waiting'[Base]
      BY <1>0, <1>3, <1>4, FunctorsDiffer
    <3> QED
      BY <1>0, <1>3, <3>1 DEF Mentions
  <2>2. \A op, d : \A k \in Loops : d # c =>
          (Functor(op, d) \in Waiting'[k] <=> Functor(op, d) \in Waiting[k])
    BY <1>4, FunctorsDiffer
  <2> QED
    BY <1>0, <1>1, <2>1, <2>2, OthersStay
<1>6. /\ DOMAIN m_connections' = DOMAIN m_connections \ {c}
      /\ \A n \in DOMAIN m_connections' : m_connections'[n] = m_connections[n]
  BY <1>0, <1>3 DEF Restrict
<1>7. NameInv'
  BY <1>0, <1>6 DEF NameInv
<1>8. MapInv'
  <2>1. ASSUME NEW d \in 1..accepted,
               \/ conn[d].phase \in {"connecting", "connected"}
               \/ Functor("remove", d) \in Waiting'[Base]
        PROVE  server = "alive" /\ d \in DOMAIN m_connections'
    <3>1. d # c
      BY <1>0, <1>3, <1>4, <2>1, FunctorsDiffer
    <3>2. Functor("remove", d) \in Waiting'[Base] => Functor("remove", d) \in Waiting[Base]
      BY <1>0, <1>4, <3>1, FunctorsDiffer
    <3> QED
      BY <1>6, <2>1, <3>1, <3>2 DEF MapInv
  <2>2. Functor("listen", 0) \in Waiting'[Base] => server = "alive" /\ ~m_listenning
    BY <1>0, <1>4, FunctorsDiffer DEF MapInv
  <2> QED
    BY <1>0, <1>3, <2>1, <2>2 DEF MapInv
<1> QED
  BY <1>4, <1>5, <1>7, <1>8 DEF Promises

\* connectEstablished and connectDestroyed run in the connection's loop.
LEMMA FunctorStep ==
  ASSUME ServerInv, NEW l \in Loops, NEW c \in Conns,
         connectEstablished(l, c) \/ connectDestroyed(l, c)
  PROVE  QueueInv' /\ Promises'
<1> USE DEF ServerInv
<1>1. PICK op \in {"establish", "destroy"} :
        /\ runs(l, op, c) /\ op # "listen"
        /\ conn' = [conn EXCEPT ![c].phase =
                      IF op = "establish" THEN "connected" ELSE "removed"]
  BY DEF connectEstablished, connectDestroyed
<1>2. /\ c \in 1..accepted /\ Base \in Loops
      /\ UNCHANGED <<at, server, m_listenning, accepted, m_nextConnId, m_connections,
                     m_pendingFunctors>>
  BY <1>1, RunsTypes, Accepted DEF connectEstablished, connectDestroyed, runs, endVars
<1>3. /\ \A d \in 1..accepted :
           /\ conn'[d].ioLoop = conn[d].ioLoop /\ conn'[d].name = conn[d].name
           /\ d # c => conn'[d] = conn[d]
      /\ conn'[c].phase = IF op = "establish" THEN "connected" ELSE "removed"
  BY <1>1, <1>2, PhaseChange, Accepted
<1>4. /\ Functor(op, c) \in Waiting[l]
      /\ \A g : \A k \in Loops :
           g \in Waiting'[k] <=> g \in Waiting[k] /\ ~(k = l /\ g = Functor(op, c))
      /\ QueueInv'
  BY <1>1, <1>2, RunStep
<1>5. /\ l = conn[c].ioLoop
      /\ op = "establish" => conn[c].phase = "connecting"
      /\ op = "destroy" => conn[c].phase = "disconnected"
      /\ Functor("remove", c) \notin Waiting[Base]
  BY <1>2, <1>4 DEF ConnInv, Mentions
<1>6. ConnInv'
  <2>1. ASSUME NEW k \in Loops PROVE Mentions(c, k)'
    <3>1. Mentions(c, k)
      BY <1>2 DEF ConnInv
    <3>2. /\ Functor("establish", c) \notin Waiting'[k]
          /\ Functor("destroy", c) \notin Waiting'[k]
          /\ Functor("remove", c) \notin Waiting'[Base]
      BY <1>2, <1>4, <1>5, <3>1 DEF Mentions
    <3> QED
      BY <1>3, <3>2 DEF Mentions
  <2>2. \A o, d : \A k \in Loops : d # c =>
          (Functor(o, d) \in Waiting'[k] <=> Functor(o, d) \in Waiting[k])
    BY <1>4, FunctorsDiffer
  <2> QED
    BY <1>2, <1>3, <2>1, <2>2, OthersStay
<1>7. NameInv'
  BY <1>2, <1>3 DEF NameInv
<1>8. MapInv'
  <2>1. ASSUME NEW d \in 1..accepted,
               \/ conn'[d].phase \in {"connecting", "connected"}
               \/ Functor("remove", d) \in Waiting'[Base]
        PROVE  server = "alive" /\ d \in DOMAIN m_connections
    <3>1. Functor("remove", d) \in Waiting'[Base] => Functor("remove", d) \in Waiting[Base]
      BY <1>2, <1>4
    <3>2. CASE d = c
      BY <1>2, <1>3, <1>5, <2>1, <3>1, <3>2 DEF MapInv
    <3>3. CASE d # c
      BY <1>3, <2>1, <3>1, <3>3 DEF MapInv
    <3> QED
      BY <3>2, <3>3
  <2>2. Functor("listen", 0) \in Waiting'[Base] => Functor("listen", 0) \in Waiting[Base]
    BY <1>2, <1>4
  <2> QED
    BY <1>2, <2>1, <2>2 DEF MapInv
<1> QED
  BY <1>4, <1>6, <1>7, <1>8 DEF Promises

\* The server is told to listen, or listens.
LEMMA ListenStep ==
  ASSUME ServerInv, listen \/ \E t \in Starters : runListen(t)
  PROVE  QueueInv' /\ Promises'
<1> USE DEF ServerInv
<1> DEFINE f == Functor("listen", 0)
<1>0. /\ Base \in Loops /\ f.op = "listen"
      /\ UNCHANGED <<at, server, accepted, m_nextConnId, m_connections, conn>>
  BY Accepted, FunctorsDiffer DEF listen, runs, runListen, connVars, loopVars, endVars
<1>1. /\ QueueInv'
      /\ \A op, d : \A k \in Loops : op # "listen" =>
           (Functor(op, d) \in Waiting'[k] <=> Functor(op, d) \in Waiting[k])
      /\ f \in Waiting'[Base] => server = "alive" /\ ~m_listenning'
  <2>1. CASE listen
    <3>1. runs(Base, "listen", 0) /\ UNCHANGED m_pendingFunctors
      BY <2>1 DEF listen
    <3>2. /\ QueueInv'
          /\ \A g : \A k \in Loops :
               g \in Waiting'[k] <=> g \in Waiting[k] /\ ~(k = Base /\ g = f)
      BY <1>0, <3>1, RunStep
    <3> QED
      BY <1>0, <3>2, FunctorsDiffer
  <2>2. ASSUME NEW t \in Starters, runListen(t)
        PROVE  /\ QueueInv'
               /\ \A op, d : \A k \in Loops : op # "listen" =>
                    (Functor(op, d) \in Waiting'[k] <=> Functor(op, d) \in Waiting[k])
               /\ f \in Waiting'[Base] => server = "alive" /\ ~m_listenning'
    <3>1. /\ server = "alive" /\ ~m_listenning /\ f \notin Queued[Base]
          /\ f \notin Waiting[Base] /\ UNCHANGED <<functors, ran>>
      BY <1>0, <2>2, Queues DEF runListen, StartInv, Starting, TypeOK, loopVars
    <3>2. CASE t = baseThread
      BY <1>0, <2>2, <3>1, <3>2, QueuesStay DEF runListen
    <3>3. CASE t # baseThread
      <4>1. queueInLoop(Base, f) /\ UNCHANGED m_listenning
        BY <2>2, <3>3 DEF runListen
      <4>2. QueueInv'
        BY <1>0, <3>1, <4>1, AppendStep
      <4>3. \A g : \A k \in Loops : g \in Waiting'[k] <=> g \in Waiting[k] \/ (k = Base /\ g = f)
        BY <1>0, <3>1, <4>1, QueuedAppend DEF TypeOK
      <4> QED
        BY <3>1, <4>1, <4>2, <4>3, FunctorsDiffer
    <3> QED
      BY <3>2, <3>3
  <2> QED
    BY <2>1, <2>2
<1>2. ConnInv'
  BY <1>0, <1>1, MentionsStay, Accepted DEF ConnInv
<1>3. NameInv'
  BY <1>0 DEF NameInv
<1>4. MapInv'
  BY <1>0, <1>1 DEF MapInv
<1> QED
  BY <1>1, <1>2, <1>3, <1>4 DEF Promises

\* A loop is destroyed: the base loop after the server, which leaves nothing in it.
LEMMA LoopGoesStep ==
  ASSUME ServerInv, NEW l \in Loops, destroyLoop(l)
  PROVE  QueueInv' /\ Promises'
<1> USE DEF ServerInv
<1>0. /\ Base \in Loops /\ at' = [at EXCEPT ![l] = "dead"] /\ at[l] = "exited"
      /\ at \in [Loops -> LoopPhases] /\ (l = Base => server # "alive")
      /\ UNCHANGED <<server, m_listenning, accepted, m_nextConnId, m_connections, conn>>
  BY Accepted DEF destroyLoop, TypeOK, LoopTypes, netVars, connVars, endVars
<1>1. QueueInv' /\ \A g : \A k \in Loops : g \in Waiting'[k] <=> g \in Waiting[k] /\ k # l
  BY DestroyStep
<1>2. ConnInv'
  <2>1. ASSUME NEW c \in 1..accepted, NEW k \in Loops PROVE Mentions(c, k)'
    <3>1. Functor("remove", c) \in Waiting'[Base] <=> Functor("remove", c) \in Waiting[Base]
      BY <1>0, <1>1 DEF MapInv
    <3> QED
      BY <1>0, <1>1, <3>1 DEF ConnInv, Mentions
  <2> QED
    BY <1>0, <2>1 DEF ConnInv
<1>3. NameInv'
  BY <1>0 DEF NameInv
<1>4. MapInv'
  BY <1>0, <1>1 DEF MapInv
<1> QED
  BY <1>1, <1>2, <1>3, <1>4 DEF Promises

\* The server is destroyed: an idle one has nothing in its map, and was not told to
\* listen in vain.
LEMMA EndStep ==
  ASSUME ServerInv, EndsIdle, destruct \/ acceptorGoes
  PROVE  QueueInv' /\ Promises'
<1> USE DEF ServerInv
<1>0. /\ Base \in Loops
      /\ UNCHANGED <<m_pendingFunctors, functors, ran, at, accepted, m_nextConnId, conn>>
  BY Accepted DEF destruct, acceptorGoes, loopVars, connVars
<1>1. QueueInv' /\ \A k \in Loops : Waiting'[k] = Waiting[k]
  BY <1>0, QueuesStay
<1>2. ConnInv'
  BY <1>0, <1>1 DEF ConnInv, Mentions
<1>3. CASE destruct
  <2>1. /\ m_connections = <<>> /\ m_connections' = <<>> /\ at[Base] = "exited"
        /\ m_started => m_listenning
    BY <1>3 DEF destruct, Idle
  <2>2. Functor("listen", 0) \notin Waiting[Base]
    <3>1. Functor("listen", 0) \in Waiting[Base] => m_started /\ ~m_listenning
      BY <1>0, Queues DEF StartInv, MapInv, TypeOK
    <3> QED
      BY <2>1, <3>1
  <2>3. DOMAIN m_connections = {}
    BY <2>1
  <2>4. NameInv'
    BY <1>0, <2>1, <2>3 DEF NameInv
  <2>5. MapInv'
    BY <1>0, <1>1, <2>1, <2>2, <2>3 DEF MapInv
  <2> QED
    BY <1>1, <1>2, <2>4, <2>5 DEF Promises
<1>4. CASE acceptorGoes
  <2>1. UNCHANGED m_connections /\ server = "ending"
    BY <1>4 DEF acceptorGoes, connVars
  <2>2. NameInv'
    BY <1>0, <2>1 DEF NameInv
  <2>3. MapInv'
    BY <1>0, <1>1, <2>1 DEF MapInv
  <2> QED
    BY <1>1, <1>2, <2>2, <2>3 DEF Promises
<1> QED
  BY <1>3, <1>4

------------------------------------------------------------------------------
(***************************************************************************)
(* The invariant, and what it gives when names do not come round (MaxConns *)
(* <= IdRange) and the server is idle when it is destroyed (EndsIdle).     *)
(***************************************************************************)

LEMMA ServerInit == Init => ServerInv
<1> SUFFICES ASSUME Init PROVE ServerInv
  OBVIOUS
<1>1. /\ accepted = 0 /\ m_nextConnId = 1 /\ m_connections = <<>> /\ server = "alive"
      /\ Base \in Loops
      /\ \A l \in Loops : m_pendingFunctors[l] = <<>> /\ functors[l] = <<>> /\ ran[l] = 0
  BY ServerAssumption DEF Init, ServerAssumption, Base, Loops
<1>2. \A l \in Loops : Waiting[l] = {} /\ Queued[l] = {}
  BY <1>1 DEF Waiting, Queued, Range
<1>3. QueueInv
  BY <1>1, <1>2 DEF QueueInv, Once
<1>4. ConnInv /\ NameInv /\ MapInv
  BY <1>1, <1>2 DEF ConnInv, NameInv, MapInv
<1> QED
  BY <1>3, <1>4, TypeInit, StartInit DEF ServerInv

\* The steps that touch no connection.
LEMMA OtherStep ==
  ASSUME ServerInv,
         \/ \E t \in Starters :
              startServer(t) \/ startLoop(t) \/ startLoopReturns(t)
         \/ clientComes \/ loopAgain \/ quit
         \/ \E c \in Conns : clientLeaves(c)
         \/ \E l \in Loops :
              \/ publish(l) \/ loop(l) \/ takeFunctors(l) \/ functorsDone(l)
              \/ quitThread(l) \/ joinThread(l)
         \/ UNCHANGED vars
  PROVE  QueueInv' /\ Promises'
<1> USE DEF ServerInv
<1>0. /\ Base \in Loops /\ at \in [Loops -> LoopPhases] /\ Base = 0 /\ Len(m_loops) \in Nat
      /\ server # "alive" => at[Base] \in {"exited", "dead"}
      /\ \A t \in Starters :
           start[t] = "pool" => \A l \in Loops : l > Len(m_loops) => at[l] = "none"
  BY Accepted DEF TypeOK, LoopTypes, PoolTypes, MapInv, StartInv, Base
<1> DEFINE Still ==
      /\ UNCHANGED <<accepted, m_nextConnId, m_connections, conn, server, m_listenning>>
      /\ \A l \in Loops : at[l] = "dead" => at'[l] = "dead"
      /\ server # "alive" => at'[Base] \in {"exited", "dead"}
<1>1. ASSUME Still, UNCHANGED <<m_pendingFunctors, functors, ran>>,
             \A l \in Loops : at[l] = "functors" => at'[l] = "functors"
      PROVE  QueueInv' /\ Promises'
  BY <1>1, QueuesStay, QuietStep
<1>2. ASSUME NEW l \in Loops, takeFunctors(l) \/ functorsDone(l)
      PROVE  QueueInv' /\ Promises'
  <2>1. Still
    BY <1>0, <1>2 DEF takeFunctors, functorsDone, connVars, netVars, endVars
  <2> QED
    BY <1>2, <2>1, MoveStep, QuietStep
<1>3. ASSUME NEW t \in Starters, startLoop(t) PROVE QueueInv' /\ Promises'
  <2>1. at' = [at EXCEPT ![Len(m_loops) + 1] = "starting"] /\ start[t] = "pool"
    BY <1>3 DEF startLoop
  <2>2. \A l \in Loops : at'[l] = at[l] \/ at[l] = "none"
    BY <1>0, <2>1
  <2>3. at'[Base] = at[Base]
    BY <1>0, <2>1
  <2> QED
    BY <1>0, <1>1, <1>3, <2>2, <2>3 DEF startLoop, connVars, netVars, endVars
<1>4. ASSUME NEW l \in Loops, publish(l) \/ loop(l) PROVE QueueInv' /\ Promises'
  BY <1>0, <1>1, <1>4 DEF publish, loop, connVars, netVars, endVars
<1>5. CASE loopAgain
  BY <1>0, <1>1, <1>5 DEF loopAgain, connVars, netVars, endVars
<1>6. ASSUME UNCHANGED <<connVars, at, functors, ran, m_pendingFunctors, m_listenning, server>>
      PROVE  QueueInv' /\ Promises'
  BY <1>0, <1>1, <1>6 DEF connVars
<1>7. ASSUME NEW t \in Starters, startServer(t) \/ startLoopReturns(t)
      PROVE  QueueInv' /\ Promises'
  BY <1>6, <1>7 DEF startServer, startLoopReturns, netVars, loopVars, endVars
<1>8. CASE clientComes \/ quit \/ \E c \in Conns : clientLeaves(c)
  BY <1>6, <1>8 DEF clientComes, quit, clientLeaves, netVars, loopVars, endVars
<1>9. ASSUME NEW l \in Loops, quitThread(l) \/ joinThread(l) PROVE QueueInv' /\ Promises'
  BY <1>6, <1>9 DEF quitThread, joinThread, netVars, loopVars, endVars
<1>10. CASE UNCHANGED vars
  BY <1>6, <1>10 DEF vars, netVars, loopVars, endVars
<1> QED
  BY <1>2, <1>3, <1>4, <1>5, <1>7, <1>8, <1>9, <1>10

LEMMA ServerStep ==
  ASSUME EndsIdle, MaxConns <= IdRange, ServerInv, [Next]_vars
  PROVE  ServerInv'
<1>1. TypeOK' /\ StartInv'
  BY TypeStep, StartStep DEF ServerInv
<1>2. QueueInv' /\ Promises'
  BY AcceptStep, CloseStep, RemovalStep, FunctorStep, ListenStep, LoopGoesStep, EndStep,
     OtherStep
     DEF Next, starterStep, loopStep, runFunctor, baseStep, endStep
<1> QED
  BY <1>1, <1>2 DEF ServerInv, Promises

LEMMA ServerInvariant ==
  ASSUME EndsIdle, MaxConns <= IdRange
  PROVE  SafeSpec => []ServerInv
<1>1. ServerInv /\ [Next]_vars => ServerInv'
  BY ServerStep
<1> QED
  BY <1>1, ServerInit, PTL DEF SafeSpec

\* m_connections "stores all connections" (TcpServer.h:118): each one is in it, under
\* its own name, from the accept to the removal in the base loop.
THEOREM MapStoresAll ==
  ASSUME EndsIdle, MaxConns <= IdRange
  PROVE  SafeSpec => []StoresAll
<1>1. ServerInv => StoresAll
  BY Accepted DEF ServerInv, NameInv, MapInv, StoresAll
<1> QED
  BY <1>1, ServerInvariant, PTL

\* No connection is freed before connectDestroyed has run, which is "called when the
\* connection is being torn down" (TcpConnection.h:75-78), while its loop polls.
THEOREM RemovedBeforeFreed ==
  ASSUME EndsIdle, MaxConns <= IdRange
  PROVE  SafeSpec => []FreedIsRemoved
<1>1. ServerInv => FreedIsRemoved
  <2> SUFFICES ASSUME ServerInv, NEW c \in 1..accepted, Freed(c), Running(conn[c].ioLoop)
               PROVE  conn[c].phase = "removed"
    BY DEF FreedIsRemoved
  <2> USE DEF ServerInv
  <2> DEFINE l == conn[c].ioLoop
  <2>1. /\ Base \in Loops /\ l \in Loops /\ at[l] # "dead"
        /\ conn[c].phase \in {"connecting", "connected", "disconnected", "removed"}
    BY Accepted DEF Running, Phases
  <2>2. conn[c].phase \notin {"connecting", "connected"}
    <3>1. c \notin Range(m_connections)
      BY DEF Freed
    <3>2. c \in DOMAIN m_connections => m_connections[c] = c
      BY DEF NameInv
    <3> QED
      BY <3>1, <3>2 DEF MapInv, Range
  <2>3. \A op : \A k \in Loops : Functor(op, c) \notin Waiting[k]
    BY Queues, FunctorsDiffer DEF Freed, TypeOK
  <2>4. conn[c].phase # "disconnected"
    BY <2>1, <2>3 DEF ConnInv, Mentions
  <2> QED
    BY <2>1, <2>2, <2>4
<1> QED
  BY <1>1, ServerInvariant, PTL

------------------------------------------------------------------------------
(***************************************************************************)
(* The server implements ConnectionTable.                                  *)
(***************************************************************************)

stage == [c \in Conns |-> Stage(c)]

\* Stages without their CASE; and a connection that is served is not freed.
StageFacts ==
  /\ accepted \in Nat
  /\ \A c \in Conns :
       /\ c > accepted => stage[c] = "waiting" /\ ~Freed(c)
       /\ Freed(c) => stage[c] = "released" /\ c \in 1..accepted
       /\ c <= accepted => c \in 1..accepted
       /\ c <= accepted /\ ~Freed(c) =>
            \/ conn[c].phase = "connecting" /\ stage[c] = "accepted"
            \/ conn[c].phase = "connected" /\ stage[c] = "open"
            \/ conn[c].phase \in {"disconnected", "removed"} /\ stage[c] = "closed"
       /\ conn[c].phase \in {"connecting", "connected"} => ~Freed(c)

LEMMA StagesHold == ServerInv => StageFacts
<1> SUFFICES ASSUME ServerInv, NEW c \in Conns
             PROVE  /\ accepted \in Nat
                    /\ c > accepted => stage[c] = "waiting" /\ ~Freed(c)
                    /\ Freed(c) => stage[c] = "released" /\ c \in 1..accepted
                    /\ c <= accepted => c \in 1..accepted
                    /\ c <= accepted /\ ~Freed(c) =>
                         \/ conn[c].phase = "connecting" /\ stage[c] = "accepted"
                         \/ conn[c].phase = "connected" /\ stage[c] = "open"
                         \/ conn[c].phase \in {"disconnected", "removed"} /\ stage[c] = "closed"
                    /\ conn[c].phase \in {"connecting", "connected"} => ~Freed(c)
  BY Accepted DEF StageFacts, ServerInv
<1> USE DEF ServerInv
<1>1. /\ c \in Nat /\ 1 <= c /\ accepted \in Nat /\ conn[c].phase \in Phases
      /\ conn[c].phase = "none" <=> c > accepted
  BY Accepted DEF Conns, TypeOK, ConnTypes
<1>2. stage[c] = Stage(c) /\ (Freed(c) => c <= accepted)
  BY DEF stage, Freed
<1>3. conn[c].phase \in {"connecting", "connected"} => ~Freed(c)
  <2> SUFFICES ASSUME conn[c].phase \in {"connecting", "connected"} PROVE ~Freed(c)
    OBVIOUS
  <2>1. c \in 1..accepted
    BY <1>1
  <2>2. c \in DOMAIN m_connections /\ m_connections[c] = c
    BY <2>1 DEF MapInv, NameInv
  <2> QED
    BY <2>2 DEF Freed, Range
<1>4. c > accepted => Stage(c) = "waiting" /\ ~Freed(c)
  BY <1>1, <1>2 DEF Stage
<1>5. Freed(c) => Stage(c) = "released"
  <2>1. ASSUME Freed(c) PROVE Stage(c) = "released"
    <3>1. ~(c > accepted)
      BY <1>1, <1>2, <2>1
    <3> QED
      BY <1>3, <2>1, <3>1 DEF Stage
  <2> QED
    BY <2>1
<1>6. c <= accepted /\ ~Freed(c) =>
        \/ conn[c].phase = "connecting" /\ Stage(c) = "accepted"
        \/ conn[c].phase = "connected" /\ Stage(c) = "open"
        \/ conn[c].phase \in {"disconnected", "removed"} /\ Stage(c) = "closed"
  BY <1>1 DEF Stage, Phases
<1> QED
  BY <1>1, <1>2, <1>3, <1>4, <1>5, <1>6

LEMMA StagesHoldNext == ServerInv' => StageFacts'
  BY StagesHold, PTL

\* A step that establishes and closes nothing gives connections back, if anything.
LEMMA ReleaseStep ==
  ASSUME ServerInv, ServerInv', UNCHANGED <<accepted>>,
         \A c \in 1..accepted :
           /\ Freed(c) => Freed(c)'
           /\ \/ conn'[c].phase = conn[c].phase
              \/ {conn[c].phase, conn'[c].phase} \subseteq {"disconnected", "removed"}
  PROVE  [Table!Next]_stage
<1> DEFINE S == {c \in Conns : ~Freed(c) /\ Freed(c)'}
<1>0. StageFacts /\ StageFacts'
  BY StagesHold, StagesHoldNext
<1>1. \A c \in Conns : c \in Nat /\ accepted \in Nat
  BY <1>0 DEF StageFacts, Conns
<1>2. ASSUME NEW c \in S PROVE stage[c] = "closed" /\ stage'[c] = "released"
  <2>1. stage'[c] = "released" /\ c \in 1..accepted
    BY <1>0, <1>2 DEF StageFacts
  <2>2. conn'[c].phase \notin {"connecting", "connected"}
    BY <1>0, <1>2 DEF StageFacts
  <2> QED
    BY <1>0, <1>1, <1>2, <2>1, <2>2 DEF StageFacts
<1>3. ASSUME NEW c \in Conns, c \notin S PROVE stage'[c] = stage[c]
  <2>1. CASE c > accepted
    BY <1>0, <2>1 DEF StageFacts
  <2>2. CASE c <= accepted /\ Freed(c)
    BY <1>0, <2>2 DEF StageFacts
  <2>3. CASE c <= accepted /\ ~Freed(c)
    BY <1>0, <1>3, <2>3 DEF StageFacts
  <2> QED
    BY <1>1, <2>1, <2>2, <2>3
<1>4. /\ stage = [c \in Conns |-> stage[c]]
      /\ stage' = [c \in Conns |-> stage'[c]]
  BY DEF stage
<1> HIDE DEF S
<1>5. CASE S = {}
  BY <1>3, <1>4, <1>5
<1>6. CASE S # {}
  <2>1. S \in (SUBSET Conns) \ {{}}
    BY <1>6 DEF S
  <2>2. stage' = [c \in Conns |-> IF c \in S THEN "released" ELSE stage[c]]
    BY <1>2, <1>3, <1>4
  <2>3. Table!Release(S)
    BY <1>2, <2>2 DEF Table!Release, stage
  <2> QED
    BY <2>1, <2>3 DEF Table!Next
<1> QED
  BY <1>5, <1>6

LEMMA NamesAreRange == NameInv => Range(m_connections) = DOMAIN m_connections
  BY DEF NameInv, Range

LEMMA NamesAreRangeNext == NameInv' => Range(m_connections') = DOMAIN m_connections'
  BY DEF NameInv, Range

\* One connection changes its stage.
LEMMA StageChange ==
  ASSUME ServerInv, ServerInv', NEW c \in Conns,
         \A d \in Conns : d # c =>
           /\ conn'[d] = conn[d] /\ (d <= accepted <=> d <= accepted')
           /\ Freed(d) <=> Freed(d)'
  PROVE  stage' = [stage EXCEPT ![c] = stage'[c]]
<1>0. StageFacts /\ StageFacts'
  BY StagesHold, StagesHoldNext
<1>1. ASSUME NEW d \in Conns, d # c PROVE stage'[d] = stage[d]
  <2>1. d \in Nat /\ accepted \in Nat /\ accepted' \in Nat
    BY <1>0 DEF StageFacts, Conns
  <2>2. CASE d > accepted
    <3>1. d > accepted'
      BY <1>1, <2>1, <2>2
    <3> QED
      BY <1>0, <2>2, <3>1 DEF StageFacts
  <2>3. CASE d <= accepted /\ Freed(d)
    BY <1>0, <1>1, <2>3 DEF StageFacts
  <2>4. CASE d <= accepted /\ ~Freed(d)
    <3>1. d <= accepted' /\ ~Freed(d)' /\ conn'[d] = conn[d]
      BY <1>1, <2>4
    <3> QED
      BY <1>0, <2>4, <3>1 DEF StageFacts
  <2> QED
    BY <2>1, <2>2, <2>3, <2>4
<1> QED
  BY <1>1 DEF stage

\* The connection that is accepted is the first of those that wait.
LEMMA AcceptIsAccept ==
  ASSUME ServerInv, ServerInv', MaxConns <= IdRange, acceptReady,
         NEW c \in Conns, c = accepted + 1
  PROVE  Table!Accept(c)
<1> USE DEF ServerInv
<1>0. /\ accepted \in Nat /\ accepted' = c /\ newConnection(c)
      /\ m_nextConnId = c /\ UNCHANGED functors /\ NextLoop \in Loops
      /\ Cardinality(InUse) < MaxFds
  <2>1. accepted \in Nat /\ NextLoop \in Loops
    BY Accepted, NextTypes
  <2>2. m_nextConnId = accepted + 1
    BY <2>1, ServerAssumption DEF NameInv, Conns, ServerAssumption
  <2> QED
    BY <2>1, <2>2 DEF acceptReady, loopVars
<1>f. StageFacts /\ StageFacts'
  BY StagesHold, StagesHoldNext
<1>1. /\ conn'[c].phase \in {"connecting", "connected"}
      /\ \A d \in Conns : d # c => conn'[d] = conn[d]
  BY <1>0, Accepted DEF newConnection
<1>2. \A l \in Loops : \A g \in Queued'[l] : g \in Queued[l] \/ g.conn = c
  <2>1. CASE NextLoop = Base
    BY <1>0, <2>1 DEF newConnection, Queued
  <2>2. CASE NextLoop # Base
    <3>1. queueInLoop(NextLoop, Functor("establish", c))
      BY <1>0, <2>2 DEF newConnection
    <3> QED
      BY <1>0, <3>1, QueuedAppend, FunctorsDiffer DEF TypeOK
  <2> QED
    BY <2>1, <2>2
<1>3. \A l \in Loops : Queued[l] \subseteq Queued'[l]
  <2>1. CASE NextLoop = Base
    BY <1>0, <2>1 DEF newConnection, Queued
  <2>2. CASE NextLoop # Base
    <3>1. queueInLoop(NextLoop, Functor("establish", c))
      BY <1>0, <2>2 DEF newConnection
    <3> QED
      BY <1>0, <3>1, QueuedAppend DEF TypeOK
  <2> QED
    BY <2>1, <2>2
<1>4. Range(m_connections') = Range(m_connections) \cup {c}
  <2>1. DOMAIN m_connections' = DOMAIN m_connections \cup {c}
    BY <1>0 DEF newConnection
  <2> QED
    BY <2>1, NamesAreRange, NamesAreRangeNext
<1>5. \A d \in Conns : d # c => (d <= accepted <=> d <= accepted') /\ (Freed(d) <=> Freed(d)')
  <2> SUFFICES ASSUME NEW d \in Conns, d # c
               PROVE  (d <= accepted <=> d <= accepted') /\ (Freed(d) <=> Freed(d)')
    OBVIOUS
  <2>1. d <= accepted <=> d <= accepted'
    BY <1>0 DEF Conns
  <2>2. Freed(d) => Freed(d)'
    BY <1>2, <1>4, <2>1 DEF Freed
  <2>3. Freed(d)' => Freed(d)
    BY <1>3, <1>4, <2>1 DEF Freed
  <2> QED
    BY <2>1, <2>2, <2>3
<1>6. stage' = [stage EXCEPT ![c] = stage'[c]] /\ stage'[c] \in {"accepted", "open"}
  <2>1. stage'[c] \in {"accepted", "open"}
    <3>1. ~Freed(c)' /\ c <= accepted'
      <4>1. c <= accepted'
        BY <1>0 DEF Conns
      <4> QED
        BY <1>0, <1>f, <1>1, <4>1 DEF StageFacts
    <3> QED
      BY <1>0, <1>f, <1>1, <3>1 DEF StageFacts
  <2> QED
    BY <1>0, <1>1, <1>5, <2>1, StageChange
<1>7. stage[c] = "waiting" /\ \A d \in Conns : d < c => stage[d] # "waiting"
  <2>1. c > accepted /\ \A d \in Conns : d < c => d <= accepted
    BY <1>0 DEF Conns
  <2> QED
    BY <1>0, <1>f, <2>1 DEF StageFacts
<1>8. {d \in Conns : stage[d] \in {"accepted", "open", "closed"}} = InUse
  <2>1. ASSUME NEW d \in Conns
        PROVE  stage[d] \in {"accepted", "open", "closed"} <=> d \in 1..accepted /\ ~Freed(d)
    <3>1. CASE d > accepted
      BY <1>0, <1>f, <3>1 DEF StageFacts, Conns
    <3>2. CASE ~(d > accepted)
      BY <1>0, <1>f, <3>2 DEF StageFacts, Conns
    <3> QED
      BY <3>1, <3>2
  <2> QED
    BY <2>1, Accepted DEF InUse
<1>9. Table!Held = InUse
  BY <1>8 DEF Table!Held, stage
<1>10. \E s \in {"accepted", "open"} : stage' = [stage EXCEPT ![c] = s]
  BY <1>6
<1>11. Table!Cardinality(InUse) = Cardinality(InUse)
  BY DEF Table!Cardinality, Cardinality
<1> QED
  BY <1>0, <1>7, <1>9, <1>10, <1>11 DEF Table!Accept, stage

\* connectEstablished opens, and handleClose closes, one connection.
LEMMA OpenIsOpen ==
  ASSUME ServerInv, ServerInv', NEW l \in Loops, NEW c \in Conns, connectEstablished(l, c)
  PROVE  Table!Open(c)
<1> USE DEF ServerInv
<1>0. /\ runs(l, "establish", c) /\ conn' = [conn EXCEPT ![c].phase = "connected"]
      /\ UNCHANGED <<accepted, m_connections, m_pendingFunctors, functors>>
      /\ StageFacts /\ StageFacts'
  BY StagesHold, StagesHoldNext DEF connectEstablished, runs
<1>1. c \in 1..accepted /\ Functor("establish", c) \in Waiting[l]
  BY <1>0, RunsTypes, RunStep
<1>2. /\ conn[c].phase = "connecting" /\ conn'[c].phase = "connected"
      /\ \A d \in Conns : d # c => conn'[d] = conn[d]
  BY <1>0, <1>1, Accepted DEF ConnInv, Mentions
<1>3. \A d \in Conns : Freed(d) <=> Freed(d)'
  BY <1>0 DEF Freed, Queued
<1>4. stage[c] = "accepted" /\ stage'[c] = "open"
  <2>1. ~Freed(c) /\ ~Freed(c)' /\ c <= accepted /\ c <= accepted'
    BY <1>0, <1>1, <1>2 DEF StageFacts
  <2> QED
    BY <1>0, <1>2, <2>1 DEF StageFacts
<1>5. stage' = [stage EXCEPT ![c] = stage'[c]]
  BY <1>0, <1>2, <1>3, StageChange
<1> QED
  BY <1>4, <1>5 DEF Table!Open, stage

LEMMA CloseIsClose ==
  ASSUME ServerInv, ServerInv', NEW c \in Conns, handleClose(c)
  PROVE  Table!Close(c)
<1> USE DEF ServerInv
<1>0. /\ conn[c].phase = "connected" /\ conn' = [conn EXCEPT ![c].phase = "disconnected"]
      /\ removeConnection(c) /\ UNCHANGED <<accepted, functors>>
      /\ StageFacts /\ StageFacts'
  BY StagesHold, StagesHoldNext DEF handleClose, loopVars
<1>1. /\ c \in 1..accepted /\ conn[c].ioLoop \in Loops /\ Base \in Loops /\ conn[c].name = c
      /\ ~Freed(c)
  BY <1>0, Accepted DEF StageFacts, TypeOK, ConnTypes, NameInv, Conns
<1>2. conn'[c].phase = "disconnected" /\ \A d \in Conns : d # c => conn'[d] = conn[d]
  BY <1>0, <1>1, Accepted
<1>3. PICK f : /\ f.conn = c /\ queueInLoop(Base, f)
               /\ DOMAIN m_connections \ {c} \subseteq DOMAIN m_connections'
               /\ DOMAIN m_connections' \subseteq DOMAIN m_connections
  <2>1. CASE conn[c].ioLoop = Base
    BY <1>0, <1>1, <2>1, FunctorsDiffer DEF removeConnection, removeConnectionInLoop, Restrict
  <2>2. CASE conn[c].ioLoop # Base
    BY <1>0, <1>1, <2>2, FunctorsDiffer DEF removeConnection
  <2> QED
    BY <2>1, <2>2
<1>4. \A g : \A k \in Loops : g \in Queued'[k] <=> g \in Queued[k] \/ (k = Base /\ g = f)
  BY <1>0, <1>1, <1>3, QueuedAppend DEF TypeOK
<1>5. \A d \in Conns : d # c => (Freed(d) <=> Freed(d)')
  <2>1. \A d : d # c => (d \in Range(m_connections) <=> d \in Range(m_connections'))
    BY <1>3, NamesAreRange, NamesAreRangeNext
  <2> QED
    BY <1>0, <1>3, <1>4, <2>1 DEF Freed
<1>6. ~Freed(c)'
  BY <1>1, <1>3, <1>4 DEF Freed
<1>7. stage[c] = "open" /\ stage'[c] = "closed"
  BY <1>0, <1>1, <1>2, <1>6 DEF StageFacts
<1>8. stage' = [stage EXCEPT ![c] = stage'[c]]
  BY <1>0, <1>2, <1>5, StageChange
<1> QED
  BY <1>7, <1>8 DEF Table!Close, stage

\* A step that queues nothing about a freed connection, and puts none into the map,
\* does not bring it back.
LEMMA FreedStays ==
  ASSUME UNCHANGED accepted, Range(m_connections') \subseteq Range(m_connections),
         \A l \in Loops : \A g \in Queued'[l] :
           g \in Queued[l] \/ g.conn = 0 \/ (g.conn \in 1..accepted /\ ~Freed(g.conn))
  PROVE  \A c \in 1..accepted : Freed(c) => Freed(c)'
  BY DEF Freed

LEMMA TableStep ==
  ASSUME EndsIdle, MaxConns <= IdRange, ServerInv, ServerInv', [Next]_vars
  PROVE  [Table!Next]_stage
<1>0. Base \in Loops /\ accepted \in Nat /\ accepted <= MaxConns
  BY Accepted DEF ServerInv
<1>1. ASSUME UNCHANGED <<accepted, conn>>, Range(m_connections') \subseteq Range(m_connections),
             \A l \in Loops : \A g \in Queued'[l] : g \in Queued[l] \/ g.conn = 0
      PROVE  [Table!Next]_stage
  <2>1. \A c \in 1..accepted : Freed(c) => Freed(c)'
    BY <1>1, FreedStays
  <2> QED
    BY <1>1, <2>1, ReleaseStep
<1>2. CASE acceptReady
  <2>1. PICK c \in Conns : c = accepted + 1
    BY <1>0, <1>2, ServerAssumption
       DEF acceptReady, Conns, ServerInv, TypeOK, ConnTypes, ServerAssumption
  <2> QED
    BY <1>2, <2>1, AcceptIsAccept DEF Table!Next
<1>3. ASSUME NEW l \in Loops, NEW c \in Conns, connectEstablished(l, c)
      PROVE  [Table!Next]_stage
  BY <1>3, OpenIsOpen DEF Table!Next
<1>4. ASSUME NEW c \in Conns, handleClose(c) PROVE [Table!Next]_stage
  BY <1>4, CloseIsClose DEF Table!Next
<1>5. ASSUME NEW l \in Loops, NEW c \in Conns, connectDestroyed(l, c)
      PROVE  [Table!Next]_stage
  <2>1. /\ runs(l, "destroy", c) /\ conn' = [conn EXCEPT ![c].phase = "removed"]
        /\ UNCHANGED <<accepted, m_connections, m_pendingFunctors, functors>>
    BY <1>5 DEF connectDestroyed, runs
  <2>2. c \in 1..accepted /\ Functor("destroy", c) \in Waiting[l]
    BY <2>1, RunsTypes, RunStep DEF ServerInv
  <2>3. conn[c].phase = "disconnected"
    BY <2>2 DEF ServerInv, ConnInv, Mentions
  <2>4. \A d \in 1..accepted : conn'[d].phase = IF d = c THEN "removed" ELSE conn[d].phase
    <3>1. TypeOK
      BY DEF ServerInv
    <3> QED
      BY <2>1, <2>2, <3>1, Accepted
  <2>5. \A d \in 1..accepted : Freed(d) => Freed(d)'
    BY <2>1 DEF Freed, Queued
  <2> QED
    BY <2>1, <2>3, <2>4, <2>5, ReleaseStep
<1>6. ASSUME NEW c \in Conns, removalRuns(c) PROVE [Table!Next]_stage
  <2>1. /\ runs(Base, "remove", c) /\ queueInLoop(conn[c].ioLoop, Functor("destroy", c))
        /\ UNCHANGED <<accepted, conn, functors>>
        /\ m_connections' = Restrict(m_connections, DOMAIN m_connections \ {conn[c].name})
    BY <1>6 DEF removalRuns, removeConnectionInLoop, runs
  <2>2. c \in 1..accepted /\ conn[c].ioLoop \in Loops
    BY <1>0, <2>1, RunsTypes, Accepted DEF ServerInv
  <2>3. ~Freed(c)
    <3>1. Functor("remove", c) \in Queued[Base]
      <4>1. /\ functors[Base] \in Seq(Functors) /\ ran[Base] + 1 \in 1..Len(functors[Base])
            /\ functors[Base][ran[Base] + 1] = Functor("remove", c)
        BY <1>0, <2>1 DEF runs, ServerInv, TypeOK, QueueTypes
      <4> QED
        BY <1>0, <4>1 DEF Queued, Range
    <3> QED
      BY <1>0, <3>1, FunctorsDiffer DEF Freed
  <2>4. Range(m_connections') \subseteq Range(m_connections)
    BY <2>1 DEF Restrict, Range
  <2>5. \A l \in Loops : \A g \in Queued'[l] :
          g \in Queued[l] \/ (g.conn \in 1..accepted /\ ~Freed(g.conn))
    BY <2>1, <2>2, <2>3, QueuedAppend, FunctorsDiffer DEF ServerInv, TypeOK
  <2>6. \A d \in 1..accepted : Freed(d) => Freed(d)'
    BY <2>1, <2>4, <2>5, FreedStays
  <2> QED
    BY <2>1, <2>6, ReleaseStep
<1>7. ASSUME NEW t \in Starters, runListen(t) PROVE [Table!Next]_stage
  <2>1. \A l \in Loops : \A g \in Queued'[l] : g \in Queued[l] \/ g.conn = 0
    <3>1. CASE t = baseThread
      BY <1>7, <3>1 DEF runListen, Queued, loopVars
    <3>2. CASE t # baseThread
      BY <1>0, <1>7, <3>2, QueuedAppend, FunctorsDiffer
         DEF runListen, loopVars, ServerInv, TypeOK
    <3> QED
      BY <3>1, <3>2
  <2> QED
    BY <1>1, <1>7, <2>1 DEF runListen, connVars
<1>8. ASSUME NEW l \in Loops, takeFunctors(l) \/ functorsDone(l) \/ destroyLoop(l)
      PROVE  [Table!Next]_stage
  <2>1. \A k \in Loops : Queued'[k] \subseteq Queued[k]
    <3>1. /\ Range(<<>>) = {} /\ QueueTypes
          /\ \A k \in Loops : Queued'[k] = Range(m_pendingFunctors'[k]) \cup Range(functors'[k])
      BY DEF Range, Queued, ServerInv, TypeOK
    <3>2. CASE takeFunctors(l)
      BY <3>1, <3>2, Queues DEF takeFunctors, QueueTypes
    <3>3. CASE functorsDone(l)
      BY <3>1, <3>3, Queues DEF functorsDone, QueueTypes
    <3>4. CASE destroyLoop(l)
      BY <3>1, <3>4, Queues DEF destroyLoop, QueueTypes
    <3> QED
      BY <1>8, <3>2, <3>3, <3>4
  <2>2. UNCHANGED <<accepted, conn, m_connections>>
    BY <1>8 DEF takeFunctors, functorsDone, destroyLoop, connVars
  <2> QED
    BY <1>1, <2>1, <2>2
<1>9. ASSUME UNCHANGED <<accepted, conn, m_connections, m_pendingFunctors, functors>>
      PROVE  [Table!Next]_stage
  BY <1>1, <1>9 DEF Queued
<1>10. CASE destruct
  <2>1. Range(m_connections') = {} /\ UNCHANGED <<accepted, conn, m_pendingFunctors, functors>>
    BY <1>10 DEF destruct, Range, loopVars
  <2> QED
    BY <1>1, <2>1 DEF Queued
<1>11. CASE listen
  BY <1>9, <1>11 DEF listen, runs
<1>12. ASSUME NEW t \in Starters, startServer(t) \/ startLoop(t) \/ startLoopReturns(t)
       PROVE  [Table!Next]_stage
  BY <1>9, <1>12 DEF startServer, startLoop, startLoopReturns, connVars, loopVars
<1>13. ASSUME NEW l \in Loops, publish(l) \/ loop(l) \/ quitThread(l) \/ joinThread(l)
       PROVE  [Table!Next]_stage
  BY <1>9, <1>13 DEF publish, loop, quitThread, joinThread, connVars, loopVars
<1>14. CASE clientComes \/ quit \/ loopAgain \/ acceptorGoes \/ \E c \in Conns : clientLeaves(c)
  BY <1>9, <1>14 DEF clientComes, quit, loopAgain, acceptorGoes, clientLeaves, connVars, loopVars
<1>15. CASE UNCHANGED vars
  BY <1>9, <1>15 DEF vars, connVars, loopVars
<1> QED
  BY <1>2, <1>3, <1>4, <1>5, <1>6, <1>7, <1>8, <1>10, <1>11, <1>12, <1>13, <1>14, <1>15
     DEF Next, starterStep, loopStep, runFunctor, baseStep, endStep

\* The server implements ConnectionTable, liveness aside: it accepts in the order in
\* which clients come and within the descriptors, establishes and closes each
\* connection once, and gives none back before it has closed.
THEOREM ServesConnectionTable ==
  ASSUME EndsIdle, MaxConns <= IdRange
  PROVE  SafeSpec => Table!SafeSpec
<1>1. Init => Table!Init
  <2> SUFFICES ASSUME Init PROVE Table!Init
    OBVIOUS
  <2>1. StageFacts /\ accepted = 0
    BY ServerInit, StagesHold DEF Init
  <2>2. \A c \in Conns : stage[c] = "waiting"
    BY <2>1 DEF StageFacts, Conns
  <2> QED
    BY <2>2 DEF Table!Init, stage
<1>2. ServerInv /\ ServerInv' /\ [Next]_vars => [Table!Next]_stage
  BY TableStep
<1> QED
  BY <1>1, <1>2, ServerInvariant, PTL DEF SafeSpec, Table!SafeSpec, stage

==============================================================================
