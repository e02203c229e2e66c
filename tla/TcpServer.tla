------------------------------ MODULE TcpServer ------------------------------
(***************************************************************************)
(* A TcpServer with its Acceptor and EventLoopThreadPool: the base loop,   *)
(* which accepts and keeps m_connections, the pool's loops, which serve    *)
(* the connections, the threads that call start(), the clients, and the    *)
(* end of the server.                                                      *)
(*                                                                         *)
(* A loop is here what EventLoop is shown to be: a queue of callbacks run  *)
(* in batches between polls.  A connection is here what TcpConnection      *)
(* shows: established, then closed once.  Loop number 0 is the base loop,  *)
(* loop i that of the pool's i-th thread.  A step is one event, one        *)
(* callback, or what a thread does between two calls others can observe.   *)
(***************************************************************************)
EXTENDS Integers, FiniteSets, Sequences, Functions

CONSTANTS
  MaxThreads,   \* bound on setThreadNum()
  MaxConns,     \* bound on the clients that come
  MaxFds,       \* descriptors there are for connections
  IdRange,      \* values of m_nextConnId before it comes round, 2^32 in the code
  Starters,     \* the threads that call start()
  baseThread,   \* the base loop's thread, which may be one of them
  EndsIdle      \* is the server destroyed only when it is Idle?

ASSUME ServerAssumption ==
  /\ MaxThreads \in Nat /\ MaxConns \in Nat
  /\ MaxFds \in Nat \ {0} /\ IdRange \in Nat \ {0}
  /\ EndsIdle \in BOOLEAN

Base  == 0
Loops == 0..MaxThreads
Conns == 1..MaxConns   \* in the order of the backlog

VARIABLES
  m_numThreads, m_started, m_loops,
  start,          \* per starter: where it is in start()
  m_listenning,
  arrived,        \* clients 1..arrived have come
  left,           \* those of them that have closed their end
  accepted,       \* connections 1..accepted have been accepted
  m_next, m_nextConnId,
  m_connections,  \* from names to connections
  conn,           \* per connection: phase, ioLoop, name
  at,             \* per loop: where its thread is, see LoopPhases
  m_quit, m_pendingFunctors,
  functors, ran,  \* per loop: doPendingFunctors' vector, how many of it have run
  server,         \* "alive", "ending" (in ~TcpServer), "gone"
  joined          \* threads joined by the end of the pool

poolVars == <<m_numThreads, m_started, m_loops, start>>
netVars  == <<m_listenning, arrived, left>>
connVars == <<accepted, m_next, m_nextConnId, m_connections, conn>>
loopVars == <<at, m_quit, functors, ran>>
endVars  == <<server, joined>>
vars == <<poolVars, netVars, connVars, loopVars, m_pendingFunctors, endVars>>

\* m_state, and whether connectDestroyed has run ("removed").  The channel is in
\* the loop's poller while "connected".
Phases == {"none", "connecting", "connected", "disconnected", "removed"}

LoopPhases == {"none", "starting", "created", "poll", "functors", "exited", "dead"}
Running(l) == at[l] \in {"poll", "functors"}

\* A callback, and the connection it has a TcpConnectionPtr to (0: none).
Functor(op, c) == [op |-> op, conn |-> c]

Init ==
  /\ m_numThreads \in 0..MaxThreads /\ m_started = FALSE /\ m_loops = <<>>
  /\ start = [t \in Starters |-> "idle"]
  /\ m_listenning = FALSE /\ arrived = 0 /\ left = {}
  /\ accepted = 0 /\ m_next = 0 /\ m_nextConnId = 1 /\ m_connections = <<>>
  /\ conn = [c \in Conns |-> [phase |-> "none", ioLoop |-> Base, name |-> 0]]
  /\ at = [l \in Loops |-> IF l = Base THEN "created" ELSE "none"]
  /\ m_quit = [l \in Loops |-> FALSE]
  /\ m_pendingFunctors = [l \in Loops |-> <<>>]
  /\ functors = [l \in Loops |-> <<>>] /\ ran = [l \in Loops |-> 0]
  /\ server = "alive" /\ joined = 0

\* The callbacks a loop has pointers to, and those of them it has still to run.
Queued == [l \in Loops |-> Range(m_pendingFunctors[l]) \cup Range(functors[l])]
Waiting == [l \in Loops |->
  Range(m_pendingFunctors[l]) \cup
    {functors[l][i] : i \in {j \in DOMAIN functors[l] : j > ran[l]}}]

\* Nothing points to the connection any more: it is destroyed, its descriptor closed.
Freed(c) ==
  /\ c <= accepted
  /\ c \notin Range(m_connections)
  /\ \A l \in Loops : \A f \in Queued[l] : f.conn # c

InUse == {c \in 1..accepted : ~Freed(c)}

queueInLoop(l, f) ==
  m_pendingFunctors' = [m_pendingFunctors EXCEPT ![l] = Append(@, f)]

------------------------------------------------------------------------------
(***************************************************************************)
(* start(), in any of the Starters.                                        *)
(***************************************************************************)

Starting(t) == start[t] \in {"pool", "startLoop"}

\* Seeded fault: m_started is set, but not tested.
startServer_again(t) ==
  /\ start[t] = "idle" /\ server = "alive"
  /\ t = baseThread => at[Base] = "created"
  /\ m_started' = TRUE
  /\ start' = [start EXCEPT ![t] = "pool"]
  /\ UNCHANGED <<m_numThreads, m_loops, netVars, connVars, loopVars,
                 m_pendingFunctors, endVars>>

\* m_started.exchange(true).
startServer(t) ==
  /\ start[t] = "idle" /\ server = "alive"
  /\ t = baseThread => at[Base] = "created"
  /\ m_started' = TRUE
  /\ start' = [start EXCEPT ![t] = IF m_started THEN "done" ELSE "pool"]
  /\ UNCHANGED <<m_numThreads, m_loops, netVars, connVars, loopVars,
                 m_pendingFunctors, endVars>>

\* One round of the pool's loop: startLoop() of a new EventLoopThread begins.
startLoop(t) ==
  /\ start[t] = "pool" /\ Len(m_loops) < m_numThreads
  /\ start' = [start EXCEPT ![t] = "startLoop"]
  /\ at' = [at EXCEPT ![Len(m_loops) + 1] = "starting"]
  /\ UNCHANGED <<m_numThreads, m_started, m_loops, netVars, connVars, m_quit,
                 functors, ran, m_pendingFunctors, endVars>>

\* The round ends when the thread has published its loop.
startLoopReturns(t) ==
  /\ start[t] = "startLoop" /\ at[Len(m_loops) + 1] \notin {"none", "starting"}
  /\ start' = [start EXCEPT ![t] = "pool"]
  /\ m_loops' = Append(m_loops, Len(m_loops) + 1)
  /\ UNCHANGED <<m_numThreads, m_started, netVars, connVars, loopVars,
                 m_pendingFunctors, endVars>>

\* The pool is complete: m_loop->runInLoop(acceptor->listen()).
runListen(t) ==
  /\ start[t] = "pool" /\ Len(m_loops) = m_numThreads
  /\ start' = [start EXCEPT ![t] = "done"]
  /\ IF t = baseThread
     THEN m_listenning' = TRUE /\ UNCHANGED m_pendingFunctors
     ELSE queueInLoop(Base, Functor("listen", 0)) /\ UNCHANGED m_listenning
  /\ UNCHANGED <<m_numThreads, m_started, m_loops, arrived, left, connVars,
                 loopVars, endVars>>

------------------------------------------------------------------------------
(***************************************************************************)
(* Clients.                                                                *)
(***************************************************************************)

clientComes ==
  /\ m_listenning /\ arrived < MaxConns
  /\ arrived' = arrived + 1
  /\ UNCHANGED <<poolVars, m_listenning, left, connVars, loopVars,
                 m_pendingFunctors, endVars>>

\* Before it is accepted, or later.
clientLeaves(c) ==
  /\ c <= arrived /\ c \notin left
  /\ left' = left \cup {c}
  /\ UNCHANGED <<poolVars, m_listenning, arrived, connVars, loopVars,
                 m_pendingFunctors, endVars>>

------------------------------------------------------------------------------
(***************************************************************************)
(* Events in the loops' polls.                                             *)
(***************************************************************************)

\* getNextLoop(): the loop it returns, and m_next after it.
NextLoop == IF m_loops = <<>> THEN Base ELSE m_loops[m_next + 1]

\* Seeded fault: the index comes round one too late.
NextIndex_long == IF m_next >= Len(m_loops) THEN 0 ELSE m_next + 1

\* Seeded fault: the index comes round one too early.
NextIndex_short == IF m_next + 2 >= Len(m_loops) THEN 0 ELSE m_next + 1

NextIndex == IF m_next + 1 >= Len(m_loops) THEN 0 ELSE m_next + 1

getAllLoops == IF m_loops = <<>> THEN <<Base>> ELSE m_loops

\* Seeded fault: the name of a new connection is that of the one before.
NextId_same(id) == id

\* m_nextConnId++ for an integer that comes round.
NextId(id) == (id % IdRange) + 1

\* connectEstablished runs in place in the base loop, and is queued elsewhere.
newConnection(c) ==
  /\ m_next' = NextIndex
  /\ m_nextConnId' = NextId(m_nextConnId)
  /\ conn' = [conn EXCEPT ![c] =
       [phase |-> IF NextLoop = Base THEN "connected" ELSE "connecting",
        ioLoop |-> NextLoop, name |-> m_nextConnId]]
  /\ m_connections' = [n \in DOMAIN m_connections \cup {m_nextConnId} |->
                         IF n = m_nextConnId THEN c ELSE m_connections[n]]
  /\ IF NextLoop = Base THEN UNCHANGED m_pendingFunctors
     ELSE queueInLoop(NextLoop, Functor("establish", c))

\* Acceptor::handleRead().  Without a descriptor accept fails, which changes nothing
\* (the loop polls again at once), so the step is the successful one.
acceptReady ==
  /\ at[Base] = "poll" /\ m_listenning /\ accepted < arrived
  /\ Cardinality(InUse) < MaxFds
  /\ accepted' = accepted + 1 /\ newConnection(accepted + 1)
  /\ UNCHANGED <<poolVars, netVars, loopVars, endVars>>

\* Seeded fault: the connection is not erased.
removeConnectionInLoop_keeps(c) ==
  /\ UNCHANGED m_connections
  /\ queueInLoop(conn[c].ioLoop, Functor("destroy", c))

removeConnectionInLoop(c) ==
  /\ m_connections' = Restrict(m_connections, DOMAIN m_connections \ {conn[c].name})
  /\ queueInLoop(conn[c].ioLoop, Functor("destroy", c))

\* Seeded fault: the map is changed at once, in the connection's thread.
removeConnection_atOnce(c) ==
  /\ m_connections' = Restrict(m_connections, DOMAIN m_connections \ {conn[c].name})
  /\ queueInLoop(Base, Functor("remove", c))

removeConnection(c) ==
  IF conn[c].ioLoop = Base THEN removeConnectionInLoop(c)
  ELSE queueInLoop(Base, Functor("remove", c)) /\ UNCHANGED m_connections

\* The connection's loop sees that the peer has closed: TcpConnection::handleClose().
handleClose(c) ==
  /\ conn[c].phase = "connected" /\ at[conn[c].ioLoop] = "poll" /\ c \in left
  /\ conn' = [conn EXCEPT ![c].phase = "disconnected"]
  /\ removeConnection(c)
  /\ UNCHANGED <<poolVars, netVars, accepted, m_next, m_nextConnId, loopVars,
                 endVars>>

------------------------------------------------------------------------------
(***************************************************************************)
(* The loops' threads.                                                     *)
(***************************************************************************)

\* threadFunc publishes its loop.
publish(l) ==
  /\ at[l] = "starting"
  /\ at' = [at EXCEPT ![l] = "created"]
  /\ UNCHANGED <<poolVars, netVars, connVars, m_quit, functors, ran,
                 m_pendingFunctors, endVars>>

\* loop() begins.  The base loop's thread calls it when it is not in start().
loop(l) ==
  /\ at[l] = "created"
  /\ \A t \in Starters : l = Base /\ t = baseThread => ~Starting(t)
  /\ at' = [at EXCEPT ![l] = "poll"]
  /\ m_quit' = [m_quit EXCEPT ![l] = FALSE]
  /\ UNCHANGED <<poolVars, netVars, connVars, functors, ran, m_pendingFunctors,
                 endVars>>

\* doPendingFunctors() takes the queue; an empty one only matters when the loop is
\* to be left.
takeFunctors(l) ==
  /\ at[l] = "poll" /\ (m_pendingFunctors[l] # <<>> \/ m_quit[l])
  /\ at' = [at EXCEPT ![l] = "functors"]
  /\ functors' = [functors EXCEPT ![l] = m_pendingFunctors[l]]
  /\ ran' = [ran EXCEPT ![l] = 0]
  /\ m_pendingFunctors' = [m_pendingFunctors EXCEPT ![l] = <<>>]
  /\ UNCHANGED <<poolVars, netVars, connVars, m_quit, endVars>>

\* The next callback of the batch, for connection c, is run.
runs(l, op, c) ==
  /\ at[l] = "functors" /\ ran[l] < Len(functors[l])
  /\ functors[l][ran[l] + 1] = Functor(op, c)
  /\ ran' = [ran EXCEPT ![l] = @ + 1]
  /\ UNCHANGED <<poolVars, arrived, left, accepted, m_next, m_nextConnId, at,
                 m_quit, functors, endVars>>

listen ==
  /\ runs(Base, "listen", 0)
  /\ m_listenning' = TRUE
  /\ UNCHANGED <<m_connections, conn, m_pendingFunctors>>

connectEstablished(l, c) ==
  /\ runs(l, "establish", c)
  /\ conn' = [conn EXCEPT ![c].phase = "connected"]
  /\ UNCHANGED <<m_listenning, m_connections, m_pendingFunctors>>

removalRuns(c) ==
  /\ runs(Base, "remove", c)
  /\ removeConnectionInLoop(c)
  /\ UNCHANGED <<m_listenning, conn>>

\* handleClose has been there: of connectDestroyed() only m_channel->remove() is left.
connectDestroyed(l, c) ==
  /\ runs(l, "destroy", c)
  /\ conn' = [conn EXCEPT ![c].phase = "removed"]
  /\ UNCHANGED <<m_listenning, m_connections, m_pendingFunctors>>

\* Seeded fault: the pointers of the callbacks that have run are kept.
functorsDone_keeps(l) ==
  /\ at[l] = "functors" /\ ran[l] = Len(functors[l])
  /\ ran' = [ran EXCEPT ![l] = 0]
  /\ at' = [at EXCEPT ![l] = IF m_quit[l] THEN "exited" ELSE "poll"]
  /\ UNCHANGED <<poolVars, netVars, connVars, m_quit, functors, m_pendingFunctors,
                 endVars>>

\* The vector is destroyed, with the pointers in it; loop() tests m_quit.
functorsDone(l) ==
  /\ at[l] = "functors" /\ ran[l] = Len(functors[l])
  /\ functors' = [functors EXCEPT ![l] = <<>>]
  /\ ran' = [ran EXCEPT ![l] = 0]
  /\ at' = [at EXCEPT ![l] = IF m_quit[l] THEN "exited" ELSE "poll"]
  /\ UNCHANGED <<poolVars, netVars, connVars, m_quit, m_pendingFunctors, endVars>>

\* The EventLoop is destroyed with what is queued: a thread's when threadFunc
\* returns, the base loop after the server.
destroyLoop(l) ==
  /\ at[l] = "exited" /\ (l = Base => server = "gone")
  /\ at' = [at EXCEPT ![l] = "dead"]
  /\ m_pendingFunctors' = [m_pendingFunctors EXCEPT ![l] = <<>>]
  /\ UNCHANGED <<poolVars, netVars, connVars, m_quit, functors, ran, endVars>>

------------------------------------------------------------------------------
(***************************************************************************)
(* The end: the base loop is quit and ~TcpServer destroys the members, the *)
(* last one declared first.                                                *)
(***************************************************************************)

\* By a callback of the base loop, or another thread.
quit ==
  /\ Running(Base) /\ ~m_quit[Base]
  /\ m_quit' = [m_quit EXCEPT ![Base] = TRUE]
  /\ UNCHANGED <<poolVars, netVars, connVars, at, functors, ran,
                 m_pendingFunctors, endVars>>

\* A user can bring this about, but cannot ask the server for it.
Idle == m_connections = <<>> /\ (m_started => m_listenning)

\* Under EndsIdle, the base loop is run again until the server is idle.
loopAgain ==
  /\ at[Base] = "exited" /\ server = "alive" /\ EndsIdle /\ ~Idle
  /\ at' = [at EXCEPT ![Base] = "poll"]
  /\ m_quit' = [m_quit EXCEPT ![Base] = FALSE]
  /\ UNCHANGED <<poolVars, netVars, connVars, functors, ran, m_pendingFunctors,
                 endVars>>

\* ~TcpServer begins: m_connections goes.  No start() is in progress, and the
\* threads are in loop() (EventLoopThread shows what happens to one that is not).
destruct ==
  /\ at[Base] = "exited" /\ server = "alive" /\ (EndsIdle => Idle)
  /\ \A t \in Starters : ~Starting(t)
  /\ \A l \in Range(m_loops) : Running(l)
  /\ server' = "ending" /\ m_connections' = <<>>
  /\ UNCHANGED <<poolVars, netVars, accepted, m_next, m_nextConnId, conn, loopVars,
                 m_pendingFunctors, joined>>

\* Seeded fault: the threads are joined without being told to quit.
quitThread_not(l) ==
  /\ server = "ending" /\ l = joined + 1 /\ l <= Len(m_loops) /\ ~m_quit[l]
  /\ UNCHANGED vars

\* m_threads is destroyed from the front: each thread is told to quit, then joined.
quitThread(l) ==
  /\ server = "ending" /\ l = joined + 1 /\ l <= Len(m_loops) /\ ~m_quit[l]
  /\ m_quit' = [m_quit EXCEPT ![l] = TRUE]
  /\ UNCHANGED <<poolVars, netVars, connVars, at, functors, ran,
                 m_pendingFunctors, endVars>>

joinThread(l) ==
  /\ server = "ending" /\ l = joined + 1 /\ l <= Len(m_loops) /\ m_quit[l]
  /\ at[l] = "dead"
  /\ joined' = joined + 1
  /\ UNCHANGED <<poolVars, netVars, connVars, loopVars, m_pendingFunctors, server>>

\* ~Acceptor takes the listening socket out of the poller and closes it.
acceptorGoes ==
  /\ server = "ending" /\ joined = Len(m_loops)
  /\ server' = "gone" /\ m_listenning' = FALSE
  /\ UNCHANGED <<poolVars, arrived, left, connVars, loopVars, m_pendingFunctors,
                 joined>>

------------------------------------------------------------------------------
starterStep(t) == startLoop(t) \/ startLoopReturns(t) \/ runListen(t)

runFunctor(l) ==
  \E c \in Conns : connectEstablished(l, c) \/ connectDestroyed(l, c)

loopStep(l) ==
  publish(l) \/ loop(l) \/ takeFunctors(l) \/ runFunctor(l) \/ functorsDone(l)
  \/ destroyLoop(l)

baseStep == listen \/ (\E c \in Conns : removalRuns(c)) \/ loopAgain

endStep ==
  destruct \/ acceptorGoes \/ \E l \in Loops : quitThread(l) \/ joinThread(l)

Next ==
  \/ \E t \in Starters : startServer(t) \/ starterStep(t)
  \/ clientComes \/ acceptReady
  \/ \E c \in Conns : clientLeaves(c) \/ handleClose(c)
  \/ \E l \in Loops : loopStep(l)
  \/ baseStep \/ quit \/ endStep

(***************************************************************************)
(* Fairness.  Threads are scheduled, a poll reports what is ready, a thread *)
(* in start() goes on; the main thread goes on when loop() has returned;   *)
(* clients leave in the end.  Nobody has to come, to call start() or quit(). *)
(***************************************************************************)
Fairness ==
  /\ \A t \in Starters : WF_vars(starterStep(t))
  /\ \A l \in Loops : WF_vars(loopStep(l))
  /\ \A c \in Conns : WF_vars(clientLeaves(c)) /\ WF_vars(handleClose(c))
  /\ WF_vars(acceptReady) /\ WF_vars(baseStep) /\ WF_vars(endStep)

SafeSpec == Init /\ [][Next]_vars
Spec == SafeSpec /\ Fairness

------------------------------------------------------------------------------
(***************************************************************************)
(* Properties.                                                             *)
(***************************************************************************)

Functors ==
  {Functor("listen", 0)} \cup
    [op : {"establish", "remove", "destroy"}, conn : 1..accepted]

PoolTypes ==
  /\ m_numThreads \in 0..MaxThreads /\ m_started \in BOOLEAN
  /\ m_loops \in Seq(Loops) /\ \A i \in 1..Len(m_loops) : m_loops[i] = i
  /\ Len(m_loops) <= m_numThreads
  /\ start \in [Starters -> {"idle", "pool", "startLoop", "done"}]
  /\ m_next \in Nat /\ (m_next = 0 \/ m_next < Len(m_loops))

ConnTypes ==
  /\ m_listenning \in BOOLEAN
  /\ arrived \in 0..MaxConns /\ left \subseteq 1..arrived
  /\ accepted \in 0..arrived
  /\ m_nextConnId \in 1..IdRange
  /\ DOMAIN m_connections \subseteq 1..IdRange
  /\ Range(m_connections) \subseteq 1..accepted
  /\ conn \in [Conns -> [phase : Phases, ioLoop : Loops, name : 0..IdRange]]
  /\ \A c \in Conns : conn[c].phase = "none" <=> c > accepted

LoopTypes ==
  /\ at \in [Loops -> LoopPhases] /\ m_quit \in [Loops -> BOOLEAN]
  /\ server \in {"alive", "ending", "gone"} /\ joined \in 0..Len(m_loops)

QueueTypes ==
  /\ m_pendingFunctors \in [Loops -> Seq(Functors)]
  /\ functors \in [Loops -> Seq(Functors)]
  /\ ran \in [Loops -> Nat] /\ \A l \in Loops : ran[l] <= Len(functors[l])

\* The types; the cursor of the round robin is in m_loops.
TypeOK == PoolTypes /\ ConnTypes /\ LoopTypes /\ QueueTypes

\* "Thread-safe and idempotent" (TcpServer.h:93): whoever calls start(), the server
\* listens, or is told to, only when the pool is complete and nobody is still
\* adding to it; getNextLoop() reads m_loops without a lock.
AcceptsFromFullPool ==
  m_listenning \/ Functor("listen", 0) \in Queued[Base] =>
    Len(m_loops) = m_numThreads /\ \A t \in Starters : ~Starting(t)

\* Round robin (EventLoopThreadPool.h:52-59): each connection is in one of
\* getAllLoops(), and no loop gets two more of them than another.
Balanced ==
  LET Load(l) == Cardinality({c \in 1..accepted : conn[c].ioLoop = l})
  IN /\ \A c \in 1..accepted : conn[c].ioLoop \in Range(getAllLoops)
     /\ \A k, l \in Range(getAllLoops) : Load(k) - Load(l) <= 1

\* m_connections "stores all connections" (TcpServer.h:118): under its name, from
\* the accept to the removal in the base loop, wherever it has closed meanwhile.
StoresAll ==
  server = "alive" =>
    \A c \in 1..accepted :
      conn[c].phase \in {"connecting", "connected"}
        \/ Functor("remove", c) \in Waiting[Base]
      => conn[c].name \in DOMAIN m_connections /\ m_connections[conn[c].name] = c

\* connectDestroyed is "called when the connection is being torn down"
\* (TcpConnection.h:75-78): no connection is freed without it while its loop polls.
FreedIsRemoved ==
  \A c \in 1..accepted :
    Freed(c) /\ Running(conn[c].ioLoop) => conn[c].phase = "removed"

\* A client is accepted in the end, also one that found no descriptor free
\* (Acceptor.cpp:63-70), unless the base loop is quit.
EventuallyAccepted ==
  \A c \in Conns : (c <= arrived) ~> (c <= accepted \/ m_quit[Base])

\* EventLoopThreadPool.h:30, "ensures proper cleanup of all threads": ~TcpServer ends.
ServerEnds == server = "ending" ~> server = "gone"

\* A connection's stage as its server promises it.
Stage(c) ==
  CASE c > accepted -> "waiting"
    [] Freed(c) -> "released"
    [] conn[c].phase = "connecting" -> "accepted"
    [] conn[c].phase = "connected" -> "open"
    [] OTHER -> "closed"

Table == INSTANCE ConnectionTable WITH
  Limit <- MaxFds, stage <- [c \in Conns |-> Stage(c)]

\* The server implements ConnectionTable: order and limit of accepting, and every
\* close carried through both loops, up to the descriptor.
IsConnectionTable == Table!Spec

==============================================================================
