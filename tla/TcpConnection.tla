---------------------------- MODULE TcpConnection ----------------------------
(***************************************************************************)
(* One connection of a TcpServer (TcpConnection, with the parts of Channel *)
(* and TcpServer it goes through), from newConnection until the last       *)
(* TcpConnectionPtr is gone.                                               *)
(*                                                                         *)
(* Three kinds of threads take part.  The connection's loop polls its      *)
(* channel, calls the handlers, runs user callbacks and then the pending   *)
(* functors, a first-in first-out queue (what EventLoop is shown to be).   *)
(* The base loop takes the connection out of the server's map.  The user   *)
(* threads hold a TcpConnectionPtr and call send and shutdown, which test  *)
(* m_state first and queue a functor later.  A handler of the loop is one  *)
(* step: m_state and the queues are all it shares, and no handler reads    *)
(* m_state twice.                                                          *)
(*                                                                         *)
(* The process is assumed to ignore SIGPIPE, as sendInLoop's treatment of  *)
(* EPIPE takes for granted.                                                *)
(***************************************************************************)
EXTENDS Naturals, SequencesExt

CONSTANTS
  Users,           \* the user threads
  Messages,        \* what may be sent, each once, two bytes long
  HighWaterMark,   \* m_highWaterMark
  MaxIncoming,     \* bound on the chunks of data in the receive queue
  ShutdownOutside  \* do user threads call shutdown(), or only loop callbacks?

\* The loop's functors: send()'s, which stands for the message it carries, and
\* shutdown()'s capture a bare this; the others hold a TcpConnectionPtr.
Bare == Messages \cup {"shutdownInLoop"}
Notices == {"writeComplete", "highWaterMark"}
Functors == Bare \cup Notices \cup {"connectEstablished", "connectDestroyed"}

ASSUME ConnectionAssumption ==
  /\ Messages \cap (Notices \cup {"idle", "setState", "shutdown", "shutdownInLoop",
                                "connectEstablished", "connectDestroyed"}) = {}
  /\ HighWaterMark \in Nat /\ MaxIncoming \in Nat
  /\ ShutdownOutside \in BOOLEAN

VARIABLES
  m_state,           \* "Connecting", "Connected", "Disconnecting", "Disconnected"
  m_events,          \* the channel's interest
  watched,           \* is the channel in the epoll set (kStatusAdded)?
  m_outputBuffer,    \* bytes accepted and not written yet
  wire,              \* bytes the kernel took
  accepted,          \* history: the bytes of the messages sendInLoop took on
  lost,              \* history: the messages sendInLoop dropped on a write error
  finSent,           \* has the write end been shut down?
  soError,           \* does the socket hold an error (SO_ERROR)?
  peer,              \* "open", "fin" (it closed) or "rst" (it reset)
  incoming,          \* chunks in the socket's receive queue
  pc,                \* the loop: "poll", "handling" (handleEvent) or "functors"
  todo,              \* the channel callbacks of this handleEvent still to come
  inUser,            \* is the loop inside a user callback?
  m_pendingFunctors, \* the loop's queue
  functors,          \* what is left of the batch being run
  batchHolds,        \* does a functor of the batch hold a TcpConnectionPtr?
  baseQueue,         \* removeConnectionInLoop functors queued at the base loop
  sharedLoop,        \* is the connection's loop the base loop (no pool threads)?
  baseHolds,         \* is one that has run still in the base loop's batch?
  inMap,             \* is the connection in the server's m_connections?
  downs,             \* history: calls of m_connectionCallback for the close
  tpc,               \* per user thread: "idle", the message it is sending, or
                     \* where it is in shutdown
  holds,             \* the user threads that hold a TcpConnectionPtr
  unsent             \* the messages nobody has sent yet

channelVars == <<m_events, watched>>
streamVars  == <<m_outputBuffer, wire, accepted, lost>>
connVars    == <<m_state, channelVars, streamVars, downs>>
peerVars    == <<peer, incoming>>
socketVars  == <<finSent, soError, peerVars>>
batchVars   == <<pc, functors, batchHolds>>
loopVars    == <<batchVars, todo, inUser>>
baseVars    == <<sharedLoop, baseQueue, baseHolds, inMap>>
queueVars   == <<m_pendingFunctors, baseVars>>
userVars    == <<tpc, holds, unsent>>
vars == <<connVars, socketVars, loopVars, queueVars, userVars>>

Bytes(m) == <<<<m, 1>>, <<m, 2>>>>
Holding(fs) == ~(Range(fs) \subseteq Bare)

\* Somebody holds a TcpConnectionPtr; once nobody does, the connection is freed.
Referenced ==
  \/ inMap \/ baseQueue > 0 \/ baseHolds
  \/ pc = "handling"  \* the guard in Channel::handleEvent
  \/ batchHolds \/ Holding(m_pendingFunctors)
  \/ holds # {}

\* newConnection has put the connection in the map, and queued connectEstablished
\* at its loop; if that is the base loop, connectEstablished has run in place and
\* m_connectionCallback begins.
Init ==
  /\ sharedLoop \in BOOLEAN
  /\ m_state = IF sharedLoop THEN "Connected" ELSE "Connecting"
  /\ m_events = IF sharedLoop THEN {"IN"} ELSE {}
  /\ watched = sharedLoop
  /\ m_outputBuffer = <<>> /\ wire = <<>> /\ accepted = <<>> /\ lost = {}
  /\ finSent = FALSE /\ soError = FALSE
  /\ peer = "open" /\ incoming = 0
  /\ pc = IF sharedLoop THEN "handling" ELSE "poll"
  /\ todo = <<>> /\ inUser = sharedLoop
  /\ m_pendingFunctors = IF sharedLoop THEN <<>> ELSE <<"connectEstablished">>
  /\ functors = <<>> /\ batchHolds = FALSE
  /\ baseQueue = 0 /\ baseHolds = FALSE /\ inMap = TRUE
  /\ downs = 0
  /\ tpc = [u \in Users |-> "idle"]
  /\ holds = IF sharedLoop THEN Users ELSE {}
  /\ unsent = Messages

\* Every change of interest goes to the poller, which takes a channel out of the
\* epoll set only if it was there and has lost its last interest (EPollPoller).
setEvents(events) ==
  /\ m_events' = events
  /\ watched' = ~(watched /\ events = {})

isWriting == "OUT" \in m_events
queue(fs) == m_pendingFunctors' = m_pendingFunctors \o fs

------------------------------------------------------------------------------
(***************************************************************************)
(* sendInLoop, shutdownInLoop and handleClose, as parts of steps.          *)
(***************************************************************************)

\* A write on the socket fails (EPIPE, ECONNRESET).
writeFails == finSent \/ peer = "rst"

\* Seeded fault: the direct write does not look at the output buffer.
writesDirectly_always == TRUE
writesDirectly == ~isWriting /\ m_outputBuffer = <<>>

\* Seeded fault: writing is not enabled for what was left over.
enableWriting_forgotten(remaining) == UNCHANGED channelVars

\* What is left over has writing enabled.
enableWriting(remaining) ==
  IF remaining > 0 /\ ~isWriting THEN setEvents(m_events \cup {"OUT"})
  ELSE UNCHANGED channelVars

\* The callbacks sendInLoop queues: everything was written at once, or the
\* output buffer grows over the mark.
notices(remaining) ==
  LET old == Len(m_outputBuffer) IN
    IF remaining = 0 THEN <<"writeComplete">>
    ELSE IF old + remaining >= HighWaterMark /\ old < HighWaterMark
         THEN <<"highWaterMark">> ELSE <<>>

\* The first n bytes of the message are written, the rest is buffered.
sendPart(m, n) ==
  LET remaining == Len(Bytes(m)) - n IN
    /\ n > 0 => writesDirectly
    /\ wire' = wire \o SubSeq(Bytes(m), 1, n)
    /\ m_outputBuffer' = m_outputBuffer \o SubSeq(Bytes(m), n + 1, Len(Bytes(m)))
    /\ accepted' = accepted \o Bytes(m)
    /\ enableWriting(remaining)
    /\ queue(notices(remaining))
    /\ UNCHANGED <<lost, soError>>

\* The direct write fails and the message is dropped.
sendFault(m) ==
  /\ lost' = lost \cup {m}
  /\ soError' = FALSE
  /\ UNCHANGED <<channelVars, m_outputBuffer, wire, accepted, m_pendingFunctors>>

\* Seeded fault: the message is taken on whatever the state.
sendInLoop_always(m) ==
  IF writesDirectly /\ writeFails THEN sendFault(m)
  ELSE \E n \in 0..Len(Bytes(m)) : sendPart(m, n)

\* Seeded fault: a full socket (EWOULDBLOCK) is taken for an error.
sendInLoop_dropsWhenFull(m) ==
  IF m_state = "Disconnected"
  THEN UNCHANGED <<channelVars, streamVars, soError, m_pendingFunctors>>
  ELSE \/ writesDirectly /\ sendFault(m)
       \/ ~(writesDirectly /\ writeFails) /\ \E n \in 0..Len(Bytes(m)) : sendPart(m, n)

sendInLoop(m) ==
  IF m_state = "Disconnected"
  THEN UNCHANGED <<channelVars, streamVars, soError, m_pendingFunctors>>
  ELSE IF writesDirectly /\ writeFails THEN sendFault(m)
  ELSE \E n \in 0..Len(Bytes(m)) : sendPart(m, n)

\* Seeded fault: the write end is shut down over a full buffer.
shutdownInLoop_atOnce == finSent' = TRUE

\* shutdownInLoop(): half-close unless there is still something to write.
shutdownInLoop == finSent' = (finSent \/ ~isWriting)

\* handleClose(): the state, the channel, m_connectionCallback (in which send and
\* shutdown find the connection Disconnected and do nothing), and the server's
\* removeConnection, which runs in place if the loop is the base loop.
handleClose ==
  /\ m_state' = "Disconnected"
  /\ setEvents({})
  /\ downs' = downs + 1
  /\ IF sharedLoop
     THEN inMap' = FALSE /\ queue(<<"connectDestroyed">>) /\ UNCHANGED baseQueue
     ELSE baseQueue' = baseQueue + 1 /\ UNCHANGED <<inMap, m_pendingFunctors>>
  /\ UNCHANGED <<streamVars, sharedLoop, baseHolds>>

------------------------------------------------------------------------------
(***************************************************************************)
(* The loop polls and calls handleEvent on the channel.                    *)
(***************************************************************************)

\* What holds of the socket now.  Room in the send queue comes and goes.
Conditions ==
  UNION {IF incoming > 0 \/ peer # "open" THEN {"IN"} ELSE {},
         IF soError THEN {"ERR"} ELSE {},
         IF peer = "rst" \/ (peer = "fin" /\ finSent) THEN {"HUP"} ELSE {}}

callIf(e, condition) == IF condition THEN <<e>> ELSE <<>>

\* Seeded fault: a hang-up closes the connection before it is read to its end.
Dispatch_closesFirst(revents) ==
  callIf("HUP", "HUP" \in revents) \o callIf("ERR", "ERR" \in revents)
    \o callIf("IN", "IN" \in revents) \o callIf("OUT", "OUT" \in revents)

\* The callbacks handleEventWithGuard makes, in its order.
Dispatch(revents) ==
  callIf("HUP", "HUP" \in revents /\ "IN" \notin revents)
    \o callIf("ERR", "ERR" \in revents)
    \o callIf("IN", "IN" \in revents) \o callIf("OUT", "OUT" \in revents)

pollReports(room) ==
  LET revents == (Conditions \cup room) \cap (m_events \cup {"ERR", "HUP"}) IN
    /\ pc = "poll" /\ watched /\ Referenced
    /\ revents # {}
    /\ pc' = "handling"
    /\ todo' = Dispatch(revents)
    /\ UNCHANGED <<connVars, socketVars, inUser, functors, batchHolds, queueVars, userVars>>

poll == \E room \in SUBSET {"OUT"} : pollReports(room)

\* Seeded fault: the pending functors are copied into the batch and not cleared.
takeFunctors_copied ==
  /\ pc \in {"poll", "handling"} /\ todo = <<>> /\ ~inUser
  /\ pc' = "functors"
  /\ functors' = m_pendingFunctors
  /\ batchHolds' = Holding(m_pendingFunctors)
  /\ UNCHANGED <<connVars, socketVars, todo, inUser, queueVars, userVars>>

\* The poll returns without this channel, or handleEvent is over: the batch of
\* pending functors is taken.
takeFunctors ==
  /\ pc \in {"poll", "handling"} /\ todo = <<>> /\ ~inUser
  /\ pc' = "functors"
  /\ functors' = m_pendingFunctors
  /\ batchHolds' = Holding(m_pendingFunctors)
  /\ m_pendingFunctors' = <<>>
  /\ UNCHANGED <<connVars, socketVars, todo, inUser, baseVars, userVars>>

\* The next callback of handleEventWithGuard is that for event e.
callback(e) ==
  /\ pc = "handling" /\ ~inUser
  /\ todo # <<>> /\ Head(todo) = e
  /\ todo' = Tail(todo)
  /\ UNCHANGED <<batchVars, userVars>>

\* The close callback: a hang-up with nothing to read.
closeCallback ==
  /\ callback("HUP")
  /\ handleClose
  /\ UNCHANGED <<socketVars, inUser>>

\* handleError fetches, and thereby clears, SO_ERROR.
handleError ==
  /\ callback("ERR")
  /\ soError' = FALSE
  /\ UNCHANGED <<connVars, finSent, peerVars, inUser, queueVars>>

\* Seeded fault: the end of the stream is handed on as a message.
handleRead_atEnd ==
  /\ callback("IN")
  /\ incoming' = incoming - 1
  /\ inUser' = TRUE
  /\ UNCHANGED <<connVars, finSent, soError, peer, queueVars>>

\* handleRead with n > 0: m_messageCallback begins.
handleRead ==
  /\ callback("IN")
  /\ incoming > 0
  /\ incoming' = incoming - 1
  /\ inUser' = TRUE
  /\ UNCHANGED <<connVars, finSent, soError, peer, queueVars>>

\* Seeded fault: the end of the stream is not taken for a close.
handleReadEof_ignored ==
  /\ callback("IN")
  /\ incoming = 0 /\ ~soError
  /\ UNCHANGED <<connVars, socketVars, inUser, queueVars>>

\* handleRead with n = 0: the peer has closed.
handleReadEof ==
  /\ callback("IN")
  /\ incoming = 0 /\ ~soError
  /\ handleClose
  /\ UNCHANGED <<socketVars, inUser>>

\* handleRead with n < 0: the read takes the error, handleError only logs it.
handleReadError ==
  /\ callback("IN")
  /\ incoming = 0 /\ soError
  /\ soError' = FALSE
  /\ UNCHANGED <<connVars, finSent, peerVars, inUser, queueVars>>

\* Seeded fault: a shutdown that had to wait is forgotten.
bufferEmptied_noShutdown ==
  /\ setEvents(m_events \ {"OUT"})
  /\ queue(<<"writeComplete">>)
  /\ UNCHANGED finSent

\* handleWrite, once everything is written: writing is disabled, writeComplete
\* queued, and a shutdown that had to wait is done.
bufferEmptied ==
  /\ setEvents(m_events \ {"OUT"})
  /\ queue(<<"writeComplete">>)
  /\ finSent' = (finSent \/ m_state = "Disconnecting")

\* handleWrite: some of the output buffer is written.
handleWrite ==
  /\ callback("OUT")
  /\ isWriting /\ ~writeFails
  /\ \E n \in 1..Len(m_outputBuffer) :
       /\ wire' = wire \o SubSeq(m_outputBuffer, 1, n)
       /\ m_outputBuffer' = SubSeq(m_outputBuffer, n + 1, Len(m_outputBuffer))
  /\ IF m_outputBuffer' = <<>> THEN bufferEmptied
     ELSE UNCHANGED <<channelVars, m_pendingFunctors, finSent>>
  /\ UNCHANGED <<m_state, accepted, lost, downs, soError, peerVars, inUser, baseVars>>

\* handleWrite when writing was disabled earlier in this handleEvent, when the
\* write fails, or when there is nothing to write: it only logs.
handleWriteNothing ==
  /\ callback("OUT")
  /\ ~isWriting \/ writeFails \/ m_outputBuffer = <<>>
  /\ soError' = (soError /\ ~(isWriting /\ writeFails))
  /\ UNCHANGED <<connVars, finSent, peerVars, inUser, queueVars>>

------------------------------------------------------------------------------
(***************************************************************************)
(* The loop runs the batch of pending functors.                            *)
(***************************************************************************)

\* Seeded fault: the batch is taken from its end.
functor_last(f) ==
  /\ pc = "functors" /\ ~inUser
  /\ functors # <<>> /\ Last(functors) = f
  /\ functors' = Front(functors)
  /\ UNCHANGED <<pc, batchHolds, todo, tpc, unsent>>

functor(f) ==
  /\ pc = "functors" /\ ~inUser
  /\ functors # <<>> /\ Head(functors) = f
  /\ functors' = Tail(functors)
  /\ UNCHANGED <<pc, batchHolds, todo, tpc, unsent>>

\* m_connectionCallback hands the connection to the user threads.
connectEstablished ==
  /\ functor("connectEstablished")
  /\ m_state' = "Connected"
  /\ setEvents(m_events \cup {"IN"})
  /\ inUser' = TRUE
  /\ holds' = Users
  /\ UNCHANGED <<streamVars, downs, socketVars, queueVars>>

\* connectDestroyed(): its first half is for a connection nobody has closed,
\* which the server as it is never passes to it.
connectDestroyed ==
  /\ functor("connectDestroyed")
  /\ watched' = FALSE
  /\ IF m_state = "Connected"
     THEN m_state' = "Disconnected" /\ m_events' = {} /\ downs' = downs + 1
     ELSE UNCHANGED <<m_state, m_events, downs>>
  /\ UNCHANGED <<streamVars, socketVars, inUser, queueVars, holds>>

\* m_writeCompleteCallback or m_highWaterMarkCallback begins.
noticeFunctor ==
  /\ \E f \in Notices : functor(f)
  /\ inUser' = TRUE
  /\ UNCHANGED <<connVars, socketVars, queueVars, holds>>

\* The functor of send().
sendFunctor(m) ==
  /\ functor(m) /\ Referenced
  /\ sendInLoop(m)
  /\ UNCHANGED <<m_state, downs, finSent, peerVars, inUser, baseVars, holds>>

\* The functor of shutdown().
shutdownFunctor ==
  /\ functor("shutdownInLoop") /\ Referenced
  /\ shutdownInLoop
  /\ UNCHANGED <<connVars, soError, peerVars, inUser, queueVars, holds>>

\* A functor with a bare this runs after the connection was freed: what it does
\* is undefined, here nothing.
functorOfFreed ==
  /\ ~Referenced
  /\ \E f \in Bare : functor(f)
  /\ UNCHANGED <<connVars, socketVars, inUser, queueVars, holds>>

\* The batch is done and its functors are destroyed.
functorsDone ==
  /\ pc = "functors" /\ functors = <<>> /\ ~inUser
  /\ pc' = "poll"
  /\ batchHolds' = FALSE
  /\ UNCHANGED <<connVars, socketVars, todo, inUser, functors, queueVars, userVars>>

------------------------------------------------------------------------------
(***************************************************************************)
(* User callbacks in the loop's thread.                                    *)
(***************************************************************************)

\* send() in the loop's thread.
send_own(m) ==
  /\ inUser /\ m_state = "Connected" /\ m \in unsent
  /\ unsent' = unsent \ {m}
  /\ sendInLoop(m)
  /\ UNCHANGED <<m_state, downs, finSent, peerVars, loopVars, baseVars, tpc, holds>>

\* shutdown() in the loop's thread.
shutdown_own ==
  /\ inUser /\ m_state = "Connected"
  /\ m_state' = "Disconnecting"
  /\ shutdownInLoop
  /\ UNCHANGED <<channelVars, streamVars, downs, soError, peerVars, loopVars,
                 queueVars, userVars>>

callbackReturns ==
  /\ inUser
  /\ inUser' = FALSE
  /\ UNCHANGED <<connVars, socketVars, batchVars, todo, queueVars, userVars>>

------------------------------------------------------------------------------
(***************************************************************************)
(* The base loop.                                                          *)
(***************************************************************************)

\* removeConnectionInLoop; the functor keeps its TcpConnectionPtr for a while.
removeConnectionInLoop ==
  /\ baseQueue > 0
  /\ baseQueue' = baseQueue - 1
  /\ baseHolds' = TRUE
  /\ inMap' = FALSE
  /\ queue(<<"connectDestroyed">>)
  /\ UNCHANGED <<connVars, socketVars, loopVars, sharedLoop, userVars>>

\* The base loop's batch is destroyed.
baseBatchDone ==
  /\ baseHolds
  /\ baseHolds' = FALSE
  /\ UNCHANGED <<connVars, socketVars, loopVars, m_pendingFunctors, sharedLoop,
                 baseQueue, inMap, userVars>>

------------------------------------------------------------------------------
(***************************************************************************)
(* The user threads.                                                       *)
(***************************************************************************)

\* A thread that holds the connection finds m_state Connected and goes on.
goesOn(u, to) ==
  /\ u \in holds /\ tpc[u] = "idle"
  /\ m_state = "Connected"
  /\ tpc' = [tpc EXCEPT ![u] = to]
  /\ UNCHANGED <<connVars, socketVars, loopVars, queueVars, holds>>

\* The functor is queued, the call is over.
queues(u, f) ==
  /\ queue(<<f>>)
  /\ tpc' = [tpc EXCEPT ![u] = "idle"]
  /\ UNCHANGED <<connVars, socketVars, loopVars, baseVars, holds, unsent>>

\* send(): the test, and the functor.
send(u, m) == m \in unsent /\ goesOn(u, m) /\ unsent' = unsent \ {m}
send_queue(u) == tpc[u] \in Messages /\ queues(u, tpc[u])

\* shutdown(): the test, setState(Disconnecting), and the functor.
shutdown(u) == ShutdownOutside /\ goesOn(u, "setState") /\ UNCHANGED unsent
shutdown_setState(u) ==
  /\ tpc[u] = "setState"
  /\ m_state' = "Disconnecting"
  /\ tpc' = [tpc EXCEPT ![u] = "shutdown"]
  /\ UNCHANGED <<channelVars, streamVars, downs, socketVars, loopVars, queueVars,
                 holds, unsent>>
shutdown_queue(u) == tpc[u] = "shutdown" /\ queues(u, "shutdownInLoop")

\* A user thread gives its TcpConnectionPtr up.
drop(u) ==
  /\ u \in holds /\ tpc[u] = "idle"
  /\ holds' = holds \ {u}
  /\ UNCHANGED <<connVars, socketVars, loopVars, queueVars, tpc, unsent>>

------------------------------------------------------------------------------
(***************************************************************************)
(* The peer.                                                               *)
(***************************************************************************)

peerSends ==
  /\ peer = "open" /\ incoming < MaxIncoming
  /\ incoming' = incoming + 1
  /\ UNCHANGED <<connVars, finSent, soError, peer, loopVars, queueVars, userVars>>

peerCloses ==
  /\ peer = "open"
  /\ peer' = "fin"
  /\ UNCHANGED <<connVars, finSent, soError, incoming, loopVars, queueVars, userVars>>

peerResets ==
  /\ peer # "rst" /\ Referenced
  /\ peer' = "rst"
  /\ soError' = TRUE
  /\ UNCHANGED <<connVars, finSent, incoming, loopVars, queueVars, userVars>>

------------------------------------------------------------------------------
\* What the loop's thread does of its own accord.
LoopStep ==
  \/ poll \/ takeFunctors
  \/ closeCallback \/ handleError
  \/ handleRead \/ handleReadEof \/ handleReadError
  \/ handleWrite \/ handleWriteNothing
  \/ connectEstablished \/ connectDestroyed \/ noticeFunctor
  \/ \E m \in Messages : sendFunctor(m)
  \/ shutdownFunctor \/ functorOfFreed \/ functorsDone
  \/ callbackReturns

BaseStep == removeConnectionInLoop \/ baseBatchDone

\* The rest of a send or shutdown that was begun.
UserStep(u) == send_queue(u) \/ shutdown_setState(u) \/ shutdown_queue(u)

Next ==
  \/ LoopStep
  \/ BaseStep
  \/ \E m \in Messages : send_own(m)
  \/ shutdown_own
  \/ \E u \in Users :
       \/ UserStep(u) \/ shutdown(u) \/ drop(u)
       \/ \E m \in Messages : send(u, m)
  \/ peerSends \/ peerCloses \/ peerResets

(***************************************************************************)
(* Fairness.  Both loops run, user callbacks and user calls return, and    *)
(* epoll_wait reports a channel that is ready again and again.  For        *)
(* "OUT" that means a peer that goes on reading.  User threads give the    *)
(* connection up in the end.                                               *)
(***************************************************************************)
Fairness ==
  /\ WF_vars(LoopStep)
  /\ SF_vars(pollReports({}))
  /\ SF_vars(pollReports({"OUT"}))
  /\ WF_vars(BaseStep)
  /\ \A u \in Users : WF_vars(UserStep(u)) /\ SF_vars(drop(u))

SafeSpec == Init /\ [][Next]_vars
Spec == SafeSpec /\ Fairness

------------------------------------------------------------------------------
(***************************************************************************)
(* Properties.                                                             *)
(***************************************************************************)

States == {"Connecting", "Connected", "Disconnecting", "Disconnected"}

ConnTypes ==
  /\ m_state \in States
  /\ m_events \subseteq {"IN", "OUT"} /\ watched \in BOOLEAN
  /\ downs \in Nat

StreamTypes ==
  /\ {m_outputBuffer, wire, accepted} \subseteq Seq(Messages \X {1, 2})
  /\ lost \subseteq Messages

SocketTypes ==
  /\ finSent \in BOOLEAN /\ soError \in BOOLEAN
  /\ peer \in {"open", "fin", "rst"} /\ incoming \in 0..MaxIncoming

LoopTypes ==
  /\ pc \in {"poll", "handling", "functors"}
  /\ todo \in Seq({"HUP", "ERR", "IN", "OUT"}) /\ inUser \in BOOLEAN
  /\ functors \in Seq(Functors) /\ batchHolds \in BOOLEAN
  /\ Holding(functors) => batchHolds

QueueTypes ==
  /\ m_pendingFunctors \in Seq(Functors)
  /\ sharedLoop \in BOOLEAN /\ baseQueue \in Nat /\ baseHolds \in BOOLEAN /\ inMap \in BOOLEAN

UserTypes ==
  /\ tpc \in [Users -> Messages \cup {"idle", "setState", "shutdown"}]
  /\ holds \subseteq Users /\ unsent \subseteq Messages
  /\ \A u \in Users : tpc[u] # "idle" => u \in holds

\* The types; only a referenced connection is handled or called.
TypeOK ==
  ConnTypes /\ StreamTypes /\ SocketTypes /\ LoopTypes /\ QueueTypes /\ UserTypes

\* The functors the loop has still to run, in their order.
Line == functors \o m_pendingFunctors

\* The messages that sendInLoop has taken on.
TakenOn == {m \in Messages : <<m, 1>> \in Range(accepted)}

WrittenInOrder == wire \o m_outputBuffer = accepted

TakenOnOnce ==
  /\ IsInjective(accepted)
  /\ \A m \in lost : <<m, 1>> \notin Range(accepted)

\* The bytes on the wire followed by those in the output buffer are the
\* messages taken on, in the order they were taken on: nothing is lost, doubled
\* or overtaken between sendInLoop's direct write (TcpConnection.cpp:92-117), its
\* buffer (131) and handleWrite (211-215).  Each send() is carried to sendInLoop
\* once, by its functor (69-74) or in place: no message is taken on twice, or
\* after it was dropped.
StreamIsIntact == WrittenInOrder /\ TakenOnOnce

Before(s, a, b) == \E i, j \in DOMAIN s : i < j /\ s[i] = a /\ s[j] = b

\* Message m was queued or taken on before n.
Ahead(m, n) ==
  \/ Before(accepted, <<m, 1>>, <<n, 1>>)
  \/ m \in TakenOn /\ n \in Range(Line)
  \/ Before(Line, m, n)

\* Messages never change places: neither the queue and its swap, nor the batch, nor
\* the direct write of a callback lets a message overtake one that was ahead of it.
MessagesKeepOrder ==
  [][\A m, n \in Messages : Ahead(m, n) => ~Ahead(n, m)']_vars

\* While the connection is up, the poller is asked for writability exactly when
\* something waits to be written: nothing is stuck, and there is no busy loop.
WritingIffBuffered ==
  m_state \in {"Connected", "Disconnecting"} /\ downs = 0 =>
    (isWriting <=> m_outputBuffer # <<>>)

\* The write end is shut down only when the output buffer is written
\* (shutdownInLoop waits for handleWrite, TcpConnection.cpp:150, 225-228), or the
\* connection was closed before.  Of messages that are still queued it says
\* nothing: see GracefulShutdown.
BufferedBeforeFin == finSent => m_outputBuffer = <<>> \/ downs > 0

\* Once a message was dropped on a write error, nothing more is written, so that the
\* peer never reads a stream with a gap in it: an error the direct write drops a
\* message for (TcpConnection.cpp:105-116) is one for good, and handleWrite and
\* later sends meet it too.
StreamHasNoGap == [][lost # {} => wire' = wire]_vars

\* What the server sees of the connection: m_state, the calls of
\* m_connectionCallback for the close, and whether the last reference is gone.
stage ==
  CASE m_state = "Connecting" /\ downs = 0 -> "accepted"
    [] m_state \in {"Connected", "Disconnecting"} /\ downs = 0 -> "open"
    [] m_state = "Disconnected" /\ downs = 1 /\ Referenced -> "closed"
    [] m_state = "Disconnected" /\ downs = 1 /\ ~Referenced -> "released"
    [] OTHER -> "none"

Table == INSTANCE ConnectionTable WITH
  Conns <- {1}, Limit <- 1, stage <- [c \in {1} |-> stage]

\* The setState(Disconnecting) of a thread in shutdown() has followed handleClose's
\* setState(Disconnected).
overwritten == downs = 1 /\ m_state = "Disconnecting"

\* The connection is one of a ConnectionTable that has just been accepted: it is
\* established, announced down and given back, once each and in this order, and
\* never comes back (setState, the handlers, TcpConnection.cpp:163-245), which is
\* how TcpServer sees it.  The race in shutdown() (141-143) is the one way out.
IsTableConnection ==
  /\ stage \in {"accepted", "open"}
  /\ [][Table!Next \/ overwritten']_stage

\* A hang-up or reset does not lose what the peer sent before it: the connection
\* is closed only when the receive queue is read to its end (Channel.cpp:58).
ReadToTheEnd ==
  [][downs' > downs => incoming = 0]_vars

\* When the last TcpConnectionPtr of a connection that kept to the table goes, the
\* channel is out of the poller: what EPollPoller takes for granted (RemovesFirst).
FreedIsRemoved == stage = "released" => ~watched

\* What was taken on is written in the end, unless the connection closes.
EventuallyWritten ==
  m_outputBuffer # <<>> ~> (m_outputBuffer = <<>> \/ downs > 0)

\* A shutdown() that has set the state is carried out, unless the connection closes.
EventuallyShutDown ==
  m_state = "Disconnecting" ~> (finSent \/ downs > 0)

\* When the peer closes or resets, the connection is taken out of the map and the
\* poller, and freed: the handlers, the base loop and the functors leave no
\* reference behind.
EventuallyFreed == peer # "open" ~> ~Referenced

------------------------------------------------------------------------------
(***************************************************************************)
(* What comments and documentation say and the code does not do.           *)
(***************************************************************************)

\* TcpConnection.cpp:84, "If the connection is already disconnected, give up
\* writing": once the close was announced, nothing is taken on any more.
GivesUpWriting ==
  [][downs > 0 => accepted' = accepted /\ lost' = lost]_vars

\* The messages whose functors are ahead of the first shutdown's.
SentBeforeShutdown ==
  LET first == SelectInSeq(Line, LAMBDA f : f = "shutdownInLoop")
  IN  Range(SubSeq(Line, 1, first)) \cap Messages

\* TcpConnection.h:89, "Gracefully closes the write end of the connection": the
\* write end of a connection that is up is shut down only when what was sent
\* before the shutdown has been taken on.
GracefulShutdown ==
  [][finSent' /\ ~finSent /\ downs = 0 => SentBeforeShutdown = {}]_vars

\* Channel.h:68, "a object which's lifetime is managed by outside, like
\* TCPConnection": the functors of send() and shutdown() (TcpConnection.cpp:71,
\* 144) run on a connection that is there.
FunctorsFindConnection ==
  [][pc = "functors" /\ functors' # functors /\ Head(functors) \in Bare => Referenced]_vars

==============================================================================
