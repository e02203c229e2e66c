------------------------- MODULE TcpConnectionProofs -------------------------
(***************************************************************************)
(* Proofs about TcpConnection, for any user threads, messages, high-water  *)
(* mark and number of incoming chunks.                                     *)
(***************************************************************************)
EXTENDS TcpConnection, SequenceTheorems, TLAPS

Byte == Messages \X {1, 2}
Callbacks == {"HUP", "ERR", "IN", "OUT"}

------------------------------------------------------------------------------
(***************************************************************************)
(* Sequences.                                                              *)
(***************************************************************************)

\* What is in a sequence that is taken from its front.
LEMMA RangeTail ==
  ASSUME NEW S, NEW s \in Seq(S), s # <<>>
  PROVE  /\ Head(s) \in S /\ Tail(s) \in Seq(S)
         /\ Range(s) = {Head(s)} \cup Range(Tail(s))
<1>1. /\ Head(s) \in S /\ Tail(s) \in Seq(S) /\ <<Head(s)>> \in Seq(S)
      /\ s = <<Head(s)>> \o Tail(s)
  OBVIOUS
<1>2. Range(<<Head(s)>>) = {Head(s)}
  BY DEF Range
<1> DEFINE h == <<Head(s)>>
           t == Tail(s)
<1>3. h \in Seq(S) /\ t \in Seq(S) /\ s = h \o t
  BY <1>1
<1> HIDE DEF h, t
<1>4. Range(h \o t) = Range(h) \cup Range(t)
  BY ONLY <1>3, RangeConcatenation
<1> QED
  BY <1>1, <1>2, <1>3, <1>4 DEF h, t

\* A sequence cut in two.
LEMMA Cut ==
  ASSUME NEW S, NEW s \in Seq(S), NEW n \in 0..Len(s)
  PROVE  /\ SubSeq(s, 1, n) \in Seq(S) /\ SubSeq(s, n + 1, Len(s)) \in Seq(S)
         /\ SubSeq(s, 1, n) \o SubSeq(s, n + 1, Len(s)) = s
         /\ n < Len(s) => SubSeq(s, n + 1, Len(s)) # <<>>
<1>1. Len(s) \in Nat /\ \A i \in 1..Len(s) : s[i] \in S
  BY LenProperties
<1>2. /\ SubSeq(s, 1, n) \in Seq(S) /\ Len(SubSeq(s, 1, n)) = n
      /\ SubSeq(s, n + 1, Len(s)) \in Seq(S) /\ Len(SubSeq(s, n + 1, Len(s))) = Len(s) - n
  BY <1>1, SubSeqProperties
<1>3. SubSeq(s, 1, n) \o SubSeq(s, n + 1, Len(s)) = SubSeq(s, 1, Len(s))
  <2>1. 1 \in 1..Len(s) + 1 /\ n \in 1 - 1..Len(s) /\ Len(s) \in n..Len(s)
    BY <1>1
  <2> QED
    BY <2>1, ConcatAdjacentSubSeq
<1>4. SubSeq(s, 1, Len(s)) = s
  BY SubSeqFull
<1>5. \A t \in Seq(S) : Len(t) > 0 => t # <<>>
  OBVIOUS
<1>6. n < Len(s) => SubSeq(s, n + 1, Len(s)) # <<>>
  <2>1. n < Len(s) => Len(SubSeq(s, n + 1, Len(s))) > 0
    BY <1>1, <1>2
  <2> QED
    BY <1>2, <1>5, <2>1
<1> QED
  BY <1>1, <1>2, <1>3, <1>4, <1>6

\* Bytes can be moved between three streams that follow each other.
Regroups(s, t, u) == (s \o t) \o u = s \o (t \o u)

LEMMA Regroup ==
  ASSUME NEW S, NEW s \in Seq(S), NEW t \in Seq(S), NEW u \in Seq(S)
  PROVE  Regroups(s, t, u)
  BY DEF Regroups

------------------------------------------------------------------------------
(***************************************************************************)
(* Types.                                                                  *)
(***************************************************************************)

\* The bytes of a message.
LEMMA BytesType ==
  ASSUME NEW m \in Messages
  PROVE  Bytes(m) \in Seq(Byte) /\ Len(Bytes(m)) = 2
  BY DEF Bytes, Byte

\* What handleEventWithGuard makes of the events.
LEMMA DispatchType ==
  ASSUME NEW revents
  PROVE  Dispatch(revents) \in Seq(Callbacks)
<1> DEFINE d == callIf("HUP", "HUP" \in revents /\ "IN" \notin revents)
           e == callIf("ERR", "ERR" \in revents)
           i == callIf("IN", "IN" \in revents)
           o == callIf("OUT", "OUT" \in revents)
<1>1. /\ d \in Seq(Callbacks) /\ e \in Seq(Callbacks)
      /\ i \in Seq(Callbacks) /\ o \in Seq(Callbacks)
  <2>1. /\ <<>> \in Seq(Callbacks) /\ <<"HUP">> \in Seq(Callbacks)
        /\ <<"ERR">> \in Seq(Callbacks) /\ <<"IN">> \in Seq(Callbacks)
        /\ <<"OUT">> \in Seq(Callbacks)
    BY DEF Callbacks
  <2> QED
    BY <2>1, Zenon DEF callIf
<1>2. Dispatch(revents) = ((d \o e) \o i) \o o
  BY DEF Dispatch
<1> HIDE DEF d, e, i, o
<1> QED
  BY <1>1, <1>2

\* A connection in the map, announced or about to be.
LEMMA TypeInit == Init => TypeOK
<1> SUFFICES ASSUME Init PROVE TypeOK
  OBVIOUS
<1>1. ConnTypes /\ StreamTypes
  BY DEF Init, ConnTypes, StreamTypes, States
<1>2. SocketTypes
  <2>1. finSent = FALSE /\ soError = FALSE /\ peer = "open" /\ incoming = 0
    BY DEF Init
  <2>2. MaxIncoming \in Nat
    BY ConnectionAssumption
  <2>3. incoming \in 0..MaxIncoming
    BY <2>1, <2>2
  <2> QED
    BY <2>1, <2>3 DEF SocketTypes
<1>5. UserTypes
  <2>1. /\ tpc = [u \in Users |-> "idle"] /\ unsent = Messages
        /\ holds \subseteq Users
    BY DEF Init
  <2> QED
    BY <2>1 DEF UserTypes
<1>3. LoopTypes
  <2>1. functors = <<>> /\ todo = <<>> /\ batchHolds = FALSE
    BY DEF Init
  <2>2. ~Holding(functors)
    BY <2>1 DEF Holding, Range
  <2>3. functors \in Seq(Functors) /\ todo \in Seq({"HUP", "ERR", "IN", "OUT"})
    BY <2>1
  <2> QED
    BY <2>1, <2>2, <2>3 DEF Init, LoopTypes
<1>4. QueueTypes
  <2>1. <<>> \in Seq(Functors) /\ <<"connectEstablished">> \in Seq(Functors)
    BY DEF Functors
  <2> QED
    BY <2>1 DEF Init, QueueTypes
<1> QED
  BY <1>1, <1>2, <1>3, <1>4, <1>5 DEF TypeOK

\* Changes of interest.
LEMMA SetEventsTypes ==
  ASSUME NEW events \in SUBSET {"IN", "OUT"}, setEvents(events)
  PROVE  m_events' \subseteq {"IN", "OUT"} /\ watched' \in BOOLEAN
  BY Zenon DEF setEvents

\* Callbacks that are queued.
LEMMA QueueGrows ==
  ASSUME NEW fs \in Seq(Functors), m_pendingFunctors \in Seq(Functors), queue(fs)
  PROVE  /\ m_pendingFunctors' \in Seq(Functors)
         /\ Range(m_pendingFunctors') = Range(m_pendingFunctors) \cup Range(fs)
  BY ConcatProperties, RangeConcatenation DEF queue

\* The notices are functors.
LEMMA NoticesType ==
  ASSUME NEW r
  PROVE  notices(r) \in Seq(Functors) /\ Range(notices(r)) \subseteq Notices
<1>1. /\ <<>> \in Seq(Functors) /\ Range(<<>>) = {}
      /\ \A f \in Notices : <<f>> \in Seq(Functors) /\ Range(<<f>>) = {f}
  BY DEF Functors, Range
<1>2. notices(r) = <<>> \/ \E f \in Notices : notices(r) = <<f>>
  BY DEF notices, Notices
<1> QED
  BY <1>1, <1>2

\* What sendInLoop leaves in the variables it changes.
LEMMA SendTypes ==
  ASSUME ConnTypes, StreamTypes, soError \in BOOLEAN,
         m_pendingFunctors \in Seq(Functors), NEW m \in Messages, sendInLoop(m)
  PROVE  /\ m_events' \subseteq {"IN", "OUT"} /\ watched' \in BOOLEAN
         /\ StreamTypes' /\ soError' \in BOOLEAN
         /\ m_pendingFunctors' \in Seq(Functors)
         /\ \A f \in Range(m_pendingFunctors') :
              f \in Range(m_pendingFunctors) \cup Notices
<1>1. CASE UNCHANGED <<channelVars, streamVars, soError, m_pendingFunctors>>
  BY <1>1 DEF ConnTypes, StreamTypes, channelVars, streamVars
<1>2. CASE sendFault(m)
  BY <1>2 DEF sendFault, ConnTypes, StreamTypes, channelVars
<1>3. ASSUME NEW n \in 0..Len(Bytes(m)), sendPart(m, n)
      PROVE  /\ m_events' \subseteq {"IN", "OUT"} /\ watched' \in BOOLEAN
             /\ StreamTypes' /\ soError' \in BOOLEAN
             /\ m_pendingFunctors' \in Seq(Functors)
             /\ \A f \in Range(m_pendingFunctors') :
                  f \in Range(m_pendingFunctors) \cup Notices
  <2>1. /\ SubSeq(Bytes(m), 1, n) \in Seq(Byte)
        /\ SubSeq(Bytes(m), n + 1, Len(Bytes(m))) \in Seq(Byte)
        /\ Bytes(m) \in Seq(Byte)
    BY BytesType, Cut
  <2>2. /\ wire' = wire \o SubSeq(Bytes(m), 1, n)
        /\ m_outputBuffer' = m_outputBuffer \o SubSeq(Bytes(m), n + 1, Len(Bytes(m)))
        /\ accepted' = accepted \o Bytes(m)
        /\ UNCHANGED <<lost, soError>>
        /\ enableWriting(Len(Bytes(m)) - n)
        /\ queue(notices(Len(Bytes(m)) - n))
    BY <1>3 DEF sendPart
  <2>3. StreamTypes'
    <3>1. m_outputBuffer \in Seq(Byte) /\ wire \in Seq(Byte) /\ accepted \in Seq(Byte)
      BY DEF StreamTypes, Byte
    <3>2. m_outputBuffer' \in Seq(Byte) /\ wire' \in Seq(Byte) /\ accepted' \in Seq(Byte)
      BY <2>1, <2>2, <3>1, ConcatProperties
    <3> QED
      BY <2>2, <3>2 DEF StreamTypes, Byte
  <2>4. /\ m_pendingFunctors' \in Seq(Functors)
        /\ \A f \in Range(m_pendingFunctors') :
             f \in Range(m_pendingFunctors) \cup Notices
    BY <2>2, NoticesType, QueueGrows
  <2>5. m_events' \subseteq {"IN", "OUT"} /\ watched' \in BOOLEAN
    BY <2>2, SetEventsTypes DEF enableWriting, channelVars, ConnTypes
  <2> QED
    BY <2>2, <2>3, <2>4, <2>5
<1> QED
  BY <1>1, <1>2, <1>3 DEF sendInLoop

\* What handleClose leaves in the variables it changes.
LEMMA CloseTypes ==
  ASSUME ConnTypes, QueueTypes, handleClose
  PROVE  ConnTypes' /\ QueueTypes' /\ UNCHANGED streamVars
<1>1. ConnTypes'
  BY SetEventsTypes DEF handleClose, ConnTypes, States
<1>2. <<"connectDestroyed">> \in Seq(Functors)
  BY DEF Functors
<1>3. m_pendingFunctors' \in Seq(Functors)
  BY <1>2, QueueGrows DEF handleClose, QueueTypes
<1>4. baseQueue' \in Nat /\ UNCHANGED <<streamVars, sharedLoop, baseHolds>>
  BY DEF handleClose, QueueTypes
<1>5. inMap' \in BOOLEAN
  BY DEF handleClose, QueueTypes
<1> QED
  BY <1>1, <1>3, <1>4, <1>5 DEF QueueTypes

\* What does not change keeps its types.
LEMMA TypesStay ==
  /\ ConnTypes /\ UNCHANGED <<m_state, channelVars, downs>> => ConnTypes'
  /\ StreamTypes /\ UNCHANGED streamVars => StreamTypes'
  /\ SocketTypes /\ UNCHANGED socketVars => SocketTypes'
  /\ LoopTypes /\ UNCHANGED loopVars => LoopTypes'
  /\ QueueTypes /\ UNCHANGED queueVars => QueueTypes'
  /\ UserTypes /\ UNCHANGED userVars => UserTypes'
<1>1. ConnTypes /\ UNCHANGED <<m_state, channelVars, downs>> => ConnTypes'
  BY DEF ConnTypes, channelVars
<1>2. StreamTypes /\ UNCHANGED streamVars => StreamTypes'
  BY DEF StreamTypes, streamVars
<1>3. SocketTypes /\ UNCHANGED socketVars => SocketTypes'
  BY DEF SocketTypes, socketVars, peerVars
<1>4. LoopTypes /\ UNCHANGED loopVars => LoopTypes'
  BY DEF LoopTypes, loopVars, batchVars, Holding
<1>5. QueueTypes /\ UNCHANGED queueVars => QueueTypes'
  BY DEF QueueTypes, queueVars, baseVars
<1>6. UserTypes /\ UNCHANGED userVars => UserTypes'
  BY DEF UserTypes, userVars
<1> QED
  BY <1>1, <1>2, <1>3, <1>4, <1>5, <1>6

\* A callback is taken from what handleEvent still has to do.
LEMMA CallbackTypes ==
  ASSUME LoopTypes, UserTypes, NEW e, callback(e), inUser' \in BOOLEAN
  PROVE  LoopTypes' /\ UserTypes'
<1>1. todo' \in Seq({"HUP", "ERR", "IN", "OUT"})
  BY RangeTail DEF callback, LoopTypes
<1>2. UNCHANGED <<pc, functors, batchHolds>> /\ UNCHANGED userVars
  BY DEF callback, batchVars
<1> QED
  BY <1>1, <1>2, TypesStay DEF LoopTypes, Holding

\* A functor is taken from the batch.
LEMMA FunctorTypes ==
  ASSUME LoopTypes, NEW f, functor(f), inUser' \in BOOLEAN
  PROVE  /\ LoopTypes' /\ UNCHANGED <<tpc, unsent>>
         /\ Range(functors) = {f} \cup Range(functors')
<1>1. /\ functors' \in Seq(Functors)
      /\ Range(functors) = {f} \cup Range(functors')
  BY RangeTail DEF functor, LoopTypes
<1>2. UNCHANGED <<pc, batchHolds, todo, tpc, unsent>>
  BY DEF functor
<1>3. Holding(functors') => Holding(functors)
  BY <1>1 DEF Holding
<1> QED
  BY <1>1, <1>2, <1>3 DEF LoopTypes, Holding

\* The loop's steps up to the end of handleEvent.
LEMMA HandlingTypes ==
  ASSUME TypeOK,
         poll \/ takeFunctors \/ closeCallback \/ handleError \/ handleRead
           \/ handleReadEof \/ handleReadError \/ handleWrite \/ handleWriteNothing
  PROVE  TypeOK'
<1>1. ASSUME NEW room, pollReports(room) PROVE TypeOK'
  <2>1. UNCHANGED <<connVars, socketVars, queueVars, userVars>>
    BY <1>1 DEF pollReports
  <2>2. /\ pc' = "handling" /\ todo' \in Seq(Callbacks)
        /\ UNCHANGED <<inUser, functors, batchHolds>>
    BY <1>1, DispatchType DEF pollReports
  <2>3. LoopTypes'
    BY <2>2 DEF TypeOK, LoopTypes, Holding, Callbacks
  <2> QED
    BY <2>1, <2>3, TypesStay DEF TypeOK, connVars
<1>2. CASE takeFunctors
  <2>1. UNCHANGED <<connVars, socketVars, todo, inUser, baseVars, userVars>>
    BY <1>2 DEF takeFunctors
  <2>2. LoopTypes'
    BY <1>2, <2>1 DEF takeFunctors, TypeOK, LoopTypes, QueueTypes, Holding
  <2>3. QueueTypes'
    BY <1>2, <2>1 DEF takeFunctors, TypeOK, QueueTypes, baseVars
  <2> QED
    BY <2>1, <2>2, <2>3, TypesStay DEF TypeOK, connVars
<1>3. CASE closeCallback \/ handleReadEof
  <2>1. /\ \E e : callback(e)
        /\ handleClose /\ UNCHANGED <<socketVars, inUser>>
    BY <1>3 DEF closeCallback, handleReadEof
  <2>2. LoopTypes' /\ UserTypes'
    BY <2>1, CallbackTypes DEF TypeOK, LoopTypes
  <2> QED
    BY <2>1, <2>2, CloseTypes, TypesStay DEF TypeOK
<1>4. CASE handleError \/ handleReadError \/ handleWriteNothing
  <2>1. /\ \E e : callback(e)
        /\ soError' \in BOOLEAN
        /\ UNCHANGED <<connVars, finSent, peerVars, inUser, queueVars>>
    BY <1>4 DEF handleError, handleReadError, handleWriteNothing
  <2>2. LoopTypes' /\ UserTypes'
    BY <2>1, CallbackTypes DEF TypeOK, LoopTypes
  <2>3. SocketTypes'
    BY <2>1 DEF TypeOK, SocketTypes, peerVars
  <2> QED
    BY <2>1, <2>2, <2>3, TypesStay DEF TypeOK, connVars
<1>5. CASE handleRead
  <2>1. /\ \E e : callback(e)
        /\ incoming > 0 /\ incoming' = incoming - 1 /\ inUser' = TRUE
        /\ UNCHANGED <<connVars, finSent, soError, peer, queueVars>>
    BY <1>5 DEF handleRead
  <2>2. LoopTypes' /\ UserTypes'
    BY <2>1, CallbackTypes DEF TypeOK, LoopTypes
  <2>3. SocketTypes'
    BY <2>1, ConnectionAssumption DEF TypeOK, SocketTypes
  <2> QED
    BY <2>1, <2>2, <2>3, TypesStay DEF TypeOK, connVars
<1>6. CASE handleWrite
  <2>1. /\ callback("OUT")
        /\ UNCHANGED <<m_state, accepted, lost, downs, soError, peerVars, inUser, baseVars>>
    BY <1>6 DEF handleWrite
  <2>2. LoopTypes' /\ UserTypes'
    BY <2>1, CallbackTypes DEF TypeOK, LoopTypes
  <2>3. StreamTypes'
    <3>1. PICK n \in 1..Len(m_outputBuffer) :
            /\ wire' = wire \o SubSeq(m_outputBuffer, 1, n)
            /\ m_outputBuffer' = SubSeq(m_outputBuffer, n + 1, Len(m_outputBuffer))
      BY <1>6 DEF handleWrite
    <3>2. m_outputBuffer \in Seq(Byte) /\ wire \in Seq(Byte) /\ accepted \in Seq(Byte)
      BY DEF TypeOK, StreamTypes, Byte
    <3>3. /\ SubSeq(m_outputBuffer, 1, n) \in Seq(Byte)
          /\ SubSeq(m_outputBuffer, n + 1, Len(m_outputBuffer)) \in Seq(Byte)
      BY <3>2, Cut
    <3>4. wire' \in Seq(Byte) /\ m_outputBuffer' \in Seq(Byte)
      BY <3>1, <3>2, <3>3, ConcatProperties
    <3> QED
      BY <2>1, <3>2, <3>4 DEF TypeOK, StreamTypes, Byte
  <2>4. CASE UNCHANGED <<channelVars, m_pendingFunctors, finSent>>
    BY <2>1, <2>2, <2>3, <2>4, TypesStay
       DEF TypeOK, socketVars, queueVars
  <2>5. CASE bufferEmptied
    <3>1. ConnTypes'
      BY <2>1, <2>5, SetEventsTypes DEF bufferEmptied, TypeOK, ConnTypes
    <3>2. <<"writeComplete">> \in Seq(Functors)
      BY DEF Functors, Notices
    <3>3. QueueTypes'
      BY <2>1, <2>5, <3>2, QueueGrows DEF bufferEmptied, TypeOK, QueueTypes, baseVars
    <3>4. SocketTypes'
      BY <2>1, <2>5, Zenon DEF bufferEmptied, TypeOK, SocketTypes, peerVars
    <3> QED
      BY <2>2, <2>3, <3>1, <3>3, <3>4 DEF TypeOK
  <2> QED
    BY <1>6, <2>4, <2>5 DEF handleWrite
<1> QED
  BY <1>1, <1>2, <1>3, <1>4, <1>5, <1>6 DEF poll

\* The loop's steps while it runs its batch, and user callbacks that return.
LEMMA BatchTypes ==
  ASSUME TypeOK,
         connectEstablished \/ connectDestroyed \/ noticeFunctor
           \/ (\E m \in Messages : sendFunctor(m)) \/ shutdownFunctor
           \/ functorOfFreed \/ functorsDone \/ callbackReturns
  PROVE  TypeOK'
<1> USE DEF TypeOK
<1>1. CASE connectEstablished
  <2>1. /\ functor("connectEstablished") /\ inUser' = TRUE
        /\ m_state' = "Connected" /\ setEvents(m_events \cup {"IN"})
        /\ holds' = Users
        /\ UNCHANGED <<streamVars, downs, socketVars, queueVars>>
    BY <1>1 DEF connectEstablished
  <2>2. LoopTypes' /\ UNCHANGED <<tpc, unsent>>
    BY <2>1, FunctorTypes
  <2>3. ConnTypes'
    BY <2>1, SetEventsTypes DEF ConnTypes, States
  <2>4. UserTypes'
    BY <2>1, <2>2 DEF UserTypes
  <2> QED
    BY <2>1, <2>2, <2>3, <2>4, TypesStay
<1>2. CASE connectDestroyed
  <2>1. /\ functor("connectDestroyed")
        /\ UNCHANGED <<streamVars, socketVars, inUser, queueVars, holds>>
    BY <1>2 DEF connectDestroyed
  <2>2. LoopTypes' /\ UNCHANGED <<tpc, unsent>>
    BY <2>1, FunctorTypes DEF LoopTypes
  <2>3. ConnTypes'
    <3>1. CASE m_state = "Connected"
      <4>1. /\ m_state' = "Disconnected" /\ m_events' = {} /\ watched' = FALSE
            /\ downs' = downs + 1
        BY <1>2, <3>1, Zenon DEF connectDestroyed
      <4>2. downs' \in Nat
        BY <4>1 DEF ConnTypes
      <4> QED
        BY <4>1, <4>2, Zenon DEF ConnTypes, States
    <3>2. CASE m_state # "Connected"
      <4>1. UNCHANGED <<m_state, m_events, downs>> /\ watched' = FALSE
        BY <1>2, <3>2, Zenon DEF connectDestroyed
      <4> QED
        BY <4>1 DEF ConnTypes
    <3> QED
      BY <3>1, <3>2
  <2> QED
    BY <2>1, <2>2, <2>3, TypesStay DEF userVars
<1>3. CASE noticeFunctor
  <2>1. /\ \E f : functor(f)
        /\ inUser' = TRUE /\ UNCHANGED <<connVars, socketVars, queueVars, holds>>
    BY <1>3 DEF noticeFunctor
  <2>2. LoopTypes' /\ UNCHANGED <<tpc, unsent>>
    BY <2>1, FunctorTypes
  <2> QED
    BY <2>1, <2>2, TypesStay DEF userVars, connVars
<1>4. ASSUME NEW m \in Messages, sendFunctor(m) PROVE TypeOK'
  <2>1. /\ functor(m) /\ sendInLoop(m)
        /\ UNCHANGED <<m_state, downs, finSent, peerVars, inUser, baseVars, holds>>
    BY <1>4 DEF sendFunctor
  <2>2. LoopTypes' /\ UNCHANGED <<tpc, unsent>>
    BY <2>1, FunctorTypes DEF LoopTypes
  <2>3. /\ m_events' \subseteq {"IN", "OUT"} /\ watched' \in BOOLEAN
        /\ StreamTypes' /\ soError' \in BOOLEAN
        /\ m_pendingFunctors' \in Seq(Functors)
    BY <2>1, SendTypes DEF SocketTypes, QueueTypes
  <2>4. ConnTypes' /\ QueueTypes'
    BY <2>1, <2>3 DEF ConnTypes, QueueTypes, baseVars
  <2>5. SocketTypes'
    BY <2>1, <2>3 DEF SocketTypes, peerVars
  <2> QED
    BY <2>1, <2>2, <2>3, <2>4, <2>5, TypesStay DEF userVars
<1>5. CASE shutdownFunctor
  <2>1. /\ functor("shutdownInLoop")
        /\ finSent' \in BOOLEAN
        /\ UNCHANGED <<connVars, soError, peerVars, inUser, queueVars, holds>>
    BY <1>5, Zenon DEF shutdownFunctor, shutdownInLoop
  <2>2. LoopTypes' /\ UNCHANGED <<tpc, unsent>>
    BY <2>1, FunctorTypes DEF LoopTypes
  <2>3. SocketTypes'
    BY <2>1 DEF SocketTypes, peerVars
  <2> QED
    BY <2>1, <2>2, <2>3, TypesStay DEF userVars, connVars
<1>6. CASE functorOfFreed
  <2>1. /\ \E f : functor(f)
        /\ UNCHANGED <<connVars, socketVars, inUser, queueVars, holds>>
    BY <1>6 DEF functorOfFreed
  <2>2. LoopTypes' /\ UNCHANGED <<tpc, unsent>>
    BY <2>1, FunctorTypes DEF LoopTypes
  <2> QED
    BY <2>1, <2>2, TypesStay DEF userVars, connVars
<1>7. CASE functorsDone
  <2>1. UNCHANGED <<connVars, socketVars, todo, inUser, functors, queueVars, userVars>>
    BY <1>7 DEF functorsDone
  <2>2. functors = <<>> /\ pc' = "poll" /\ batchHolds' = FALSE
    BY <1>7 DEF functorsDone
  <2>3. ~Holding(functors')
    BY <2>1, <2>2 DEF Holding, Range
  <2>4. LoopTypes'
    BY <2>1, <2>2, <2>3 DEF LoopTypes
  <2> QED
    BY <2>1, <2>4, TypesStay DEF connVars
<1>8. CASE callbackReturns
  <2>1. /\ UNCHANGED <<connVars, socketVars, batchVars, todo, queueVars, userVars>>
        /\ inUser' = FALSE
    BY <1>8 DEF callbackReturns
  <2>2. LoopTypes'
    BY <2>1 DEF LoopTypes, batchVars, Holding
  <2> QED
    BY <2>1, <2>2, TypesStay DEF connVars
<1> QED
  BY <1>1, <1>2, <1>3, <1>4, <1>5, <1>6, <1>7, <1>8

\* The steps of the base loop, of user code and of the peer.
LEMMA OtherTypes ==
  ASSUME TypeOK,
         BaseStep \/ (\E m \in Messages : send_own(m)) \/ shutdown_own
           \/ (\E u \in Users : UserStep(u) \/ shutdown(u) \/ drop(u)
                                  \/ \E m \in Messages : send(u, m))
           \/ peerSends \/ peerCloses \/ peerResets
  PROVE  TypeOK'
<1> USE DEF TypeOK
<1>1. CASE removeConnectionInLoop
  <2>1. /\ baseQueue > 0 /\ baseQueue' = baseQueue - 1
        /\ baseHolds' = TRUE /\ inMap' = FALSE /\ queue(<<"connectDestroyed">>)
        /\ UNCHANGED <<connVars, socketVars, loopVars, sharedLoop, userVars>>
    BY <1>1 DEF removeConnectionInLoop
  <2>2. <<"connectDestroyed">> \in Seq(Functors)
    BY DEF Functors
  <2>3. QueueTypes'
    <3>1. m_pendingFunctors' \in Seq(Functors)
      BY <2>1, <2>2, QueueGrows DEF QueueTypes
    <3>2. baseQueue' \in Nat
      BY <2>1 DEF QueueTypes
    <3> QED
      BY <2>1, <3>1, <3>2, Zenon DEF QueueTypes
  <2> QED
    BY <2>1, <2>3, TypesStay DEF connVars
<1>2. CASE baseBatchDone
  BY <1>2, TypesStay DEF baseBatchDone, QueueTypes, connVars
<1>3. ASSUME NEW m \in Messages, send_own(m) PROVE TypeOK'
  <2>1. /\ unsent' = unsent \ {m} /\ sendInLoop(m)
        /\ UNCHANGED <<m_state, downs, finSent, peerVars, loopVars, baseVars, tpc, holds>>
    BY <1>3 DEF send_own
  <2>2. /\ m_events' \subseteq {"IN", "OUT"} /\ watched' \in BOOLEAN
        /\ StreamTypes' /\ soError' \in BOOLEAN
        /\ m_pendingFunctors' \in Seq(Functors)
    BY <2>1, SendTypes DEF SocketTypes, QueueTypes
  <2>3. ConnTypes' /\ QueueTypes'
    BY <2>1, <2>2 DEF ConnTypes, QueueTypes, baseVars
  <2>4. SocketTypes'
    BY <2>1, <2>2 DEF SocketTypes, peerVars
  <2>5. UserTypes'
    BY <2>1 DEF UserTypes
  <2> QED
    BY <2>1, <2>2, <2>3, <2>4, <2>5, TypesStay
<1>4. CASE shutdown_own
  <2>1. /\ m_state' = "Disconnecting" /\ finSent' \in BOOLEAN
        /\ UNCHANGED <<channelVars, streamVars, downs, soError, peerVars, loopVars,
                       queueVars, userVars>>
    BY <1>4, Zenon DEF shutdown_own, shutdownInLoop
  <2>2. ConnTypes'
    BY <2>1 DEF ConnTypes, States, channelVars
  <2>3. SocketTypes'
    BY <2>1 DEF SocketTypes, peerVars
  <2> QED
    BY <2>1, <2>2, <2>3, TypesStay
<1>5. ASSUME NEW u \in Users, UserStep(u) PROVE TypeOK'
  <2>1. CASE shutdown_setState(u)
    <3>1. /\ m_state' = "Disconnecting" /\ tpc[u] = "setState"
          /\ tpc' = [tpc EXCEPT ![u] = "shutdown"]
          /\ UNCHANGED <<channelVars, streamVars, downs, socketVars, loopVars,
                         queueVars, holds, unsent>>
      BY <2>1 DEF shutdown_setState
    <3>2. ConnTypes'
      BY <3>1 DEF ConnTypes, States, channelVars
    <3>3. UserTypes'
      BY <3>1 DEF UserTypes
    <3> QED
      BY <3>1, <3>2, <3>3, TypesStay
  <2>2. ASSUME NEW f \in Functors, queues(u, f) PROVE TypeOK'
    <3>1. /\ queue(<<f>>) /\ tpc' = [tpc EXCEPT ![u] = "idle"]
          /\ UNCHANGED <<connVars, socketVars, loopVars, baseVars, holds, unsent>>
      BY <2>2 DEF queues
    <3>2. <<f>> \in Seq(Functors)
      OBVIOUS
    <3>4. m_pendingFunctors' \in Seq(Functors)
      BY <3>1, <3>2, QueueGrows DEF QueueTypes
    <3>5. QueueTypes'
      BY <3>1, <3>4 DEF QueueTypes, baseVars
    <3>3. UserTypes'
      BY <3>1 DEF UserTypes
    <3> QED
      BY <3>1, <3>3, <3>5, TypesStay DEF connVars
  <2> QED
    BY <1>5, <2>1, <2>2 DEF UserStep, send_queue, shutdown_queue, Functors, Bare
<1>6. ASSUME NEW u \in Users,
             (\E m \in Messages : send(u, m)) \/ shutdown(u)
      PROVE  TypeOK'
  <2>1. PICK to \in Messages \cup {"setState"} :
          goesOn(u, to) /\ unsent' \in SUBSET Messages
    BY <1>6 DEF send, shutdown, UserTypes
  <2>2. /\ u \in holds /\ tpc' = [tpc EXCEPT ![u] = to]
        /\ UNCHANGED <<connVars, socketVars, loopVars, queueVars, holds>>
    BY <2>1 DEF goesOn
  <2>3. UserTypes'
    BY <2>1, <2>2 DEF UserTypes
  <2> QED
    BY <2>2, <2>3, TypesStay DEF connVars
<1>7. ASSUME NEW u \in Users, drop(u) PROVE TypeOK'
  <2>1. /\ tpc[u] = "idle" /\ holds' = holds \ {u}
        /\ UNCHANGED <<connVars, socketVars, loopVars, queueVars, tpc, unsent>>
    BY <1>7 DEF drop
  <2>2. UserTypes'
    BY <2>1 DEF UserTypes
  <2> QED
    BY <2>1, <2>2, TypesStay DEF connVars
<1>8. CASE peerSends \/ peerCloses \/ peerResets
  <2>1. /\ UNCHANGED <<connVars, finSent, loopVars, queueVars, userVars>>
        /\ soError' \in {soError, TRUE} /\ peer' \in {peer, "fin", "rst"}
        /\ incoming' = incoming \/ (incoming < MaxIncoming /\ incoming' = incoming + 1)
    BY <1>8 DEF peerSends, peerCloses, peerResets
  <2>2. MaxIncoming \in Nat
    BY ConnectionAssumption
  <2>3. incoming' \in 0..MaxIncoming
    BY <2>1, <2>2 DEF SocketTypes
  <2>4. SocketTypes'
    BY <2>1, <2>3 DEF SocketTypes
  <2> QED
    BY <2>1, <2>4, TypesStay DEF connVars
<1> QED
  BY <1>1, <1>2, <1>3, <1>4, <1>5, <1>6, <1>7, <1>8 DEF BaseStep

\* Every step keeps the types.
LEMMA TypeStep == TypeOK /\ [Next]_vars => TypeOK'
<1>1. TypeOK /\ UNCHANGED vars => TypeOK'
  BY TypesStay DEF TypeOK, vars, connVars
<1> QED
  BY <1>1, HandlingTypes, BatchTypes, OtherTypes DEF Next, LoopStep

\* TypeOK: only a connection that somebody refers to is called, and a batch that
\* holds a TcpConnectionPtr counts as a reference until it is destroyed.
THEOREM TypeCorrect == SafeSpec => []TypeOK
  BY TypeInit, TypeStep, PTL DEF SafeSpec

------------------------------------------------------------------------------
(***************************************************************************)
(* The stream.  Until the connection is announced down, interest in        *)
(* writability tells a non-empty output buffer from an empty one, whatever *)
(* m_state is; this is what the direct write and shutdownInLoop rely on.   *)
(***************************************************************************)

WritingTellsBuffered == downs = 0 => (isWriting <=> m_outputBuffer # <<>>)
StreamInv == WrittenInOrder /\ WritingTellsBuffered /\ BufferedBeforeFin

LEMMA StreamInit == Init => StreamInv
<1> SUFFICES ASSUME Init PROVE StreamInv
  OBVIOUS
<1>1. /\ m_outputBuffer = <<>> /\ wire = <<>> /\ accepted = <<>>
      /\ finSent = FALSE /\ "OUT" \notin m_events
  BY DEF Init
<1> QED
  BY <1>1 DEF StreamInv, WrittenInOrder, WritingTellsBuffered, BufferedBeforeFin, isWriting

\* What none of the stream's variables notices.
LEMMA StreamStays ==
  ASSUME StreamInv, UNCHANGED <<streamVars, finSent, downs>>,
         "OUT" \in m_events <=> "OUT" \in m_events'
  PROVE  StreamInv'
  BY DEF StreamInv, WrittenInOrder, WritingTellsBuffered, BufferedBeforeFin,
         isWriting, streamVars

\* Once the connection is announced down only the stream is promised.
LEMMA StreamClosed ==
  ASSUME StreamInv, UNCHANGED streamVars, downs \in Nat, downs' = downs + 1
  PROVE  StreamInv'
<1>1. downs' > 0 /\ downs' # 0
  OBVIOUS
<1> QED
  BY <1>1 DEF StreamInv, WrittenInOrder, WritingTellsBuffered, BufferedBeforeFin, streamVars

\* A message of which the first n bytes are written and the rest is buffered.
LEMMA SendStream ==
  ASSUME TypeOK, StreamInv, NEW m \in Messages, NEW n \in 0..Len(Bytes(m)),
         sendPart(m, n), ~(writesDirectly /\ writeFails), UNCHANGED <<finSent, downs>>
  PROVE  StreamInv'
<1> DEFINE a == SubSeq(Bytes(m), 1, n)
           b == SubSeq(Bytes(m), n + 1, Len(Bytes(m)))
<1>1. /\ n > 0 => writesDirectly
      /\ wire' = wire \o a /\ m_outputBuffer' = m_outputBuffer \o b
      /\ accepted' = accepted \o Bytes(m)
      /\ enableWriting(Len(Bytes(m)) - n)
  BY DEF sendPart
<1>2. /\ Bytes(m) \in Seq(Byte) /\ Len(Bytes(m)) = 2
      /\ wire \in Seq(Byte) /\ m_outputBuffer \in Seq(Byte) /\ accepted \in Seq(Byte)
  BY BytesType DEF TypeOK, StreamTypes, Byte
<1>3. /\ a \in Seq(Byte) /\ b \in Seq(Byte) /\ a \o b = Bytes(m)
      /\ n < Len(Bytes(m)) => b # <<>>
  BY <1>2, Cut
<1>4. n = 0 => a = <<>>
  <2>1. SubSeq(Bytes(m), 1, 0) = <<>>
    BY <1>2, SubSeqEmpty
  <2> QED
    BY <2>1
<1>5. n = Len(Bytes(m)) => b = <<>>
  <2>1. SubSeq(Bytes(m), Len(Bytes(m)) + 1, Len(Bytes(m))) = <<>>
    BY <1>2, SubSeqEmpty
  <2> QED
    BY <2>1
<1>6. n > 0 => m_outputBuffer = <<>> /\ ~isWriting
  BY <1>1 DEF writesDirectly
<1> HIDE DEF a, b
<1>7. WrittenInOrder'
  <2>0. /\ wire \in Seq(Byte) /\ m_outputBuffer \in Seq(Byte)
        /\ a \in Seq(Byte) /\ b \in Seq(Byte)
    BY <1>2, <1>3
  <2>1. wire \o m_outputBuffer = accepted
    BY DEF StreamInv, WrittenInOrder
  <2>2. (wire \o a) \o (m_outputBuffer \o b) = (wire \o m_outputBuffer) \o (a \o b)
    <3>1. CASE ~(n > 0)
      <4>0. n = 0
        BY <1>2, <3>1
      <4>1. wire \o a = wire /\ a \o b = b
        BY <1>2, <1>3, <1>4, <4>0, ConcatEmptySeq
      <4>2. Regroups(wire, m_outputBuffer, b)
        BY ONLY <2>0, Regroup, SMTT(30)
      <4> QED
        BY ONLY <4>1, <4>2 DEF Regroups
    <3>2. CASE n > 0
      <4>1. m_outputBuffer \o b = b /\ wire \o m_outputBuffer = wire
        BY <1>2, <1>3, <1>6, <3>2, ConcatEmptySeq
      <4>2. Regroups(wire, a, b)
        BY ONLY <2>0, Regroup, SMTT(30)
      <4> QED
        BY ONLY <4>1, <4>2 DEF Regroups
    <3> QED
      BY ONLY <3>1, <3>2
  <2> QED
    BY <1>1, <1>3, <2>1, <2>2 DEF WrittenInOrder
<1>8. \A s, t \in Seq(Byte) : t # <<>> => s \o t # <<>>
  OBVIOUS
<1>9. WritingTellsBuffered'
  <2>1. CASE n < Len(Bytes(m))
    <3>1. m_outputBuffer' # <<>>
      BY <1>1, <1>2, <1>3, <1>8, <2>1
    <3>2. Len(Bytes(m)) - n > 0
      BY <1>2, <2>1
    <3>3. "OUT" \in m_events'
      BY <1>1, <3>2 DEF enableWriting, setEvents, channelVars, isWriting
    <3> QED
      BY <3>1, <3>3 DEF WritingTellsBuffered, isWriting
  <2>2. CASE n = Len(Bytes(m))
    <3>1. n > 0 /\ ~(Len(Bytes(m)) - n > 0)
      BY <1>2, <2>2
    <3>2. m_outputBuffer = <<>> /\ b = <<>> /\ ~isWriting
      BY <1>5, <1>6, <2>2, <3>1
    <3>3. m_outputBuffer' = <<>>
      BY <1>1, <1>2, <3>2, ConcatEmptySeq
    <3>4. m_events' = m_events
      BY <1>1, <3>1 DEF enableWriting, channelVars
    <3> QED
      BY <3>2, <3>3, <3>4 DEF WritingTellsBuffered, isWriting
  <2> QED
    BY <1>2, <2>1, <2>2
<1>10. BufferedBeforeFin'
  <2>1. finSent => ~writesDirectly
    BY DEF writeFails
  <2>2. finSent => downs > 0
    <3>1. finSent /\ downs = 0 => m_outputBuffer = <<>> /\ ~isWriting
      BY DEF StreamInv, WritingTellsBuffered, BufferedBeforeFin
    <3>2. downs \in Nat
      BY DEF TypeOK, ConnTypes
    <3> QED
      BY <2>1, <3>1, <3>2 DEF writesDirectly
  <2> QED
    BY <2>2 DEF BufferedBeforeFin
<1> QED
  BY <1>7, <1>9, <1>10 DEF StreamInv

\* sendInLoop, whichever way it takes.
LEMMA SendInLoopStream ==
  ASSUME TypeOK, StreamInv, NEW m \in Messages, sendInLoop(m),
         UNCHANGED <<finSent, downs>>
  PROVE  StreamInv'
<1>1. CASE UNCHANGED <<channelVars, streamVars, soError, m_pendingFunctors>>
  BY <1>1, StreamStays DEF channelVars
<1>2. CASE sendFault(m)
  BY <1>2 DEF sendFault, StreamInv, WrittenInOrder, WritingTellsBuffered,
              BufferedBeforeFin, isWriting, channelVars
<1> QED
  BY <1>1, <1>2, SendStream DEF sendInLoop

\* shutdownInLoop sees an empty buffer, or waits for handleWrite.
LEMMA ShutdownInLoopStream ==
  ASSUME TypeOK, StreamInv, shutdownInLoop, UNCHANGED <<channelVars, streamVars, downs>>
  PROVE  StreamInv'
<1>1. finSent' = (finSent \/ ~isWriting) /\ finSent \in BOOLEAN /\ downs \in Nat
  BY DEF shutdownInLoop, TypeOK, SocketTypes, ConnTypes
<1>2. downs = 0 /\ ~isWriting => m_outputBuffer = <<>>
  BY DEF StreamInv, WritingTellsBuffered
<1>3. BufferedBeforeFin'
  BY <1>1, <1>2 DEF StreamInv, BufferedBeforeFin, streamVars
<1> QED
  BY <1>3 DEF StreamInv, WrittenInOrder, WritingTellsBuffered, isWriting, streamVars, channelVars

\* handleWrite moves bytes from the front of the buffer to the end of the wire.
LEMMA WriteStream ==
  ASSUME TypeOK, StreamInv, handleWrite
  PROVE  StreamInv'
<1>1. PICK n \in 1..Len(m_outputBuffer) :
        /\ wire' = wire \o SubSeq(m_outputBuffer, 1, n)
        /\ m_outputBuffer' = SubSeq(m_outputBuffer, n + 1, Len(m_outputBuffer))
  BY DEF handleWrite
<1>2. isWriting /\ ~finSent /\ UNCHANGED <<accepted, downs>>
  BY DEF handleWrite, writeFails
<1>3. m_outputBuffer \in Seq(Byte) /\ wire \in Seq(Byte)
  BY DEF TypeOK, StreamTypes, Byte
<1>4. WrittenInOrder'
  <2>1. /\ SubSeq(m_outputBuffer, 1, n) \in Seq(Byte) /\ m_outputBuffer' \in Seq(Byte)
        /\ SubSeq(m_outputBuffer, 1, n) \o m_outputBuffer' = m_outputBuffer
    BY <1>1, <1>3, Cut, SMTT(30)
  <2>2. wire' \o m_outputBuffer' = wire \o m_outputBuffer
    <3> DEFINE front == SubSeq(m_outputBuffer, 1, n)
               rest == m_outputBuffer'
    <3>1. /\ front \in Seq(Byte) /\ rest \in Seq(Byte) /\ wire \in Seq(Byte)
          /\ front \o rest = m_outputBuffer /\ wire' = wire \o front
      BY <1>1, <1>3, <2>1
    <3> HIDE DEF front
    <3>2. Regroups(wire, front, rest)
      BY ONLY <3>1, Regroup, SMTT(30)
    <3> QED
      BY ONLY <3>1, <3>2 DEF Regroups
  <2> QED
    BY <1>2, <2>2 DEF StreamInv, WrittenInOrder
<1>5. CASE m_outputBuffer' = <<>>
  <2>1. bufferEmptied
    BY <1>5 DEF handleWrite
  <2>2. "OUT" \notin m_events'
    BY <2>1 DEF bufferEmptied, setEvents
  <2> QED
    BY <1>4, <1>5, <2>2 DEF StreamInv, WritingTellsBuffered, BufferedBeforeFin, isWriting
<1>6. CASE m_outputBuffer' # <<>>
  <2>1. UNCHANGED <<channelVars, finSent>>
    BY <1>6 DEF handleWrite
  <2> QED
    BY <1>2, <1>4, <1>6, <2>1
       DEF StreamInv, WritingTellsBuffered, BufferedBeforeFin, isWriting, channelVars
<1> QED
  BY <1>5, <1>6

\* Every step keeps the stream.
LEMMA StreamStep == TypeOK /\ StreamInv /\ [Next]_vars => StreamInv'
<1> SUFFICES ASSUME TypeOK, StreamInv, [Next]_vars PROVE StreamInv'
  OBVIOUS
<1>1. ASSUME UNCHANGED <<connVars, finSent>> PROVE StreamInv'
  BY <1>1, StreamStays DEF connVars, channelVars
<1>2. CASE UNCHANGED vars
  BY <1>1, <1>2 DEF vars, socketVars
<1>3. CASE poll \/ takeFunctors \/ handleError \/ handleRead \/ handleReadError
             \/ handleWriteNothing \/ noticeFunctor \/ functorOfFreed
             \/ functorsDone \/ callbackReturns
  BY <1>1, <1>3 DEF poll, pollReports, takeFunctors, handleError, handleRead,
       handleReadError, handleWriteNothing, noticeFunctor, functorOfFreed,
       functorsDone, callbackReturns, socketVars
<1>4. CASE BaseStep \/ peerSends \/ peerCloses \/ peerResets
  BY <1>1, <1>4 DEF BaseStep, removeConnectionInLoop, baseBatchDone, peerSends,
       peerCloses, peerResets, socketVars
<1>5. CASE closeCallback \/ handleReadEof
  <2>1. UNCHANGED streamVars /\ downs' = downs + 1 /\ downs \in Nat
    BY <1>5 DEF closeCallback, handleReadEof, handleClose, TypeOK, ConnTypes
  <2> QED
    BY <2>1, StreamClosed
<1>6. CASE handleWrite
  BY <1>6, WriteStream
<1>7. CASE connectEstablished
  <2>1. UNCHANGED <<streamVars, finSent, downs>> /\ m_events' = m_events \cup {"IN"}
    BY <1>7 DEF connectEstablished, setEvents, socketVars
  <2> QED
    BY <2>1, StreamStays
<1>8. CASE connectDestroyed
  <2>1. UNCHANGED <<streamVars, finSent>> /\ downs \in Nat
    BY <1>8 DEF connectDestroyed, socketVars, TypeOK, ConnTypes
  <2>2. downs' = downs + 1 \/ UNCHANGED <<m_events, downs>>
    BY <1>8 DEF connectDestroyed
  <2> QED
    BY <2>1, <2>2, StreamStays, StreamClosed
<1>9. ASSUME NEW m \in Messages, sendFunctor(m) \/ send_own(m) PROVE StreamInv'
  BY <1>9, SendInLoopStream DEF sendFunctor, send_own
<1>10. CASE shutdownFunctor \/ shutdown_own
  BY <1>10, ShutdownInLoopStream DEF shutdownFunctor, shutdown_own, connVars
<1>11. ASSUME NEW u \in Users,
              UserStep(u) \/ shutdown(u) \/ drop(u) \/ \E m \in Messages : send(u, m)
       PROVE  StreamInv'
  <2>1. UNCHANGED <<channelVars, streamVars, downs, socketVars>>
    BY <1>11 DEF UserStep, send_queue, shutdown_queue, queues, shutdown_setState,
         shutdown, send, goesOn, drop, connVars
  <2> QED
    BY <2>1, StreamStays DEF channelVars, socketVars
<1> QED
  BY <1>2, <1>3, <1>4, <1>5, <1>6, <1>7, <1>8, <1>9, <1>10, <1>11 DEF Next, LoopStep

LEMMA StreamCorrect == SafeSpec => []StreamInv
  BY TypeCorrect, StreamInit, StreamStep, PTL DEF SafeSpec

\* WritingIffBuffered: no output waits without interest in writability, and none
\* is asked for without output.
THEOREM WritingCorrect == SafeSpec => []WritingIffBuffered
<1>1. StreamInv => WritingIffBuffered
  BY DEF StreamInv, WritingTellsBuffered, WritingIffBuffered
<1> QED
  BY <1>1, StreamCorrect, PTL

\* BufferedBeforeFin: shutdownInLoop never half-closes ahead of buffered output.
THEOREM BufferWritten == SafeSpec => []BufferedBeforeFin
<1>1. StreamInv => BufferedBeforeFin
  BY DEF StreamInv
<1> QED
  BY <1>1, StreamCorrect, PTL

\* A write error is one for good.
DroppedForGood == lost # {} => writeFails

\* What a step does to the messages dropped, the wire and the errors.
LEMMA DropSteps ==
  ASSUME TypeOK, [Next]_vars
  PROVE  /\ writeFails => writeFails'
         /\ wire' # wire => ~writeFails
         /\ lost' # lost => writeFails
<1> USE DEF streamVars, connVars, writeFails
<1>1. CASE poll \/ takeFunctors \/ handleError \/ handleRead \/ handleReadError
             \/ handleWriteNothing
  <2>1. UNCHANGED <<wire, lost, finSent, peer>>
    BY <1>1 DEF poll, pollReports, takeFunctors, handleError, handleRead,
       handleReadError, handleWriteNothing, socketVars, peerVars
  <2> QED
    BY <2>1
<1>2. CASE closeCallback \/ handleReadEof
  BY <1>2 DEF closeCallback, handleReadEof, handleClose, socketVars, peerVars
<1>3. CASE handleWrite
  BY <1>3 DEF handleWrite, bufferEmptied, peerVars
<1>4. CASE connectEstablished \/ connectDestroyed \/ noticeFunctor \/ functorOfFreed
             \/ functorsDone \/ callbackReturns
  BY <1>4 DEF connectEstablished, connectDestroyed, noticeFunctor, functorOfFreed,
       functorsDone, callbackReturns, socketVars, peerVars
<1>5. CASE shutdownFunctor \/ shutdown_own
  BY <1>5 DEF shutdownFunctor, shutdown_own, shutdownInLoop, peerVars
<1>6. ASSUME NEW m \in Messages, sendFunctor(m) \/ send_own(m)
      PROVE  /\ writeFails => writeFails'
             /\ wire' # wire => ~writeFails
             /\ lost' # lost => writeFails
  <2>1. sendInLoop(m) /\ UNCHANGED <<finSent, peer>>
    BY <1>6 DEF sendFunctor, send_own, peerVars
  <2>2. CASE UNCHANGED <<wire, lost>>
    BY <2>1, <2>2
  <2>3. CASE writesDirectly /\ writeFails /\ sendFault(m)
    BY <2>1, <2>3 DEF sendFault
  <2>4. ASSUME NEW n \in 0..Len(Bytes(m)), sendPart(m, n), ~(writesDirectly /\ writeFails)
        PROVE  UNCHANGED lost /\ (wire' # wire => ~writeFails)
    <3>1. SubSeq(Bytes(m), 1, 0) = <<>> /\ (n > 0 \/ n = 0)
      BY DEF Bytes
    <3>2. CASE n > 0
      BY <2>4, <3>2 DEF sendPart
    <3>3. CASE n = 0
      <4>1. wire' = wire \o <<>> /\ UNCHANGED lost
        BY <2>4, <3>1, <3>3 DEF sendPart
      <4>2. wire \in Seq(Messages \X {1, 2})
        BY DEF TypeOK, StreamTypes
      <4> QED
        BY <4>1, <4>2
    <3> QED
      BY <3>1, <3>2, <3>3
  <2> QED
    BY <2>1, <2>2, <2>3, <2>4 DEF sendInLoop
<1>7. CASE BaseStep \/ peerSends \/ peerCloses \/ peerResets \/ UNCHANGED vars
  BY <1>7 DEF BaseStep, removeConnectionInLoop, baseBatchDone, peerSends, peerCloses,
       peerResets, vars, socketVars, peerVars
<1>8. ASSUME NEW u \in Users,
             UserStep(u) \/ shutdown(u) \/ drop(u) \/ \E m \in Messages : send(u, m)
      PROVE  UNCHANGED <<wire, lost, finSent, peer>>
  BY <1>8 DEF UserStep, send_queue, shutdown_queue, queues, shutdown_setState, shutdown,
       send, goesOn, drop, socketVars, peerVars
<1> QED
  BY <1>1, <1>2, <1>3, <1>4, <1>5, <1>6, <1>7, <1>8 DEF Next, LoopStep

\* StreamHasNoGap: sendInLoop drops a message for EPIPE or ECONNRESET only, which
\* neither a later sendInLoop nor handleWrite gets past.
THEOREM NoGap == SafeSpec => StreamHasNoGap
<1>1. Init => DroppedForGood
  BY DEF Init, DroppedForGood
<1>2. TypeOK /\ DroppedForGood /\ [Next]_vars => DroppedForGood'
  BY DropSteps DEF DroppedForGood
<1>3. TypeOK /\ DroppedForGood /\ [Next]_vars => [lost # {} => wire' = wire]_vars
  BY DropSteps DEF DroppedForGood
<1> QED
  BY <1>1, <1>2, <1>3, TypeCorrect, PTL DEF SafeSpec, StreamHasNoGap

------------------------------------------------------------------------------
(***************************************************************************)
(* The connection's life.  What handleEvent still has to call closes the   *)
(* connection at most once, and only when the peer has ended its stream    *)
(* and all of it is read; until connectEstablished has run nothing else    *)
(* happens to the connection; and from then on it is watched for input and *)
(* stays in the map until it closes.                                       *)
(***************************************************************************)

Queued == Range(functors) \cup Range(m_pendingFunctors)

TodoInv ==
  /\ IsInjective(todo)
  /\ "IN" \in Range(todo) => incoming > 0 \/ peer # "open"
  /\ "HUP" \in Range(todo) => incoming = 0 /\ peer # "open" /\ "IN" \notin Range(todo)
  /\ downs > 0 => incoming = 0 /\ peer # "open"

ConnectingInv ==
  /\ pc # "functors" => functors = <<>>
  /\ m_state = "Connecting" =>
       /\ \/ functors = <<>> /\ m_pendingFunctors = <<"connectEstablished">>
          \/ functors = <<"connectEstablished">> /\ m_pendingFunctors = <<>>
       /\ ~watched /\ m_events = {} /\ todo = <<>> /\ ~inUser /\ holds = {}
       /\ inMap /\ baseQueue = 0 /\ downs = 0
  /\ m_state # "Connecting" => "connectEstablished" \notin Queued

UpInv ==
  m_state # "Connecting" /\ downs = 0 =>
    /\ m_state # "Disconnected"
    /\ watched /\ "IN" \in m_events
    /\ inMap /\ baseQueue = 0 /\ "connectDestroyed" \notin Queued

LifeInv == TodoInv /\ ConnectingInv /\ UpInv

LEMMA LifeInit == Init => LifeInv
<1> SUFFICES ASSUME Init PROVE LifeInv
  OBVIOUS
<1>1. /\ todo = <<>> /\ functors = <<>> /\ downs = 0 /\ baseQueue = 0 /\ inMap = TRUE
      /\ m_state = IF sharedLoop THEN "Connected" ELSE "Connecting"
      /\ m_events = IF sharedLoop THEN {"IN"} ELSE {}
      /\ watched = sharedLoop /\ inUser = sharedLoop /\ sharedLoop \in BOOLEAN
      /\ holds = IF sharedLoop THEN Users ELSE {}
      /\ m_pendingFunctors = IF sharedLoop THEN <<>> ELSE <<"connectEstablished">>
  BY DEF Init
<1>2. Range(<<>>) = {}
  BY DEF Range
<1>3. TodoInv
  BY <1>1, <1>2 DEF TodoInv, IsInjective
<1>4. CASE sharedLoop
  <2>1. Queued = {}
    BY <1>1, <1>2, <1>4 DEF Queued
  <2> QED
    BY <1>1, <1>3, <1>4, <2>1 DEF LifeInv, ConnectingInv, UpInv
<1>5. CASE ~sharedLoop
  BY <1>1, <1>3, <1>5 DEF LifeInv, ConnectingInv, UpInv
<1> QED
  BY <1>4, <1>5

\* The first callback is taken off what handleEvent has to do.
LEMMA InjectiveTail ==
  ASSUME NEW S, NEW s \in Seq(S), s # <<>>, IsInjective(s)
  PROVE  IsInjective(Tail(s)) /\ Head(s) \notin Range(Tail(s))
<1>1. /\ Len(Tail(s)) = Len(s) - 1 /\ Len(s) \in Nat /\ Len(s) > 0
      /\ DOMAIN s = 1..Len(s) /\ DOMAIN Tail(s) = 1..Len(Tail(s))
      /\ Head(s) = s[1]
      /\ \A i \in 1..Len(Tail(s)) : Tail(s)[i] = s[i + 1]
  OBVIOUS
<1>2. \A i, j \in 1..Len(s) : s[i] = s[j] => i = j
  BY <1>1 DEF IsInjective
<1>3. \A i, j \in 1..Len(Tail(s)) : Tail(s)[i] = Tail(s)[j] => i = j
  BY <1>1, <1>2
<1>4. \A i \in 1..Len(Tail(s)) : Tail(s)[i] # Head(s)
  BY <1>1, <1>2
<1> QED
  BY <1>1, <1>3, <1>4 DEF IsInjective, Range

\* Two sequences that have nothing in common follow each other.
LEMMA InjectiveConcat ==
  ASSUME NEW S, NEW s \in Seq(S), NEW t \in Seq(S), IsInjective(s), IsInjective(t),
         Range(s) \cap Range(t) = {}
  PROVE  /\ s \o t \in Seq(S) /\ IsInjective(s \o t)
         /\ Range(s \o t) = Range(s) \cup Range(t)
<1>1. /\ Len(s) \in Nat /\ Len(t) \in Nat /\ Len(s \o t) = Len(s) + Len(t)
      /\ DOMAIN s = 1..Len(s) /\ DOMAIN t = 1..Len(t)
      /\ DOMAIN (s \o t) = 1..(Len(s) + Len(t))
      /\ \A i \in 1..Len(s) : (s \o t)[i] = s[i]
      /\ \A i \in Len(s)+1..Len(s)+Len(t) : (s \o t)[i] = t[i - Len(s)]
  OBVIOUS
<1>2. \A i \in 1..Len(s), j \in 1..Len(t) : s[i] # t[j]
  BY <1>1 DEF Range
<1>3. /\ \A i, j \in 1..Len(s) : s[i] = s[j] => i = j
      /\ \A i, j \in 1..Len(t) : t[i] = t[j] => i = j
  BY <1>1 DEF IsInjective
<1>4. \A i, j \in 1..(Len(s) + Len(t)) : (s \o t)[i] = (s \o t)[j] => i = j
  <2> SUFFICES ASSUME NEW i \in 1..(Len(s) + Len(t)), NEW j \in 1..(Len(s) + Len(t)),
                      (s \o t)[i] = (s \o t)[j]
               PROVE  i = j
    OBVIOUS
  <2>1. CASE i \in 1..Len(s) /\ j \in 1..Len(s)
    BY <1>1, <1>3, <2>1
  <2>2. CASE i \in Len(s)+1..Len(s)+Len(t) /\ j \in Len(s)+1..Len(s)+Len(t)
    <3>1. i - Len(s) \in 1..Len(t) /\ j - Len(s) \in 1..Len(t)
      BY <1>1, <2>2
    <3>2. i - Len(s) = j - Len(s)
      BY <1>1, <1>3, <2>2, SMTT(30), <3>1
    <3> QED
      BY <1>1, <3>2
  <2>3. CASE i \in 1..Len(s) /\ j \in Len(s)+1..Len(s)+Len(t)
    BY <1>1, <1>2, <2>3
  <2>4. CASE j \in 1..Len(s) /\ i \in Len(s)+1..Len(s)+Len(t)
    BY <1>1, <1>2, <2>4
  <2> QED
    BY <1>1, <2>1, <2>2, <2>3, <2>4
<1>5. IsInjective(s \o t)
  BY <1>1, <1>4 DEF IsInjective
<1>6. s \o t \in Seq(S) /\ Range(s \o t) = Range(s) \cup Range(t)
  BY ConcatProperties, RangeConcatenation
<1> QED
  BY <1>5, <1>6

\* A list of callbacks that has those of E, each once.
Lists(s, E) == s \in Seq(Callbacks) /\ IsInjective(s) /\ Range(s) = E

LEMMA ListsBoth ==
  ASSUME NEW D, NEW E, NEW s, NEW t, Lists(s, D), Lists(t, E), D \cap E = {}
  PROVE  Lists(s \o t, D \cup E)
  BY InjectiveConcat DEF Lists

\* What handleEventWithGuard has to do for the events that are reported: each
\* callback at most once, the close callback only if there is nothing to read.
LEMMA DispatchOnce ==
  ASSUME NEW revents
  PROVE  /\ IsInjective(Dispatch(revents))
         /\ "IN" \in Range(Dispatch(revents)) <=> "IN" \in revents
         /\ "HUP" \in Range(Dispatch(revents)) <=> "HUP" \in revents /\ "IN" \notin revents
<1> DEFINE if(x, c) == IF c THEN {x} ELSE {}
<1>1. ASSUME NEW x \in Callbacks, NEW c
      PROVE  Lists(callIf(x, c), if(x, c))
  <2>1. CASE c
    BY <2>1 DEF callIf, IsInjective, Range, Lists
  <2>2. CASE ~c
    BY <2>2 DEF callIf, IsInjective, Range, Lists
  <2> QED
    BY <2>1, <2>2
<1> DEFINE h == callIf("HUP", "HUP" \in revents /\ "IN" \notin revents)
           e == callIf("ERR", "ERR" \in revents)
           i == callIf("IN", "IN" \in revents)
           o == callIf("OUT", "OUT" \in revents)
           H == if("HUP", "HUP" \in revents /\ "IN" \notin revents)
           E == if("ERR", "ERR" \in revents)
           I == if("IN", "IN" \in revents)
           O == if("OUT", "OUT" \in revents)
<1>2. Lists(h, H) /\ Lists(e, E) /\ Lists(i, I) /\ Lists(o, O)
  <2>1. {"HUP", "ERR", "IN", "OUT"} \subseteq Callbacks
    BY DEF Callbacks
  <2> QED
    BY <1>1, <2>1
<1>3. H \cap E = {} /\ (H \cup E) \cap I = {} /\ ((H \cup E) \cup I) \cap O = {}
  OBVIOUS
<1>4. /\ "IN" \in ((H \cup E) \cup I) \cup O <=> "IN" \in revents
      /\ "HUP" \in ((H \cup E) \cup I) \cup O <=> "HUP" \in revents /\ "IN" \notin revents
  OBVIOUS
<1>5. Dispatch(revents) = ((h \o e) \o i) \o o
  BY DEF Dispatch
<1> HIDE DEF h, e, i, o, H, E, I, O
<1>6. Lists(h \o e, H \cup E)
  BY ONLY <1>2, <1>3, ListsBoth
<1>7. Lists((h \o e) \o i, (H \cup E) \cup I)
  BY ONLY <1>2, <1>3, <1>6, ListsBoth
<1>8. Lists(((h \o e) \o i) \o o, ((H \cup E) \cup I) \cup O)
  BY ONLY <1>2, <1>3, <1>7, ListsBoth
<1> QED
  BY ONLY <1>4, <1>5, <1>8 DEF Lists

\* A callback of handleEventWithGuard is the first of those that are left.
LEMMA CallbackTodo ==
  ASSUME TypeOK, TodoInv, NEW e, callback(e)
  PROVE  /\ todo # <<>> /\ IsInjective(todo') /\ UNCHANGED <<batchVars, userVars>>
         /\ Range(todo) = {e} \cup Range(todo') /\ e \notin Range(todo')
<1>1. todo \in Seq(Callbacks)
  BY DEF TypeOK, LoopTypes, Callbacks
<1>2. /\ todo # <<>> /\ Head(todo) = e /\ todo' = Tail(todo)
      /\ UNCHANGED <<batchVars, userVars>>
  BY DEF callback
<1> QED
  BY <1>1, <1>2, RangeTail, InjectiveTail DEF TodoInv

\* What is left to call stays as it was, or loses its first callback.
LEMMA TodoStays ==
  ASSUME TodoInv, UNCHANGED <<peerVars, downs>>,
         todo' = todo \/ (IsInjective(todo') /\ Range(todo') \subseteq Range(todo))
  PROVE  TodoInv'
  BY DEF TodoInv, peerVars

\* A close.
LEMMA CloseTodo ==
  ASSUME TypeOK, TodoInv, closeCallback \/ handleReadEof
  PROVE  /\ TodoInv' /\ incoming = 0 /\ downs' = downs + 1
         /\ "IN" \notin Range(todo') /\ "HUP" \notin Range(todo')
<1>1. /\ downs' = downs + 1 /\ UNCHANGED socketVars
      /\ callback("HUP") \/ (callback("IN") /\ incoming = 0)
  BY DEF closeCallback, handleReadEof, handleClose
<1>2. UNCHANGED <<peer, incoming>>
  BY <1>1 DEF socketVars, peerVars
<1>3. CASE callback("HUP")
  BY <1>1, <1>2, <1>3, CallbackTodo DEF TodoInv
<1>4. CASE callback("IN") /\ incoming = 0
  BY <1>1, <1>2, <1>4, CallbackTodo DEF TodoInv
<1> QED
  BY <1>1, <1>3, <1>4

\* A poll reports the end of the stream only with input, for as long as the channel
\* asks for input.
LEMMA PollTodo ==
  ASSUME TypeOK, LifeInv, NEW room \in SUBSET {"OUT"}, pollReports(room)
  PROVE  TodoInv'
<1> DEFINE revents == (Conditions \cup room) \cap (m_events \cup {"ERR", "HUP"})
<1>1. watched /\ todo' = Dispatch(revents) /\ UNCHANGED <<peer, incoming, downs>>
  BY DEF pollReports, connVars, socketVars, peerVars
<1>2. /\ "IN" \in Conditions <=> incoming > 0 \/ peer # "open"
      /\ "HUP" \in Conditions => peer # "open"
  BY DEF Conditions
<1>3. /\ "IN" \in revents <=> "IN" \in Conditions /\ "IN" \in m_events
      /\ "HUP" \in revents => "HUP" \in Conditions
  OBVIOUS
<1> HIDE DEF revents
<1>4. downs = 0 => "IN" \in m_events
  BY <1>1 DEF LifeInv, ConnectingInv, UpInv
<1>5. downs > 0 => incoming = 0 /\ peer # "open"
  BY DEF LifeInv, TodoInv
<1>6. downs = 0 \/ downs > 0
  BY DEF TypeOK, ConnTypes
<1>7. "HUP" \in revents /\ "IN" \notin revents => incoming = 0 /\ peer # "open"
  BY <1>2, <1>3, <1>4, <1>5, <1>6
<1> QED
  BY <1>1, <1>2, <1>3, <1>5, <1>7, DispatchOnce DEF TodoInv

\* A functor is one of those that are queued.
LEMMA FunctorQueued ==
  ASSUME TypeOK, NEW f, functor(f)
  PROVE  f \in Queued /\ Range(functors') \subseteq Range(functors)
<1>1. Range(functors) = {f} \cup Range(functors')
  <2>1. functors \in Seq(Functors) /\ functors # <<>> /\ f = Head(functors)
        /\ functors' = Tail(functors)
    BY DEF functor, TypeOK, LoopTypes
  <2> QED
    BY <2>1, RangeTail
<1> QED
  BY <1>1 DEF Queued

\* Once it runs connectDestroyed, the connection is down.
LEMMA DestroyedIsDown ==
  ASSUME TypeOK, LifeInv, connectDestroyed
  PROVE  downs > 0
<1>1. "connectDestroyed" \in Queued
  BY FunctorQueued DEF connectDestroyed
<1>2. m_state # "Connecting"
  <2>1. Range(<<>>) = {} /\ Range(<<"connectEstablished">>) = {"connectEstablished"}
    BY DEF Range
  <2> QED
    BY <1>1, <2>1 DEF Queued, LifeInv, ConnectingInv
<1> QED
  BY <1>1, <1>2 DEF LifeInv, UpInv, TypeOK, ConnTypes

LEMMA TodoStep == TypeOK /\ LifeInv /\ [Next]_vars => TodoInv'
<1> SUFFICES ASSUME TypeOK, LifeInv, [Next]_vars PROVE TodoInv'
  OBVIOUS
<1>0. TodoInv
  BY DEF LifeInv
<1>1. CASE UNCHANGED <<todo, peerVars, downs>>
  BY <1>0, <1>1, TodoStays
<1>2. CASE UNCHANGED vars
  BY <1>1, <1>2 DEF vars, connVars, socketVars, loopVars
<1>3. CASE poll
  BY <1>3, PollTodo DEF poll
<1>4. CASE closeCallback \/ handleReadEof
  BY <1>0, <1>4, CloseTodo
<1>5. CASE handleError \/ handleReadError \/ handleWrite \/ handleWriteNothing
  <2>1. (\E e : callback(e)) /\ UNCHANGED <<peerVars, downs>>
    BY <1>5 DEF handleError, handleReadError, handleWrite, handleWriteNothing, connVars
  <2> QED
    BY <1>0, <2>1, CallbackTodo, TodoStays
<1>6. CASE handleRead
  <2>1. callback("IN") /\ incoming > 0 /\ UNCHANGED <<peer, downs>>
    BY <1>6 DEF handleRead, connVars
  <2> QED
    BY <1>0, <2>1, CallbackTodo DEF TodoInv
<1>7. CASE connectDestroyed
  <2>1. UNCHANGED <<todo, peerVars>>
    BY <1>7 DEF connectDestroyed, functor, socketVars
  <2>2. downs > 0
    BY <1>7, DestroyedIsDown
  <2> QED
    BY <1>0, <2>1, <2>2 DEF TodoInv, peerVars
<1>8. CASE takeFunctors \/ connectEstablished \/ noticeFunctor \/ functorOfFreed
             \/ shutdownFunctor \/ functorsDone \/ callbackReturns
  BY <1>1, <1>8 DEF takeFunctors, connectEstablished, noticeFunctor, functorOfFreed,
       shutdownFunctor, functorsDone, callbackReturns, functor, connVars, socketVars
<1>9. ASSUME NEW m \in Messages, sendFunctor(m) \/ send_own(m) PROVE TodoInv'
  BY <1>1, <1>9 DEF sendFunctor, send_own, functor, loopVars
<1>10. CASE BaseStep \/ shutdown_own
  BY <1>1, <1>10 DEF BaseStep, removeConnectionInLoop, baseBatchDone, shutdown_own,
       connVars, socketVars, loopVars
<1>11. ASSUME NEW u \in Users,
              UserStep(u) \/ shutdown(u) \/ drop(u) \/ \E m \in Messages : send(u, m)
       PROVE  TodoInv'
  BY <1>1, <1>11 DEF UserStep, send_queue, shutdown_queue, queues, shutdown_setState,
       shutdown, send, goesOn, drop, connVars, socketVars, loopVars
<1>12. CASE peerSends \/ peerCloses \/ peerResets
  <2>1. /\ UNCHANGED <<todo, downs>> /\ peer' \in {peer, "fin", "rst"}
        /\ \/ UNCHANGED incoming
           \/ peer = "open" /\ peer' = "open" /\ incoming' = incoming + 1
    BY <1>12 DEF peerSends, peerCloses, peerResets, connVars, loopVars
  <2>2. incoming \in Nat
    BY ConnectionAssumption DEF TypeOK, SocketTypes
  <2>3. peer # "open" => peer' # "open"
    BY <1>12 DEF peerSends, peerCloses, peerResets
  <2> QED
    BY <1>0, <2>1, <2>2, <2>3 DEF TodoInv
<1> QED
  BY <1>2, <1>3, <1>4, <1>5, <1>6, <1>7, <1>8, <1>9, <1>10, <1>11, <1>12
     DEF Next, LoopStep

\* Functors that are not connectEstablished's or connectDestroyed's.
LEMMA OtherFunctors ==
  /\ "connectEstablished" \notin Bare \cup Notices
  /\ "connectDestroyed" \notin Bare \cup Notices
  /\ "connectDestroyed" # "connectEstablished"
  BY ConnectionAssumption DEF Bare, Notices

\* What sendInLoop queues.
LEMMA SendQueued ==
  ASSUME TypeOK, NEW m \in Messages, sendInLoop(m), Range(functors') \subseteq Queued
  PROVE  Queued' \subseteq Queued \cup Notices
<1>1. \A f \in Range(m_pendingFunctors') : f \in Range(m_pendingFunctors) \cup Notices
  BY SendTypes DEF TypeOK, SocketTypes, QueueTypes
<1> QED
  BY <1>1 DEF Queued

\* Functors queued beside a batch that only shrinks.
LEMMA MoreQueued ==
  ASSUME TypeOK, NEW f \in Functors, queue(<<f>>), Range(functors') \subseteq Queued
  PROVE  Queued' \subseteq Queued \cup {f}
<1>1. <<f>> \in Seq(Functors) /\ Range(<<f>>) = {f}
  BY DEF Range
<1>2. Range(m_pendingFunctors') = Range(m_pendingFunctors) \cup {f}
  BY <1>1, QueueGrows DEF TypeOK, QueueTypes
<1> QED
  BY <1>2 DEF Queued

\* connectDestroyed is queued by a close, in the base loop or through it; nothing
\* queues connectEstablished.
LEMMA QueuedStep ==
  ASSUME TypeOK, [Next]_vars
  PROVE  \/ Queued' \subseteq Queued \cup Bare \cup Notices
         \/ /\ Queued' \subseteq Queued \cup {"connectDestroyed"}
            /\ downs' = downs + 1 \/ baseQueue > 0
<1>1. ASSUME UNCHANGED m_pendingFunctors, Range(functors') \subseteq Queued
      PROVE  Queued' \subseteq Queued
  BY <1>1 DEF Queued
<1>2. UNCHANGED functors => Range(functors') \subseteq Queued
  BY DEF Queued
<1>3. ASSUME NEW f, functor(f) PROVE Range(functors') \subseteq Queued
  BY <1>3, FunctorQueued DEF Queued
<1>4. CASE UNCHANGED vars
  BY <1>1, <1>2, <1>4 DEF vars, queueVars, loopVars, batchVars
<1>5. CASE poll \/ callbackReturns
  BY <1>1, <1>2, <1>5 DEF poll, pollReports, callbackReturns, queueVars, batchVars
<1>6. CASE takeFunctors
  <2>1. functors' = m_pendingFunctors /\ m_pendingFunctors' = <<>>
    BY <1>6 DEF takeFunctors
  <2>2. Range(<<>>) = {}
    BY DEF Range
  <2> QED
    BY <2>1, <2>2 DEF Queued
<1>7. CASE closeCallback \/ handleReadEof
  <2>1. UNCHANGED functors /\ handleClose
    BY <1>7 DEF closeCallback, handleReadEof, callback, batchVars
  <2>2. /\ downs' = downs + 1
        /\ UNCHANGED m_pendingFunctors \/ queue(<<"connectDestroyed">>)
    BY <2>1 DEF handleClose
  <2>3. "connectDestroyed" \in Functors
    BY DEF Functors
  <2> QED
    BY <1>1, <1>2, <2>1, <2>2, <2>3, MoreQueued
<1>8. CASE handleError \/ handleRead \/ handleReadError \/ handleWriteNothing
  BY <1>1, <1>2, <1>8 DEF handleError, handleRead, handleReadError, handleWriteNothing,
       callback, batchVars, queueVars
<1>9. CASE handleWrite
  <2>1. /\ UNCHANGED functors
        /\ UNCHANGED m_pendingFunctors \/ queue(<<"writeComplete">>)
    BY <1>9 DEF handleWrite, bufferEmptied, callback, batchVars
  <2>2. "writeComplete" \in Functors /\ "writeComplete" \in Notices
    BY DEF Functors, Notices
  <2> QED
    BY <1>1, <1>2, <2>1, <2>2, MoreQueued
<1>10. CASE connectEstablished \/ connectDestroyed \/ noticeFunctor
              \/ shutdownFunctor \/ functorOfFreed
  <2>1. (\E f : functor(f)) /\ UNCHANGED m_pendingFunctors
    BY <1>10 DEF connectEstablished, connectDestroyed, noticeFunctor, shutdownFunctor,
         functorOfFreed, queueVars
  <2> QED
    BY <1>1, <1>3, <2>1
<1>11. ASSUME NEW m \in Messages, sendFunctor(m) \/ send_own(m)
       PROVE  Queued' \subseteq Queued \cup Notices
  <2>1. sendInLoop(m) /\ (UNCHANGED functors \/ functor(m))
    BY <1>11 DEF sendFunctor, send_own, loopVars, batchVars
  <2> QED
    BY <1>2, <1>3, <2>1, SendQueued
<1>12. CASE functorsDone \/ baseBatchDone \/ shutdown_own
              \/ peerSends \/ peerCloses \/ peerResets
  BY <1>1, <1>2, <1>12 DEF functorsDone, baseBatchDone, shutdown_own, peerSends,
       peerCloses, peerResets, queueVars, loopVars, batchVars
<1>13. CASE removeConnectionInLoop
  <2>1. UNCHANGED functors /\ baseQueue > 0 /\ queue(<<"connectDestroyed">>)
    BY <1>13 DEF removeConnectionInLoop, loopVars, batchVars
  <2>2. "connectDestroyed" \in Functors
    BY DEF Functors
  <2> QED
    BY <1>2, <2>1, <2>2, MoreQueued
<1>14. ASSUME NEW u \in Users,
              UserStep(u) \/ shutdown(u) \/ drop(u) \/ \E m \in Messages : send(u, m)
       PROVE  Queued' \subseteq Queued \cup Bare
  <2>1. CASE shutdown_setState(u) \/ shutdown(u) \/ drop(u) \/ \E m \in Messages : send(u, m)
    BY <1>1, <1>2, <2>1 DEF shutdown_setState, shutdown, send, goesOn, drop, queueVars,
         loopVars, batchVars
  <2>2. ASSUME NEW f \in Bare, queues(u, f) PROVE Queued' \subseteq Queued \cup Bare
    <3>1. UNCHANGED functors /\ queue(<<f>>) /\ f \in Functors
      BY <2>2 DEF queues, loopVars, batchVars, Functors
    <3> QED
      BY <1>2, <3>1, MoreQueued
  <2> QED
    BY <1>14, <2>1, <2>2 DEF UserStep, send_queue, shutdown_queue, Bare
<1> QED
  BY <1>4, <1>5, <1>6, <1>7, <1>8, <1>9, <1>10, <1>11, <1>12, <1>13, <1>14
     DEF Next, LoopStep, BaseStep

\* Until connectEstablished runs, only the loop's batch, the base loop's, and the
\* peer make a step.
LEMMA OnlyEstablishes ==
  ASSUME TypeOK, ConnectingInv, Next, m_state = "Connecting"
  PROVE  connectEstablished \/ takeFunctors \/ functorsDone \/ baseBatchDone
           \/ peerSends \/ peerCloses \/ peerResets
<1>1. /\ functors = <<>> \/ functors = <<"connectEstablished">>
      /\ ~watched /\ todo = <<>> /\ ~inUser /\ holds = {} /\ ~(baseQueue > 0)
  BY DEF ConnectingInv
<1>2. \A u \in Users : tpc[u] = "idle"
  BY <1>1 DEF TypeOK, UserTypes
<1>3. ~poll
  BY <1>1 DEF poll, pollReports
<1>4. \A e : ~callback(e)
  BY <1>1 DEF callback
<1>5. \A f : functor(f) => f = "connectEstablished"
  BY <1>1 DEF functor
<1>6. ~(closeCallback \/ handleError \/ handleRead \/ handleReadEof \/ handleReadError
          \/ handleWrite \/ handleWriteNothing)
  BY <1>4 DEF closeCallback, handleError, handleRead, handleReadEof, handleReadError,
       handleWrite, handleWriteNothing
<1>7. ~(connectDestroyed \/ noticeFunctor \/ (\E m \in Messages : sendFunctor(m))
          \/ shutdownFunctor \/ functorOfFreed)
  <2>1. \A f \in Bare \cup Notices \cup {"connectDestroyed"} : ~functor(f)
    BY <1>5, OtherFunctors
  <2> QED
    BY <2>1 DEF connectDestroyed, noticeFunctor, sendFunctor, shutdownFunctor,
         functorOfFreed, Bare
<1>8. ~(callbackReturns \/ removeConnectionInLoop \/ (\E m \in Messages : send_own(m))
          \/ shutdown_own)
  BY <1>1 DEF callbackReturns, removeConnectionInLoop, send_own, shutdown_own
<1>9. \A u \in Users :
        ~(UserStep(u) \/ shutdown(u) \/ drop(u) \/ \E m \in Messages : send(u, m))
  <2>1. "idle" \notin Messages
    BY ConnectionAssumption
  <2> QED
    BY <1>1, <1>2, <2>1 DEF UserStep, send_queue, shutdown_setState, shutdown_queue,
         shutdown, send, goesOn, drop
<1> QED
  BY <1>3, <1>6, <1>7, <1>8, <1>9 DEF Next, LoopStep, BaseStep

\* connectEstablished runs while the connection is being established, and then
\* nothing else is queued.
LEMMA EstablishedOnce ==
  ASSUME TypeOK, ConnectingInv, connectEstablished
  PROVE  /\ m_state = "Connecting" /\ m_state' = "Connected" /\ UNCHANGED downs
         /\ functors' = <<>> /\ UNCHANGED <<m_pendingFunctors, baseVars>>
         /\ Queued' = {} /\ watched' = TRUE /\ m_events' = {"IN"}
<1>1. "connectEstablished" \in Queued
  BY FunctorQueued DEF connectEstablished
<1>2. m_state = "Connecting" /\ m_events = {}
  BY <1>1 DEF ConnectingInv
<1>3. functors # <<>> /\ functors' = Tail(functors)
  BY DEF connectEstablished, functor
<1>4. functors = <<"connectEstablished">> /\ m_pendingFunctors = <<>>
  BY <1>2, <1>3 DEF ConnectingInv
<1>5. functors' = <<>>
  BY <1>3, <1>4
<1>6. UNCHANGED <<m_pendingFunctors, baseVars, downs>> /\ m_state' = "Connected"
  BY DEF connectEstablished, queueVars
<1>7. Range(<<>>) = {}
  BY DEF Range
<1>8. Queued' = {}
  BY <1>4, <1>5, <1>6, <1>7 DEF Queued
<1>9. m_events' = {"IN"} /\ watched' = TRUE
  <2>1. m_events' = {"IN"} /\ watched' = ~(watched /\ m_events \cup {"IN"} = {})
    BY <1>2 DEF connectEstablished, setEvents
  <2>2. ~(m_events \cup {"IN"} = {})
    OBVIOUS
  <2> QED
    BY <2>1, <2>2
<1> QED
  BY <1>2, <1>5, <1>6, <1>8, <1>9

\* Who changes m_state.
LEMMA StateStep ==
  ASSUME [Next]_vars
  PROVE  \/ UNCHANGED m_state
         \/ connectEstablished
         \/ handleClose \/ connectDestroyed
         \/ shutdown_own
         \/ \E u \in Users : shutdown_setState(u)
<1>1. CASE poll \/ takeFunctors \/ handleError \/ handleRead \/ handleReadError
             \/ handleWrite \/ handleWriteNothing \/ noticeFunctor
             \/ (\E m \in Messages : sendFunctor(m)) \/ shutdownFunctor
             \/ functorOfFreed \/ functorsDone \/ callbackReturns
  BY <1>1 DEF poll, pollReports, takeFunctors, handleError, handleRead, handleReadError,
       handleWrite, handleWriteNothing, noticeFunctor, sendFunctor, shutdownFunctor,
       functorOfFreed, functorsDone, callbackReturns, connVars
<1>2. CASE closeCallback \/ handleReadEof
  BY <1>2 DEF closeCallback, handleReadEof
<1>3. CASE BaseStep \/ (\E m \in Messages : send_own(m))
             \/ peerSends \/ peerCloses \/ peerResets
  BY <1>3 DEF BaseStep, removeConnectionInLoop, baseBatchDone, send_own, peerSends,
       peerCloses, peerResets, connVars
<1>4. ASSUME NEW u \in Users,
             send_queue(u) \/ shutdown_queue(u) \/ shutdown(u) \/ drop(u)
               \/ \E m \in Messages : send(u, m)
      PROVE  UNCHANGED m_state
  BY <1>4 DEF send_queue, shutdown_queue, queues, shutdown, send, goesOn, drop, connVars
<1>5. CASE UNCHANGED vars
  BY <1>5 DEF vars, connVars
<1> QED
  BY <1>1, <1>2, <1>3, <1>4, <1>5 DEF Next, LoopStep, UserStep

\* A batch is only there while it is being run.
LEMMA BatchStep ==
  ASSUME [Next]_vars, pc # "functors" => functors = <<>>
  PROVE  pc' # "functors" => functors' = <<>>
<1>1. UNCHANGED <<pc, functors>> => (pc' # "functors" => functors' = <<>>)
  OBVIOUS
<1>2. CASE poll \/ takeFunctors \/ functorsDone
  BY <1>2 DEF poll, pollReports, takeFunctors, functorsDone
<1>3. CASE closeCallback \/ handleError \/ handleRead \/ handleReadEof
             \/ handleReadError \/ handleWrite \/ handleWriteNothing \/ callbackReturns
  <2>1. UNCHANGED batchVars
    BY <1>3 DEF closeCallback, handleError, handleRead, handleReadEof, handleReadError,
         handleWrite, handleWriteNothing, callback, callbackReturns
  <2> QED
    BY <1>1, <2>1 DEF batchVars
<1>4. ASSUME NEW f, functor(f) PROVE pc' = "functors"
  BY <1>4 DEF functor
<1>5. CASE connectEstablished \/ connectDestroyed \/ noticeFunctor
             \/ (\E m \in Messages : sendFunctor(m)) \/ shutdownFunctor \/ functorOfFreed
  BY <1>4, <1>5 DEF connectEstablished, connectDestroyed, noticeFunctor, sendFunctor,
       shutdownFunctor, functorOfFreed
<1>6. CASE BaseStep \/ (\E m \in Messages : send_own(m)) \/ shutdown_own
             \/ peerSends \/ peerCloses \/ peerResets
  BY <1>1, <1>6 DEF BaseStep, removeConnectionInLoop, baseBatchDone, send_own,
       shutdown_own, peerSends, peerCloses, peerResets, loopVars, batchVars
<1>7. ASSUME NEW u \in Users,
             UserStep(u) \/ shutdown(u) \/ drop(u) \/ \E m \in Messages : send(u, m)
      PROVE  UNCHANGED <<pc, functors>>
  BY <1>7 DEF UserStep, send_queue, shutdown_queue, queues, shutdown_setState,
       shutdown, send, goesOn, drop, loopVars, batchVars
<1>8. CASE UNCHANGED vars
  BY <1>1, <1>8 DEF vars, loopVars, batchVars
<1> QED
  BY <1>1, <1>2, <1>3, <1>5, <1>6, <1>7, <1>8 DEF Next, LoopStep

LEMMA ConnectingStep == TypeOK /\ LifeInv /\ [Next]_vars => ConnectingInv'
<1> SUFFICES ASSUME TypeOK, LifeInv, [Next]_vars PROVE ConnectingInv'
  OBVIOUS
<1>0. ConnectingInv
  BY DEF LifeInv
<1>1. pc' # "functors" => functors' = <<>>
  BY <1>0, BatchStep DEF ConnectingInv
<1>2. CASE connectEstablished
  BY <1>0, <1>1, <1>2, EstablishedOnce DEF ConnectingInv
<1>3. ASSUME ~connectEstablished, m_state # "Connecting"
      PROVE  m_state' # "Connecting" /\ "connectEstablished" \notin Queued'
  <2>1. m_state' # "Connecting"
    BY <1>3, StateStep DEF handleClose, connectDestroyed, shutdown_own, shutdown_setState
  <2>2. "connectEstablished" \notin Queued
    BY <1>0, <1>3 DEF ConnectingInv
  <2> QED
    BY <2>1, <2>2, QueuedStep, OtherFunctors
<1>4. ASSUME ~connectEstablished, m_state = "Connecting"
      PROVE  /\ m_state' = "Connecting"
             /\ \/ functors' = <<>> /\ m_pendingFunctors' = <<"connectEstablished">>
                \/ functors' = <<"connectEstablished">> /\ m_pendingFunctors' = <<>>
             /\ ~watched' /\ m_events' = {} /\ todo' = <<>> /\ ~inUser' /\ holds' = {}
             /\ inMap' /\ baseQueue' = 0 /\ downs' = 0
  <2>1. \/ UNCHANGED vars
        \/ takeFunctors \/ functorsDone \/ baseBatchDone
        \/ peerSends \/ peerCloses \/ peerResets
    BY <1>0, <1>4, OnlyEstablishes
  <2>2. UNCHANGED <<connVars, todo, inUser, inMap, baseQueue, holds>>
    BY <2>1 DEF takeFunctors, functorsDone, baseBatchDone, peerSends, peerCloses,
         peerResets, vars, loopVars, baseVars, queueVars, userVars
  <2>3. UNCHANGED <<m_state, m_events, watched, downs>>
    BY <2>2 DEF connVars, channelVars
  <2>4. \/ UNCHANGED <<functors, m_pendingFunctors>>
        \/ pc # "functors" /\ functors' = m_pendingFunctors /\ m_pendingFunctors' = <<>>
    BY <2>1 DEF takeFunctors, functorsDone, baseBatchDone, peerSends, peerCloses,
         peerResets, vars, loopVars, batchVars, queueVars
  <2> QED
    BY <1>0, <1>4, <2>2, <2>3, <2>4 DEF ConnectingInv
<1> QED
  BY <1>1, <1>2, <1>3, <1>4 DEF ConnectingInv

\* What sendInLoop does to a channel that is watched for input.
LEMMA SendInterest ==
  ASSUME NEW m \in Messages, sendInLoop(m), watched, "IN" \in m_events
  PROVE  watched' /\ "IN" \in m_events'
<1>1. \/ UNCHANGED channelVars
      \/ setEvents(m_events \cup {"OUT"})
  BY DEF sendInLoop, sendFault, sendPart, enableWriting
<1> QED
  BY <1>1 DEF channelVars, setEvents

\* Steps of a connection that is up and does not close: it stays watched for input
\* and in the map.
LEMMA StaysUp ==
  ASSUME TypeOK, LifeInv, [Next]_vars,
         m_state # "Connecting", downs = 0, downs' = 0
  PROVE  /\ m_state' = m_state \/ m_state' = "Disconnecting"
         /\ watched' /\ "IN" \in m_events'
         /\ UNCHANGED <<inMap, baseQueue>>
<1>1. watched /\ "IN" \in m_events /\ baseQueue = 0
  BY DEF LifeInv, UpInv
<1>2. ~handleClose /\ ~closeCallback /\ ~handleReadEof
  BY DEF handleClose, closeCallback, handleReadEof
<1>3. ~connectDestroyed
  BY DestroyedIsDown
<1>4. ~connectEstablished
  BY EstablishedOnce DEF LifeInv
<1>5. ~removeConnectionInLoop
  BY <1>1 DEF removeConnectionInLoop
<1>6. m_state' = m_state \/ m_state' = "Disconnecting"
  BY <1>2, <1>3, <1>4, StateStep DEF shutdown_own, shutdown_setState
<1>7. UNCHANGED channelVars => watched' /\ "IN" \in m_events'
  BY <1>1 DEF channelVars
<1>8. CASE poll \/ takeFunctors \/ handleError \/ handleRead \/ handleReadError
             \/ handleWriteNothing \/ noticeFunctor \/ shutdownFunctor
             \/ functorOfFreed \/ functorsDone \/ callbackReturns
  <2>1. UNCHANGED <<channelVars, inMap, baseQueue>>
    BY <1>8 DEF poll, pollReports, takeFunctors, handleError, handleRead, handleReadError,
         handleWriteNothing, noticeFunctor, shutdownFunctor, functorOfFreed, functorsDone,
         callbackReturns, connVars, queueVars, baseVars
  <2> QED
    BY <1>6, <1>7, <2>1
<1>9. CASE handleWrite
  <2>1. UNCHANGED <<inMap, baseQueue>>
    BY <1>9 DEF handleWrite, baseVars
  <2>2. UNCHANGED channelVars \/ setEvents(m_events \ {"OUT"})
    BY <1>9 DEF handleWrite, bufferEmptied
  <2>3. setEvents(m_events \ {"OUT"}) => watched' /\ "IN" \in m_events'
    BY <1>1 DEF setEvents
  <2> QED
    BY <1>6, <1>7, <2>1, <2>2, <2>3
<1>10. ASSUME NEW m \in Messages, sendFunctor(m) \/ send_own(m)
       PROVE  watched' /\ "IN" \in m_events' /\ UNCHANGED <<inMap, baseQueue>>
  <2>1. sendInLoop(m) /\ UNCHANGED <<inMap, baseQueue>>
    BY <1>10 DEF sendFunctor, send_own, baseVars
  <2> QED
    BY <1>1, <2>1, SendInterest
<1>11. CASE baseBatchDone \/ shutdown_own \/ peerSends \/ peerCloses \/ peerResets
  <2>1. UNCHANGED <<channelVars, inMap, baseQueue>>
    BY <1>11 DEF baseBatchDone, shutdown_own, peerSends, peerCloses, peerResets, connVars,
         queueVars, baseVars
  <2> QED
    BY <1>6, <1>7, <2>1
<1>12. ASSUME NEW u \in Users,
              UserStep(u) \/ shutdown(u) \/ drop(u) \/ \E m \in Messages : send(u, m)
       PROVE  UNCHANGED <<channelVars, inMap, baseQueue>>
  BY <1>12 DEF UserStep, send_queue, shutdown_queue, queues, shutdown_setState,
       shutdown, send, goesOn, drop, connVars, queueVars, baseVars
<1>13. CASE UNCHANGED vars
  <2>1. UNCHANGED <<channelVars, inMap, baseQueue>>
    BY <1>13 DEF vars, connVars, queueVars, baseVars
  <2> QED
    BY <1>6, <1>7, <2>1
<1> QED
  BY <1>2, <1>3, <1>4, <1>5, <1>6, <1>7, <1>8, <1>9, <1>10, <1>11, <1>12, <1>13
     DEF Next, LoopStep, BaseStep

\* Who announces the connection down.
LEMMA DownsGrow ==
  ASSUME TypeOK, [Next]_vars
  PROVE  \/ UNCHANGED downs
         \/ downs' = downs + 1 /\ (closeCallback \/ handleReadEof \/ connectDestroyed)
<1>1. CASE poll \/ takeFunctors \/ handleError \/ handleRead \/ handleReadError
             \/ handleWrite \/ handleWriteNothing \/ connectEstablished \/ noticeFunctor
             \/ (\E m \in Messages : sendFunctor(m)) \/ shutdownFunctor
             \/ functorOfFreed \/ functorsDone \/ callbackReturns
  BY <1>1 DEF poll, pollReports, takeFunctors, handleError, handleRead, handleReadError,
       handleWrite, handleWriteNothing, connectEstablished, noticeFunctor, sendFunctor,
       shutdownFunctor, functorOfFreed, functorsDone, callbackReturns, connVars
<1>2. CASE closeCallback \/ handleReadEof
  BY <1>2 DEF closeCallback, handleReadEof, handleClose
<1>3. CASE connectDestroyed
  BY <1>3 DEF connectDestroyed
<1>4. CASE BaseStep \/ (\E m \in Messages : send_own(m)) \/ shutdown_own
             \/ peerSends \/ peerCloses \/ peerResets
  BY <1>4 DEF BaseStep, removeConnectionInLoop, baseBatchDone, send_own, shutdown_own,
       peerSends, peerCloses, peerResets, connVars
<1>5. ASSUME NEW u \in Users,
             UserStep(u) \/ shutdown(u) \/ drop(u) \/ \E m \in Messages : send(u, m)
      PROVE  UNCHANGED downs
  BY <1>5 DEF UserStep, send_queue, shutdown_queue, queues, shutdown_setState, shutdown,
       send, goesOn, drop, connVars
<1>6. CASE UNCHANGED vars
  BY <1>6 DEF vars, connVars
<1> QED
  BY <1>1, <1>2, <1>3, <1>4, <1>5, <1>6 DEF Next, LoopStep

LEMMA UpStep == TypeOK /\ LifeInv /\ [Next]_vars => UpInv'
<1> SUFFICES ASSUME TypeOK, LifeInv, [Next]_vars, m_state' # "Connecting", downs' = 0
             PROVE  /\ m_state' # "Disconnected"
                    /\ watched' /\ "IN" \in m_events'
                    /\ inMap' /\ baseQueue' = 0 /\ "connectDestroyed" \notin Queued'
  BY DEF UpInv
<1>1. downs = 0
  BY DownsGrow DEF TypeOK, ConnTypes
<1>2. CASE connectEstablished
  <2>1. m_state = "Connecting" /\ inMap /\ baseQueue = 0
    BY <1>2, EstablishedOnce DEF LifeInv, ConnectingInv
  <2>2. m_state' = "Connected" /\ UNCHANGED <<inMap, baseQueue>>
        /\ Queued' = {} /\ watched' = TRUE /\ m_events' = {"IN"}
    BY <1>2, EstablishedOnce DEF LifeInv, baseVars
  <2> QED
    BY <2>1, <2>2
<1>3. CASE ~connectEstablished
  <2>1. m_state # "Connecting"
    <3> SUFFICES ASSUME m_state = "Connecting" PROVE FALSE
      OBVIOUS
    <3>1. \/ UNCHANGED vars
          \/ takeFunctors \/ functorsDone \/ baseBatchDone
          \/ peerSends \/ peerCloses \/ peerResets
      BY <1>3, OnlyEstablishes DEF LifeInv
    <3>2. UNCHANGED m_state
      BY <3>1 DEF takeFunctors, functorsDone, baseBatchDone, peerSends, peerCloses,
           peerResets, vars, connVars
    <3> QED
      BY <3>2
  <2>2. /\ m_state # "Disconnected" /\ inMap /\ baseQueue = 0
        /\ "connectDestroyed" \notin Queued
    BY <1>1, <2>1 DEF LifeInv, UpInv
  <2>3. /\ m_state' = m_state \/ m_state' = "Disconnecting"
        /\ watched' /\ "IN" \in m_events' /\ UNCHANGED <<inMap, baseQueue>>
    BY <1>1, <2>1, StaysUp
  <2>4. "connectDestroyed" \notin Queued'
    BY <1>1, <2>2, QueuedStep, OtherFunctors
  <2> QED
    BY <2>2, <2>3, <2>4
<1> QED
  BY <1>2, <1>3

LEMMA LifeStep == TypeOK /\ LifeInv /\ [Next]_vars => LifeInv'
  BY TodoStep, ConnectingStep, UpStep DEF LifeInv

LEMMA LifeCorrect == SafeSpec => []LifeInv
  BY TypeCorrect, LifeInit, LifeStep, PTL DEF SafeSpec

\* ReadToTheEnd: whatever the peer sent before it hung up or reset is read before
\* handleClose announces the connection down (Channel.cpp:58).
THEOREM ReadsToTheEnd == SafeSpec => ReadToTheEnd
<1>1. TypeOK /\ LifeInv /\ [Next]_vars => [downs' > downs => incoming = 0]_vars
  <2> SUFFICES ASSUME TypeOK, LifeInv, [Next]_vars, downs' > downs PROVE incoming = 0
    OBVIOUS
  <2>1. CASE connectDestroyed
    BY <2>1, DestroyedIsDown DEF LifeInv, TodoInv
  <2>2. CASE closeCallback \/ handleReadEof
    BY <2>2, CloseTodo DEF LifeInv
  <2>3. downs' # downs
    BY DEF TypeOK, ConnTypes
  <2> QED
    BY <2>1, <2>2, <2>3, DownsGrow
<1> QED
  BY <1>1, TypeCorrect, LifeCorrect, PTL DEF SafeSpec, ReadToTheEnd

------------------------------------------------------------------------------
(***************************************************************************)
(* A connection closes once, unless the setState(Disconnecting) of another *)
(* thread in shutdown() follows handleClose's setState(Disconnected).      *)
(***************************************************************************)

\* The connection is closed and stays so.
Down ==
  /\ downs = 1 /\ m_state = "Disconnected"
  /\ ~watched /\ m_events = {} /\ Range(todo) \cap {"IN", "HUP"} = {}

\* It was closed once, and its state has been overwritten since.
Disturbed == downs > 0 /\ (downs = 1 => m_state # "Disconnected")

OnceInv == \/ downs = 0 /\ m_state # "Disconnected"
           \/ Down
           \/ Disturbed

\* No user thread is inside shutdown().
NoShutdown == \A u \in Users : tpc[u] \notin {"setState", "shutdown"}

LEMMA OnceInit == Init => OnceInv
<1> SUFFICES ASSUME Init PROVE OnceInv
  OBVIOUS
<1>1. /\ tpc = [u \in Users |-> "idle"] /\ downs = 0
      /\ m_state = IF sharedLoop THEN "Connected" ELSE "Connecting"
  BY DEF Init
<1> QED
  BY <1>1 DEF OnceInv

\* The user threads are never inside shutdown() if they do not call it.
LEMMA NobodyInShutdown ==
  ASSUME ~ShutdownOutside, TypeOK, [Next]_vars, NoShutdown
  PROVE  NoShutdown'
<1> USE DEF NoShutdown
<1>1. CASE UNCHANGED tpc
  BY <1>1
<1>2. CASE UNCHANGED vars
  BY <1>1, <1>2 DEF vars, userVars
<1>3. CASE poll \/ takeFunctors \/ functorsDone \/ callbackReturns
  BY <1>1, <1>3 DEF poll, pollReports, takeFunctors, functorsDone, callbackReturns, userVars
<1>4. CASE closeCallback \/ handleError \/ handleRead \/ handleReadEof
             \/ handleReadError \/ handleWrite \/ handleWriteNothing
  BY <1>1, <1>4 DEF closeCallback, handleError, handleRead, handleReadEof,
       handleReadError, handleWrite, handleWriteNothing, callback, userVars
<1>5. CASE connectEstablished \/ connectDestroyed \/ noticeFunctor
             \/ (\E m \in Messages : sendFunctor(m)) \/ shutdownFunctor \/ functorOfFreed
  BY <1>1, <1>5 DEF connectEstablished, connectDestroyed, noticeFunctor, sendFunctor,
       shutdownFunctor, functorOfFreed, functor
<1>6. CASE BaseStep \/ (\E m \in Messages : send_own(m)) \/ shutdown_own
             \/ peerSends \/ peerCloses \/ peerResets
  BY <1>1, <1>6 DEF BaseStep, removeConnectionInLoop, baseBatchDone, send_own,
       shutdown_own, peerSends, peerCloses, peerResets, userVars
<1>7. ASSUME NEW u \in Users,
             UserStep(u) \/ shutdown(u) \/ drop(u) \/ \E m \in Messages : send(u, m)
      PROVE  \A v \in Users : tpc'[v] \notin {"setState", "shutdown"}
  <2>1. {"setState", "shutdown"} \cap (Messages \cup {"idle"}) = {}
    BY ConnectionAssumption
  <2>2. UNCHANGED tpc \/ \E to \in Messages \cup {"idle"} : tpc' = [tpc EXCEPT ![u] = to]
    BY <1>7 DEF UserStep, send_queue, shutdown_queue, queues, shutdown_setState, shutdown,
         send, goesOn, drop
  <2> QED
    BY <2>1, <2>2 DEF TypeOK, UserTypes
<1> QED
  BY <1>2, <1>3, <1>4, <1>5, <1>6, <1>7 DEF Next, LoopStep

\* Steps of a connection that has closed: it is not watched any more, and nothing
\* that handleEvent has left to do closes it again.
LEMMA StaysDown ==
  ASSUME TypeOK, LifeInv, Down, [Next]_vars
  PROVE  Down' \/ (overwritten' /\ \E u \in Users : shutdown_setState(u))
<1>1. /\ m_state = "Disconnected" /\ ~watched /\ m_events = {}
      /\ Range(todo) \cap {"IN", "HUP"} = {}
      /\ downs = 1
  BY DEF Down
<1>2. TodoInv
  BY DEF LifeInv
<1>3. UNCHANGED <<m_state, channelVars, downs, todo>> => Down'
  BY <1>1 DEF channelVars, Down
<1>4. \A e \in {"IN", "HUP"} : ~callback(e)
  BY <1>1, <1>2, CallbackTodo
<1>5. ~(closeCallback \/ handleRead \/ handleReadEof \/ handleReadError)
  BY <1>4 DEF closeCallback, handleRead, handleReadEof, handleReadError
<1>6. ~poll
  BY <1>1 DEF poll, pollReports
<1>7. ~handleWrite
  BY <1>1 DEF handleWrite, isWriting
<1>8. ~connectEstablished
  BY <1>1, EstablishedOnce DEF LifeInv
<1>9. CASE connectDestroyed
  BY <1>1, <1>9 DEF connectDestroyed, functor, Down
<1>10. CASE handleError \/ handleWriteNothing
  <2>1. (\E e : callback(e)) /\ UNCHANGED <<m_state, channelVars, downs>>
    BY <1>10 DEF handleError, handleWriteNothing, connVars
  <2>2. Range(todo') \cap {"IN", "HUP"} = {}
    BY <1>1, <1>2, <2>1, CallbackTodo
  <2> QED
    BY <1>1, <2>1, <2>2 DEF channelVars, Down
<1>11. CASE takeFunctors \/ noticeFunctor \/ shutdownFunctor \/ functorOfFreed
              \/ functorsDone \/ callbackReturns
  <2>1. UNCHANGED <<m_state, channelVars, downs, todo>>
    BY <1>11 DEF takeFunctors, noticeFunctor, shutdownFunctor, functorOfFreed,
         functorsDone, callbackReturns, functor, connVars
  <2> QED
    BY <1>3, <2>1
<1>12. ASSUME NEW m \in Messages, sendFunctor(m) \/ send_own(m)
       PROVE  UNCHANGED <<m_state, channelVars, downs, todo>>
  <2>1. /\ sendInLoop(m) /\ UNCHANGED <<m_state, downs, todo>>
    BY <1>12 DEF sendFunctor, send_own, functor, loopVars
  <2> QED
    BY <1>1, <2>1 DEF sendInLoop
<1>13. CASE BaseStep \/ peerSends \/ peerCloses \/ peerResets \/ UNCHANGED vars
  <2>1. UNCHANGED <<m_state, channelVars, downs, todo>>
    BY <1>13 DEF BaseStep, removeConnectionInLoop, baseBatchDone, peerSends, peerCloses,
         peerResets, vars, connVars, loopVars
  <2> QED
    BY <1>3, <2>1
<1>14. ~shutdown_own
  BY <1>1 DEF shutdown_own
<1>15. ASSUME NEW u \in Users,
              send_queue(u) \/ shutdown_queue(u) \/ shutdown(u) \/ drop(u)
              \/ \E m \in Messages : send(u, m)
       PROVE  UNCHANGED <<m_state, channelVars, downs, todo>>
  BY <1>1, <1>15 DEF send_queue, shutdown_queue, queues, shutdown, send, goesOn, drop,
       connVars, loopVars
<1>16. ASSUME NEW u \in Users, shutdown_setState(u)
       PROVE  overwritten'
  BY <1>1, <1>16 DEF shutdown_setState, overwritten
<1> QED
  BY <1>3, <1>5, <1>6, <1>7, <1>8, <1>9, <1>10, <1>11, <1>12, <1>13, <1>14, <1>15, <1>16
     DEF Next, LoopStep, UserStep

\* A connection whose state was overwritten does not come back to the table.
LEMMA StaysDisturbed ==
  ASSUME TypeOK, LifeInv, Disturbed, [Next]_vars
  PROVE  Disturbed'
<1>1. downs \in Nat /\ downs > 0
  BY DEF TypeOK, ConnTypes, Disturbed
<1>2. CASE downs' = downs + 1
  BY <1>1, <1>2 DEF Disturbed
<1>3. CASE UNCHANGED downs
  <2>1. ~handleClose
    BY <1>1, <1>3 DEF handleClose
  <2>2. ASSUME connectDestroyed PROVE UNCHANGED m_state
    BY <1>1, <1>3, <2>2 DEF connectDestroyed
  <2>3. m_state' = "Disconnected" => m_state = "Disconnected"
    BY <2>1, <2>2, StateStep DEF connectEstablished, shutdown_own, shutdown_setState
  <2> QED
    BY <1>1, <1>3, <2>3 DEF Disturbed
<1> QED
  BY <1>2, <1>3, DownsGrow

LEMMA OnceStep == TypeOK /\ LifeInv /\ OnceInv /\ [Next]_vars => OnceInv'
<1> SUFFICES ASSUME TypeOK, LifeInv, OnceInv, [Next]_vars PROVE OnceInv'
  OBVIOUS
<1>1. downs \in Nat
  BY DEF TypeOK, ConnTypes
<1>2. CASE downs # 0
  <2>1. Down \/ Disturbed
    BY <1>2 DEF OnceInv
  <2>2. overwritten' => Disturbed'
    BY DEF overwritten, Disturbed
  <2> QED
    BY <2>1, <2>2, StaysDown, StaysDisturbed DEF OnceInv
<1>3. CASE downs = 0 /\ UNCHANGED downs
  <2>1. ~handleClose /\ ~connectDestroyed
    BY <1>3, DestroyedIsDown DEF handleClose
  <2>2. m_state # "Disconnected"
    BY <1>3 DEF OnceInv, Down, Disturbed
  <2>3. m_state' # "Disconnected"
    BY <2>1, <2>2, StateStep DEF connectEstablished, shutdown_own, shutdown_setState
  <2> QED
    BY <1>3, <2>3 DEF OnceInv
<1>4. CASE downs = 0 /\ downs' = downs + 1
  <2>1. closeCallback \/ handleReadEof
    BY <1>4, DownsGrow, DestroyedIsDown
  <2>2. "IN" \notin Range(todo') /\ "HUP" \notin Range(todo')
    BY <2>1, CloseTodo DEF LifeInv
  <2>3. (\E e : callback(e)) /\ handleClose
    BY <2>1 DEF closeCallback, handleReadEof
  <2>4. m_state # "Connecting"
    BY <2>3 DEF callback, LifeInv, ConnectingInv
  <2>5. watched
    BY <1>4, <2>4 DEF LifeInv, UpInv
  <2>6. m_state' = "Disconnected" /\ m_events' = {} /\ ~watched'
    BY <2>3, <2>5 DEF handleClose, setEvents
  <2> QED
    BY <1>4, <2>2, <2>6 DEF OnceInv, Down
<1> QED
  BY <1>1, <1>2, <1>3, <1>4, DownsGrow DEF OnceInv

LEMMA OnceCorrect == SafeSpec => []OnceInv
  BY TypeCorrect, LifeCorrect, OnceInit, OnceStep, PTL DEF SafeSpec

\* A connection whose state was overwritten is in no stage.
LEMMA StageIsNot ==
  ASSUME TypeOK, Disturbed
  PROVE  stage = "none"
  BY DEF Disturbed, stage, TypeOK, ConnTypes, States

\* FreedIsRemoved: when the last TcpConnectionPtr goes, handleClose has taken the
\* channel out of the poller, unless shutdown() overwrote the state.
THEOREM FreedRemoved == SafeSpec => []FreedIsRemoved
<1>1. TypeOK /\ OnceInv => FreedIsRemoved
  <2> SUFFICES ASSUME TypeOK, OnceInv, stage = "released" PROVE ~watched
    BY DEF FreedIsRemoved
  <2>1. ~Disturbed
    BY StageIsNot
  <2>2. downs # 0
    BY DEF stage
  <2> QED
    BY <2>1, <2>2 DEF OnceInv, Down
<1> QED
  BY <1>1, TypeCorrect, OnceCorrect, PTL

\* sendInLoop alone takes messages on or drops them, and not when m_state is
\* Disconnected.
LEMMA ClosedTakesNothingOn ==
  ASSUME [Next]_vars, m_state = "Disconnected"
  PROVE  accepted' = accepted /\ lost' = lost
<1> USE DEF connVars, streamVars
<1>1. CASE poll \/ takeFunctors \/ functorsDone \/ callbackReturns
  BY <1>1 DEF poll, pollReports, takeFunctors, functorsDone, callbackReturns
<1>2. CASE closeCallback \/ handleError \/ handleRead \/ handleReadEof
             \/ handleReadError \/ handleWrite \/ handleWriteNothing
  BY <1>2 DEF closeCallback, handleError, handleRead, handleReadEof, handleClose,
       handleReadError, handleWrite, handleWriteNothing
<1>3. CASE connectEstablished \/ connectDestroyed \/ noticeFunctor
             \/ shutdownFunctor \/ functorOfFreed
  BY <1>3 DEF connectEstablished, connectDestroyed, noticeFunctor, shutdownFunctor,
       functorOfFreed
<1>4. ASSUME NEW m \in Messages, sendFunctor(m) \/ send_own(m)
      PROVE  accepted' = accepted /\ lost' = lost
  BY <1>4 DEF sendFunctor, send_own, sendInLoop
<1>5. CASE BaseStep \/ shutdown_own \/ peerSends \/ peerCloses \/ peerResets
  BY <1>5 DEF BaseStep, removeConnectionInLoop, baseBatchDone, shutdown_own, peerSends,
       peerCloses, peerResets
<1>6. ASSUME NEW u \in Users,
             UserStep(u) \/ shutdown(u) \/ drop(u) \/ \E m \in Messages : send(u, m)
      PROVE  accepted' = accepted /\ lost' = lost
  BY <1>6 DEF UserStep, send_queue, shutdown_queue, queues, shutdown_setState, shutdown,
       send, goesOn, drop
<1>7. CASE UNCHANGED vars
  BY <1>7 DEF vars
<1> QED
  BY <1>1, <1>2, <1>3, <1>4, <1>5, <1>6, <1>7 DEF Next, LoopStep

\* GivesUpWriting: what the comment on sendInLoop promises (TcpConnection.cpp:84)
\* is true of a connection that no other thread shuts down; so the race in
\* shutdown() is the only way around it.
THEOREM GivesUp ==
  ASSUME ~ShutdownOutside
  PROVE  SafeSpec => GivesUpWriting
<1> DEFINE Quiet == NoShutdown /\ ~Disturbed
<1>1. Init => Quiet
  <2> SUFFICES ASSUME Init PROVE Quiet
    OBVIOUS
  <2>1. tpc = [u \in Users |-> "idle"] /\ downs = 0
    BY DEF Init
  <2> QED
    BY <2>1 DEF NoShutdown, Disturbed
<1>2. TypeOK /\ LifeInv /\ OnceInv /\ Quiet /\ [Next]_vars => Quiet'
  <2> SUFFICES ASSUME TypeOK, LifeInv, OnceInv, Quiet, [Next]_vars PROVE ~Disturbed'
    BY NobodyInShutdown
  <2>1. CASE Down
    <3>1. ~\E u \in Users : shutdown_setState(u)
      BY DEF shutdown_setState, NoShutdown
    <3> QED
      BY <2>1, <3>1, StaysDown DEF Down, Disturbed
  <2>2. CASE downs = 0 /\ m_state # "Disconnected"
    <3>1. ASSUME downs' # 0 PROVE handleClose /\ downs' = 1
      BY <2>2, <3>1, DownsGrow, DestroyedIsDown DEF closeCallback, handleReadEof
    <3>2. downs' = 0 \/ (downs' = 1 /\ m_state' = "Disconnected")
      BY <3>1 DEF handleClose
    <3> QED
      BY <3>2 DEF Disturbed
  <2> QED
    BY <2>1, <2>2 DEF OnceInv
<1>3. TypeOK /\ OnceInv /\ Quiet /\ [Next]_vars =>
        [downs > 0 => accepted' = accepted /\ lost' = lost]_vars
  <2> SUFFICES ASSUME TypeOK, OnceInv, Quiet, [Next]_vars, downs > 0
               PROVE  accepted' = accepted /\ lost' = lost
    OBVIOUS
  <2>1. m_state = "Disconnected"
    BY DEF OnceInv, Down
  <2> QED
    BY <2>1, ClosedTakesNothingOn
<1> HIDE DEF Quiet
<1> QED
  BY <1>1, <1>2, <1>3, TypeCorrect, LifeCorrect, OnceCorrect, PTL DEF SafeSpec, GivesUpWriting

------------------------------------------------------------------------------
(***************************************************************************)
(* The connection's lifetime, however it is used.                          *)
(***************************************************************************)

\* A user callback runs below Channel::handleEvent, which holds a guard, or in a
\* batch with a functor that holds a TcpConnectionPtr.
CallbackHolds == inUser => pc = "handling" \/ (pc = "functors" /\ batchHolds)

\* User callbacks find the connection they are called for.
CallbacksFindConnection == inUser => Referenced

\* A connection nobody holds is never handed out again.
FreedForGood == [][~Referenced => ~(Referenced')]_vars

\* The functor that runs is one of the batch.
LEMMA FunctorInBatch ==
  ASSUME TypeOK, NEW f, functor(f)
  PROVE  f \in Range(functors)
<1>1. functors \in Seq(Functors) /\ functors # <<>> /\ f = Head(functors)
  BY DEF functor, TypeOK, LoopTypes
<1> QED
  BY <1>1, RangeTail

LEMMA CallbackHoldsStep == TypeOK /\ CallbackHolds /\ [Next]_vars => CallbackHolds'
<1> SUFFICES ASSUME TypeOK, CallbackHolds, [Next]_vars PROVE CallbackHolds'
  OBVIOUS
<1>1. UNCHANGED <<inUser, batchVars>> => CallbackHolds'
  BY DEF CallbackHolds, batchVars
<1>2. CASE UNCHANGED vars
  BY <1>1, <1>2 DEF vars, loopVars
<1>3. CASE takeFunctors \/ functorsDone \/ callbackReturns
  BY <1>3 DEF takeFunctors, functorsDone, callbackReturns, CallbackHolds
<1>4. CASE poll
  BY <1>4 DEF poll, pollReports, CallbackHolds
<1>5. ASSUME NEW e, callback(e) PROVE CallbackHolds'
  BY <1>5 DEF callback, batchVars, CallbackHolds
<1>6. CASE closeCallback \/ handleError \/ handleRead \/ handleReadEof
             \/ handleReadError \/ handleWrite \/ handleWriteNothing
  BY <1>5, <1>6 DEF closeCallback, handleError, handleRead, handleReadEof,
       handleReadError, handleWrite, handleWriteNothing
<1>7. CASE connectEstablished \/ noticeFunctor
  <2>1. PICK f \in Notices \cup {"connectEstablished"} : functor(f)
    BY <1>7 DEF connectEstablished, noticeFunctor
  <2>2. pc = "functors" /\ UNCHANGED <<pc, batchHolds>>
    BY <2>1 DEF functor
  <2>3. f \in Range(functors)
    BY <2>1, FunctorInBatch
  <2>4. f \notin Bare
    BY ConnectionAssumption DEF Bare, Notices
  <2>5. batchHolds
    BY <2>3, <2>4 DEF Holding, TypeOK, LoopTypes
  <2> QED
    BY <2>2, <2>5 DEF CallbackHolds
<1>8. CASE connectDestroyed \/ (\E m \in Messages : sendFunctor(m))
             \/ shutdownFunctor \/ functorOfFreed
  <2>1. UNCHANGED <<inUser, pc, batchHolds>>
    BY <1>8 DEF connectDestroyed, sendFunctor, shutdownFunctor, functorOfFreed, functor
  <2> QED
    BY <2>1 DEF CallbackHolds
<1>9. CASE BaseStep \/ (\E m \in Messages : send_own(m)) \/ shutdown_own
             \/ peerSends \/ peerCloses \/ peerResets
  BY <1>1, <1>9 DEF BaseStep, removeConnectionInLoop, baseBatchDone, send_own,
       shutdown_own, peerSends, peerCloses, peerResets, loopVars
<1>10. ASSUME NEW u \in Users,
              UserStep(u) \/ shutdown(u) \/ drop(u) \/ \E m \in Messages : send(u, m)
       PROVE  CallbackHolds'
  BY <1>1, <1>10 DEF UserStep, send_queue, shutdown_queue, queues, shutdown_setState,
       shutdown, send, goesOn, drop, loopVars
<1> QED
  BY <1>2, <1>3, <1>4, <1>6, <1>7, <1>8, <1>9, <1>10 DEF Next, LoopStep

LEMMA CallbackHoldsCorrect == SafeSpec => []CallbackHolds
<1>1. Init => CallbackHolds
  BY DEF Init, CallbackHolds
<1> QED
  BY <1>1, CallbackHoldsStep, TypeCorrect, PTL DEF SafeSpec

\* CallbacksFindConnection: connectEstablished, the notices and the guard in
\* handleEvent keep the connection while a user callback runs, whoever else has
\* given it up; only the functors with a bare this can come too late.
THEOREM CallbacksSafe == SafeSpec => []CallbacksFindConnection
<1>1. CallbackHolds => CallbacksFindConnection
  BY DEF CallbackHolds, CallbacksFindConnection, Referenced
<1> QED
  BY <1>1, CallbackHoldsCorrect, PTL

\* What still happens to a connection that is freed.
LEMMA FreedSteps ==
  ASSUME TypeOK, CallbackHolds, Next, ~Referenced
  PROVE  takeFunctors \/ functorOfFreed \/ functorsDone \/ peerSends \/ peerCloses
<1>1. /\ ~inMap /\ ~(baseQueue > 0) /\ ~baseHolds /\ pc # "handling"
      /\ ~batchHolds /\ ~Holding(m_pendingFunctors) /\ holds = {} /\ ~inUser
  BY DEF Referenced, CallbackHolds
<1>2. \A u \in Users : tpc[u] = "idle"
  BY <1>1 DEF TypeOK, UserTypes
<1>3. \A e : ~callback(e)
  BY <1>1 DEF callback
<1>4. \A f : functor(f) => f \in Bare
  <2>1. Range(functors) \subseteq Bare
    BY <1>1 DEF TypeOK, LoopTypes, Holding
  <2> QED
    BY <2>1, FunctorInBatch
<1>5. ~(closeCallback \/ handleError \/ handleRead \/ handleReadEof \/ handleReadError
          \/ handleWrite \/ handleWriteNothing)
  BY <1>3 DEF closeCallback, handleError, handleRead, handleReadEof, handleReadError,
       handleWrite, handleWriteNothing
<1>6. ~(connectEstablished \/ connectDestroyed \/ noticeFunctor)
  <2>1. \A f \in Notices \cup {"connectEstablished", "connectDestroyed"} : f \notin Bare
    BY ConnectionAssumption DEF Bare, Notices
  <2> QED
    BY <1>4, <2>1 DEF connectEstablished, connectDestroyed, noticeFunctor
<1>7. ~poll /\ ~shutdownFunctor /\ ~peerResets /\ \A m \in Messages : ~sendFunctor(m)
  BY DEF poll, pollReports, shutdownFunctor, peerResets, sendFunctor
<1>8. ~(callbackReturns \/ BaseStep \/ (\E m \in Messages : send_own(m)) \/ shutdown_own)
  BY <1>1 DEF callbackReturns, BaseStep, removeConnectionInLoop, baseBatchDone, send_own,
     shutdown_own
<1>9. \A u \in Users :
        ~(UserStep(u) \/ shutdown(u) \/ drop(u) \/ \E m \in Messages : send(u, m))
  <2>1. "idle" \notin Messages
    BY ConnectionAssumption
  <2> QED
    BY <1>1, <1>2, <2>1 DEF UserStep, send_queue, shutdown_setState, shutdown_queue,
         shutdown, send, goesOn, drop
<1> QED
  BY <1>5, <1>6, <1>7, <1>8, <1>9 DEF Next, LoopStep

LEMMA FreedStays ==
  ASSUME TypeOK, CallbackHolds, [Next]_vars, ~Referenced
  PROVE  ~Referenced'
<1>1. /\ ~inMap /\ ~(baseQueue > 0) /\ ~baseHolds /\ pc # "handling"
      /\ ~batchHolds /\ ~Holding(m_pendingFunctors) /\ holds = {}
  BY DEF Referenced
<1>2. CASE UNCHANGED vars
  BY <1>1, <1>2 DEF vars, queueVars, baseVars, loopVars, batchVars, userVars, Referenced,
     Holding
<1>3. CASE takeFunctors
  <2>1. ~Holding(<<>>)
    BY DEF Holding, Range
  <2> QED
    BY <1>1, <1>3, <2>1 DEF takeFunctors, baseVars, userVars, Referenced
<1>4. CASE functorOfFreed
  BY <1>1, <1>4 DEF functorOfFreed, functor, queueVars, baseVars, Referenced, Holding
<1>5. CASE functorsDone
  BY <1>1, <1>5 DEF functorsDone, queueVars, baseVars, userVars, Referenced, Holding
<1>6. CASE peerSends \/ peerCloses
  BY <1>1, <1>6 DEF peerSends, peerCloses, queueVars, baseVars, loopVars, batchVars,
     userVars, Referenced, Holding
<1> QED
  BY <1>2, <1>3, <1>4, <1>5, <1>6, FreedSteps

\* FreedForGood: the handlers, the base loop and the user threads make new
\* references only of references there are.
THEOREM FreedOnce == SafeSpec => FreedForGood
<1>1. TypeOK /\ CallbackHolds /\ [Next]_vars => [~Referenced => ~(Referenced')]_vars
  BY FreedStays
<1> QED
  BY <1>1, TypeCorrect, CallbackHoldsCorrect, PTL DEF SafeSpec, FreedForGood

------------------------------------------------------------------------------
(***************************************************************************)
(* The connection is what TcpServer takes it for, one of a                 *)
(* ConnectionTable that has just been accepted: it is established, closed  *)
(* and given back, once each and in this order.                            *)
(***************************************************************************)

\* The stage of a connection whose state was not overwritten.
StageOf(state, announced, referenced) ==
  IF announced = 0 THEN IF state = "Connecting" THEN "accepted" ELSE "open"
  ELSE IF referenced THEN "closed" ELSE "released"

LEMMA StageIs ==
  ASSUME TypeOK, OnceInv, ~Disturbed
  PROVE  stage = StageOf(m_state, downs, Referenced)
  BY DEF stage, StageOf, OnceInv, Down, TypeOK, ConnTypes, States

LEMMA NextStageIs ==
  ASSUME TypeOK', OnceInv', ~Disturbed'
  PROVE  stage' = StageOf(m_state', downs', Referenced')
  BY DEF stage, StageOf, OnceInv, Down, TypeOK, ConnTypes, States

\* The steps of one connection are steps of the table.
LEMMA StageStep ==
  ASSUME \/ stage = "accepted" /\ stage' = "open"
         \/ stage = "open" /\ stage' = "closed"
         \/ stage = "closed" /\ stage' = "released"
  PROVE  Table!Next
<1> DEFINE s == [c \in {1} |-> stage]
<1>1. s' = [c \in {1} |-> stage']
  OBVIOUS
<1>2. CASE stage = "accepted" /\ stage' = "open"
  <2>1. s[1] = "accepted" /\ s' = [s EXCEPT ![1] = "open"]
    BY <1>1, <1>2
  <2> QED
    BY <2>1 DEF Table!Next, Table!Open
<1>3. CASE stage = "open" /\ stage' = "closed"
  <2>1. s[1] = "open" /\ s' = [s EXCEPT ![1] = "closed"]
    BY <1>1, <1>3
  <2> QED
    BY <2>1 DEF Table!Next, Table!Close
<1>4. CASE stage = "closed" /\ stage' = "released"
  <2>1. /\ \A c \in {1} : s[c] = "closed"
        /\ s' = [c \in {1} |-> IF c \in {1} THEN "released" ELSE s[c]]
    BY <1>1, <1>4
  <2>2. Table!Release({1})
    BY <2>1 DEF Table!Release
  <2> QED
    BY <2>2 DEF Table!Next
<1> QED
  BY <1>2, <1>3, <1>4

\* What each step of the connection is in the table.
LEMMA TableStep ==
  ASSUME TypeOK, TypeOK', LifeInv, OnceInv, OnceInv', CallbackHolds, [Next]_vars
  PROVE  [Table!Next \/ overwritten']_stage
<1>d. downs \in Nat /\ downs' \in Nat
  BY DEF TypeOK, ConnTypes
<1>1. CASE downs = 0 /\ downs' = 0
  <2>1. ~handleClose /\ ~connectDestroyed
    BY <1>1, DestroyedIsDown DEF handleClose
  <2>2. m_state' = "Connecting" => m_state = "Connecting"
    BY <2>1, StateStep DEF connectEstablished, shutdown_own, shutdown_setState
  <2>3. stage' = stage \/ (stage = "accepted" /\ stage' = "open")
    BY <1>1, <2>2, StageIs, NextStageIs DEF StageOf, Disturbed
  <2> QED
    BY <2>3, StageStep
<1>2. CASE downs = 0 /\ downs' # 0
  <2>1. closeCallback \/ handleReadEof
    BY <1>2, DownsGrow, DestroyedIsDown
  <2>2. pc' = "handling" /\ pc = "handling" /\ todo # <<>>
    BY <2>1 DEF closeCallback, handleReadEof, callback, batchVars
  <2>3. m_state # "Connecting" /\ Referenced'
    BY <2>2 DEF LifeInv, ConnectingInv, Referenced
  <2>4. downs' = 1 /\ m_state' = "Disconnected"
    BY <1>2, <2>1, DownsGrow, DestroyedIsDown DEF closeCallback, handleReadEof, handleClose
  <2>5. stage = "open" /\ stage' = "closed"
    BY <1>2, <2>3, <2>4, StageIs, NextStageIs DEF StageOf, Disturbed
  <2> QED
    BY <2>5, StageStep
<1>3. CASE Down /\ Down'
  <2>1. ~Referenced => ~Referenced'
    BY FreedStays
  <2>2. downs = 1 /\ downs' = 1 /\ ~Disturbed /\ ~Disturbed'
    BY <1>3 DEF Down, Disturbed
  <2>3. stage' = stage \/ (stage = "closed" /\ stage' = "released")
    BY <2>1, <2>2, StageIs, NextStageIs DEF StageOf
  <2> QED
    BY <2>3, StageStep
<1>4. CASE Disturbed
  <2>1. stage = "none"
    BY <1>4, StageIsNot
  <2>2. Disturbed'
    BY <1>4, StaysDisturbed
  <2>3. stage' = "none"
    BY <1>d, <2>2 DEF Disturbed, stage
  <2> QED
    BY <2>1, <2>3
<1> QED
  BY <1>1, <1>2, <1>3, <1>4, StaysDown DEF OnceInv

\* IsTableConnection: what ConnectionTable says of each connection, and TcpServer
\* is shown to do with the close as one step, holds with the handlers, queues and
\* references of TcpConnection, for any use of the library, until a shutdown() of
\* another thread overwrites Disconnected.
THEOREM ServesTable == SafeSpec => IsTableConnection
<1>1. Init => stage \in {"accepted", "open"}
  BY DEF Init, stage
<1>2. TypeOK /\ TypeOK' /\ LifeInv /\ OnceInv /\ OnceInv' /\ CallbackHolds /\ [Next]_vars
        => [Table!Next \/ overwritten']_stage
  BY TableStep
<1> QED
  BY <1>1, <1>2, TypeCorrect, LifeCorrect, OnceCorrect, CallbackHoldsCorrect, PTL
     DEF SafeSpec, IsTableConnection

==============================================================================
