-------------------------- MODULE TcpMessageProofs --------------------------
(***************************************************************************)
(* Proofs about the messages of a TcpConnection, for any user threads,     *)
(* messages and use of the library: each send() takes its message on at    *)
(* most once, and messages are taken on in the order they were queued.     *)
(***************************************************************************)
EXTENDS TcpConnectionProofs

------------------------------------------------------------------------------
(***************************************************************************)
(* Sequences in which a message is at most once.                           *)
(***************************************************************************)

OnceIn(s) == \A i, j \in DOMAIN s : s[i] \in Messages /\ s[i] = s[j] => i = j

\* The messages of t are messages of s, d places further on.
Shifted(s, t, d) ==
  \A j \in DOMAIN t : t[j] \in Messages => j + d \in DOMAIN s /\ t[j] = s[j + d]

\* What two sequences that follow each other have in their places.
LEMMA ConcatElements ==
  ASSUME NEW S, NEW s \in Seq(S), NEW t \in Seq(S)
  PROVE  /\ s \o t \in Seq(S) /\ Len(s) \in Nat /\ Len(t) \in Nat
         /\ DOMAIN s = 1..Len(s) /\ DOMAIN t = 1..Len(t)
         /\ DOMAIN (s \o t) = 1..(Len(s) + Len(t))
         /\ \A i \in 1..Len(s) : (s \o t)[i] = s[i]
         /\ \A i \in 1..Len(t) : (s \o t)[Len(s) + i] = t[i]
  OBVIOUS

\* Only one of two messages comes before the other.
LEMMA BeforeOneWay ==
  ASSUME NEW S, NEW s \in Seq(S), NEW a, NEW b, Before(s, a, b),
         (OnceIn(s) /\ {a, b} \subseteq Messages) \/ IsInjective(s)
  PROVE  ~Before(s, b, a)
<1>1. Len(s) \in Nat /\ DOMAIN s = 1..Len(s)
  OBVIOUS
<1>2. PICK i \in DOMAIN s, j \in DOMAIN s : i < j /\ s[i] = a /\ s[j] = b
  BY DEF Before
<1>3. \A k \in DOMAIN s : (s[k] = a => k = i) /\ (s[k] = b => k = j)
  BY <1>2 DEF OnceIn, IsInjective
<1> SUFFICES ASSUME NEW k \in DOMAIN s, NEW l \in DOMAIN s, k < l, s[k] = b, s[l] = a
             PROVE  FALSE
  BY DEF Before
<1>4. l = i /\ k = j
  BY <1>3
<1> QED
  BY <1>1, <1>2, <1>4

\* What comes before what in two sequences that follow each other.
LEMMA BeforeConcat ==
  ASSUME NEW S, NEW s \in Seq(S), NEW t \in Seq(S), NEW a, NEW b
  PROVE  /\ Before(s, a, b) => Before(s \o t, a, b)
         /\ a \in Range(s) /\ b \in Range(t) => Before(s \o t, a, b)
         /\ Before(s \o t, a, b) =>
              Before(s, a, b) \/ (a \in Range(s) /\ b \in Range(t)) \/ Before(t, a, b)
<1> DEFINE st == s \o t
           n == Len(s)
           k == Len(t)
<1>1. /\ n \in Nat /\ k \in Nat
      /\ DOMAIN s = 1..n /\ DOMAIN t = 1..k /\ DOMAIN st = 1..(n + k)
      /\ \A i \in 1..n : st[i] = s[i]
      /\ \A i \in 1..k : st[n + i] = t[i]
  BY ConcatElements
<1> HIDE DEF st, n, k
<1>2. 1..n \subseteq 1..(n + k) /\ \A i \in 1..k : n + i \in 1..(n + k)
  BY <1>1
<1>3. ASSUME Before(s, a, b) PROVE Before(st, a, b)
  BY <1>1, <1>2, <1>3 DEF Before
<1>4. ASSUME a \in Range(s), b \in Range(t) PROVE Before(st, a, b)
  <2>1. PICK i \in 1..n, j \in 1..k : s[i] = a /\ t[j] = b
    BY <1>1, <1>4 DEF Range
  <2>2. i < n + j /\ st[i] = a /\ st[n + j] = b
    BY <1>1, <2>1
  <2> QED
    BY <1>1, <1>2, <2>2 DEF Before
<1>5. ASSUME Before(st, a, b)
      PROVE  Before(s, a, b) \/ (a \in Range(s) /\ b \in Range(t)) \/ Before(t, a, b)
  <2>1. PICK i \in 1..(n + k), j \in 1..(n + k) : i < j /\ st[i] = a /\ st[j] = b
    BY <1>1, <1>5 DEF Before
  <2>2. CASE j \in 1..n
    <3>1. i \in 1..n
      BY <1>1, <2>1, <2>2
    <3> QED
      BY <1>1, <2>1, <2>2, <3>1 DEF Before
  <2>3. CASE i \in 1..n /\ j \notin 1..n
    <3>1. j - n \in 1..k /\ n + (j - n) = j
      BY <1>1, <2>1, <2>3
    <3>2. s[i] = a /\ t[j - n] = b
      BY <1>1, <2>1, <2>3, <3>1
    <3> QED
      BY <1>1, <2>3, <3>1, <3>2 DEF Range
  <2>4. CASE i \notin 1..n
    <3>1. /\ i - n \in 1..k /\ n + (i - n) = i
          /\ j - n \in 1..k /\ n + (j - n) = j /\ i - n < j - n
      BY <1>1, <2>1, <2>4
    <3>2. t[i - n] = a /\ t[j - n] = b
      BY <1>1, <2>1, <3>1
    <3> QED
      BY <1>1, <3>1, <3>2 DEF Before
  <2> QED
    BY <2>2, <2>3, <2>4
<1> QED
  BY <1>3, <1>4, <1>5 DEF st

\* A sequence one message longer.
LEMMA OnceAppend ==
  ASSUME NEW S, NEW s \in Seq(S), NEW m \in S, OnceIn(s), m \notin Range(s)
  PROVE  /\ OnceIn(s \o <<m>>)
         /\ Range(s \o <<m>>) = Range(s) \cup {m}
         /\ \A a \in Range(s) : Before(s \o <<m>>, a, m)
         /\ \A a, b : Before(s \o <<m>>, a, b) => Before(s, a, b) \/ b = m
<1> DEFINE t == <<m>>
           st == s \o t
<1>1. t \in Seq(S) /\ Range(t) = {m} /\ \A a, b : ~Before(t, a, b)
  BY DEF Range, Before
<1>2. /\ Len(s) \in Nat /\ DOMAIN s = 1..Len(s) /\ DOMAIN st = 1..(Len(s) + 1)
      /\ (\A i \in 1..Len(s) : st[i] = s[i]) /\ st[Len(s) + 1] = m
  OBVIOUS
<1> HIDE DEF t, st
<1>3. \A i \in 1..Len(s) : s[i] # m
  BY <1>2 DEF Range
<1>4. OnceIn(st)
  <2> SUFFICES ASSUME NEW i \in 1..(Len(s) + 1), NEW j \in 1..(Len(s) + 1),
                      st[i] \in Messages, st[i] = st[j]
               PROVE  i = j
    BY <1>2 DEF OnceIn
  <2>1. (i \in 1..Len(s) \/ i = Len(s) + 1) /\ (j \in 1..Len(s) \/ j = Len(s) + 1)
    BY <1>2
  <2>2. CASE i \in 1..Len(s) /\ j \in 1..Len(s)
    BY <1>2, <2>2 DEF OnceIn
  <2> QED
    BY <1>2, <1>3, <2>1, <2>2
<1>5. Range(st) = Range(s) \cup {m}
  BY <1>1, RangeConcatenation DEF st
<1>6. /\ \A a \in Range(s) : Before(st, a, m)
      /\ \A a, b : Before(st, a, b) => Before(s, a, b) \/ b = m
  BY <1>1, BeforeConcat DEF st
<1> QED
  BY <1>4, <1>5, <1>6 DEF st, t

\* A sequence whose messages have moved up.
LEMMA OnceShifted ==
  ASSUME NEW S, NEW s \in Seq(S), NEW t \in Seq(S), NEW d \in Nat,
         Shifted(s, t, d), OnceIn(s)
  PROVE  /\ OnceIn(t)
         /\ Range(t) \cap Messages \subseteq Range(s)
         /\ \A a, b \in Messages : Before(t, a, b) => Before(s, a, b)
         /\ s # <<>> /\ d > 0 /\ Head(s) \in Messages => Head(s) \notin Range(t)
<1>1. /\ Len(s) \in Nat /\ DOMAIN s = 1..Len(s)
      /\ Len(t) \in Nat /\ DOMAIN t = 1..Len(t)
  OBVIOUS
<1>2. \A j \in DOMAIN t : t[j] \in Messages => j + d \in DOMAIN s /\ t[j] = s[j + d]
  BY DEF Shifted
<1>3. OnceIn(t)
  <2> SUFFICES ASSUME NEW i \in DOMAIN t, NEW j \in DOMAIN t,
                      t[i] \in Messages, t[i] = t[j]
               PROVE  i = j
    BY DEF OnceIn
  <2>1. i + d = j + d
    BY <1>2 DEF OnceIn
  <2> QED
    BY <1>1, <2>1
<1>4. Range(t) \cap Messages \subseteq Range(s)
  BY <1>2 DEF Range
<1>5. ASSUME NEW a \in Messages, NEW b \in Messages, Before(t, a, b)
      PROVE  Before(s, a, b)
  <2>1. PICK i \in DOMAIN t, j \in DOMAIN t : i < j /\ t[i] = a /\ t[j] = b
    BY <1>5 DEF Before
  <2>2. i + d < j + d
    BY <1>1, <2>1
  <2>3. /\ i + d \in DOMAIN s /\ s[i + d] = a
        /\ j + d \in DOMAIN s /\ s[j + d] = b
    BY <1>2, <2>1
  <2> QED
    BY <2>2, <2>3 DEF Before
<1>6. ASSUME s # <<>>, d > 0, Head(s) \in Messages, Head(s) \in Range(t)
      PROVE  FALSE
  <2>1. PICK j \in DOMAIN t : t[j] = Head(s)
    BY <1>6 DEF Range
  <2>2. Head(s) = s[1] /\ 1 \in DOMAIN s
    BY <1>1, <1>6
  <2>3. j + d = 1
    BY <1>2, <1>6, <2>1, <2>2 DEF OnceIn
  <2> QED
    BY <1>1, <1>6, <2>3
<1> QED
  BY <1>3, <1>4, <1>5, <1>6

\* What is queued behind a sequence, while its front is taken away.
LEMMA ShiftedConcat ==
  ASSUME NEW u \in Seq(Functors), NEW s \in Seq(Functors), NEW n \in Seq(Functors),
         Range(n) \cap Messages = {}
  PROVE  Shifted(u \o s, s \o n, Len(u))
<1> DEFINE us == u \o s
           sn == s \o n
<1>1. /\ Len(u) \in Nat /\ Len(s) \in Nat /\ Len(n) \in Nat
      /\ DOMAIN n = 1..Len(n)
      /\ DOMAIN us = 1..(Len(u) + Len(s)) /\ DOMAIN sn = 1..(Len(s) + Len(n))
      /\ \A i \in 1..Len(s) : us[Len(u) + i] = s[i]
      /\ \A i \in 1..Len(s) : sn[i] = s[i]
      /\ \A i \in 1..Len(n) : sn[Len(s) + i] = n[i]
  BY ConcatElements
<1> HIDE DEF us, sn
<1>2. \A i \in 1..Len(n) : n[i] \notin Messages
  BY <1>1 DEF Range
<1> SUFFICES ASSUME NEW j \in 1..(Len(s) + Len(n)), sn[j] \in Messages
             PROVE  j + Len(u) \in DOMAIN us /\ sn[j] = us[j + Len(u)]
  BY <1>1 DEF Shifted, us, sn
<1>3. j \in 1..Len(s)
  <2>1. ASSUME j \notin 1..Len(s) PROVE FALSE
    <3>1. j - Len(s) \in 1..Len(n) /\ Len(s) + (j - Len(s)) = j
      BY <1>1, <2>1
    <3> QED
      BY <1>1, <1>2, <3>1
  <2> QED
    BY <2>1
<1>4. j + Len(u) \in 1..(Len(u) + Len(s)) /\ j + Len(u) = Len(u) + j
  BY <1>1, <1>3
<1> QED
  BY <1>1, <1>3, <1>4

------------------------------------------------------------------------------
(***************************************************************************)
(* Where a message is: nobody has sent it (unsent), a thread is about to   *)
(* queue it (InHand), it waits in the loop's queue (Line), it is taken on  *)
(* (TakenOn) or was dropped on an error (lost).  It is in one place at a   *)
(* time and moves on in this order.                                        *)
(***************************************************************************)

InHand == {m \in Messages : \E u \in Users : tpc[u] = m}

\* The queue while the loop runs no functor.
LEMMA LineQueues ==
  ASSUME TypeOK, NEW n \in Seq(Functors), Range(n) \cap Messages = {},
         UNCHANGED functors, queue(n)
  PROVE  Shifted(Line, Line', 0)
<1>1. functors \in Seq(Functors) /\ m_pendingFunctors \in Seq(Functors)
  BY DEF TypeOK, LoopTypes, QueueTypes
<1>2. Line \in Seq(Functors) /\ <<>> \in Seq(Functors) /\ Len(<<>>) = 0
  BY <1>1, ConcatProperties DEF Line
<1>3. Line' = functors \o (m_pendingFunctors \o n)
  BY DEF Line, queue
<1>4. Line' = Line \o n
  <2>1. Regroups(functors, m_pendingFunctors, n)
    BY ONLY <1>1, n \in Seq(Functors), Regroup
  <2> QED
    BY <1>3, <2>1 DEF Regroups, Line
<1>5. <<>> \o Line = Line
  BY <1>2, ConcatEmptySeq
<1>6. Shifted(<<>> \o Line, Line \o n, Len(<<>>))
  BY ONLY <1>2, n \in Seq(Functors), Range(n) \cap Messages = {}, ShiftedConcat
<1> QED
  BY <1>2, <1>4, <1>5, <1>6

\* The queue when the loop runs its first functor.
LEMMA LineRuns ==
  ASSUME TypeOK, NEW n \in Seq(Functors), Range(n) \cap Messages = {},
         NEW f, functor(f), queue(n)
  PROVE  /\ Line # <<>> /\ Head(Line) = f
         /\ Shifted(Line, Line', 1)
<1> DEFINE h == <<Head(functors)>>
           t == Tail(functors)
           s == t \o m_pendingFunctors
<1>1. /\ functors \in Seq(Functors) /\ functors # <<>> /\ Head(functors) = f
      /\ functors' = t /\ m_pendingFunctors' = m_pendingFunctors \o n
      /\ m_pendingFunctors \in Seq(Functors)
  BY DEF TypeOK, LoopTypes, QueueTypes, functor, queue
<1>2. h \in Seq(Functors) /\ t \in Seq(Functors) /\ functors = h \o t /\ Len(h) = 1
  BY <1>1
<1>3. Line # <<>> /\ Head(Line) = f
  BY <1>1 DEF Line
<1> HIDE DEF h, t
<1>4. Line = h \o s
  <2>1. Regroups(h, t, m_pendingFunctors)
    BY ONLY <1>1, <1>2, Regroup
  <2> QED
    BY <1>2, <2>1 DEF Regroups, Line
<1>5. Line' = s \o n
  <2>1. Regroups(t, m_pendingFunctors, n)
    BY ONLY <1>1, <1>2, n \in Seq(Functors), Regroup
  <2> QED
    BY <1>1, <2>1 DEF Regroups, Line
<1>6. s \in Seq(Functors)
  BY <1>1, <1>2, ConcatProperties
<1> HIDE DEF s
<1>7. Shifted(h \o s, s \o n, Len(h))
  BY ONLY <1>2, <1>6, n \in Seq(Functors), Range(n) \cap Messages = {}, ShiftedConcat
<1> QED
  BY <1>2, <1>3, <1>4, <1>5, <1>7

\* The queue when the loop takes its batch.
LEMMA LineTaken ==
  ASSUME TypeOK, takeFunctors
  PROVE  Shifted(Line, Line', Len(functors)) /\ Len(functors) \in Nat
<1>1. /\ functors \in Seq(Functors) /\ m_pendingFunctors \in Seq(Functors)
      /\ functors' = m_pendingFunctors /\ m_pendingFunctors' = <<>>
  BY DEF TypeOK, LoopTypes, QueueTypes, takeFunctors
<1>2. <<>> \in Seq(Functors) /\ Range(<<>>) \cap Messages = {} /\ Len(functors) \in Nat
  BY <1>1 DEF Range
<1>3. Shifted(functors \o m_pendingFunctors, m_pendingFunctors \o <<>>, Len(functors))
  BY ONLY <1>1, <1>2, ShiftedConcat
<1> QED
  BY <1>1, <1>2, <1>3 DEF Line

\* What becomes of message m when sendInLoop has it.
Decided(m) ==
  \/ UNCHANGED <<accepted, lost>>
  \/ UNCHANGED accepted /\ lost' = lost \cup {m}
  \/ accepted' = accepted \o Bytes(m) /\ UNCHANGED lost

\* No message is begun or decided, no thread moves one.
Passes ==
  /\ UNCHANGED <<accepted, lost, unsent>>
  /\ \A u \in Users : tpc'[u] = tpc[u] \/ {tpc[u], tpc'[u]} \cap Messages = {}
  /\ \E d \in Nat : Shifted(Line, Line', d)

\* A thread begins to send m.
Begins(u, m) ==
  /\ m \in unsent /\ unsent' = unsent \ {m}
  /\ tpc[u] = "idle" /\ tpc' = [tpc EXCEPT ![u] = m]
  /\ UNCHANGED <<accepted, lost, functors, m_pendingFunctors>>

\* A thread queues m.
Queues(u, m) ==
  /\ tpc[u] = m /\ tpc' = [tpc EXCEPT ![u] = "idle"]
  /\ Line' = Line \o <<m>>
  /\ UNCHANGED <<accepted, lost, unsent>>

\* The loop runs the functor of m.
Carries(m) ==
  /\ Line # <<>> /\ Head(Line) = m /\ Shifted(Line, Line', 1)
  /\ Decided(m)
  /\ UNCHANGED <<tpc, unsent>>

\* A callback of the loop sends m.
Owns(m) ==
  /\ m \in unsent /\ unsent' = unsent \ {m}
  /\ Shifted(Line, Line', 0)
  /\ Decided(m)
  /\ UNCHANGED tpc

MessageMoves ==
  \/ Passes
  \/ \E m \in Messages : Carries(m) \/ Owns(m) \/ \E u \in Users : Begins(u, m) \/ Queues(u, m)

\* Nothing but a message is no message.
LEMMA NoMessage ==
  /\ Notices \cap Messages = {}
  /\ {"idle", "setState", "shutdown", "shutdownInLoop", "connectEstablished",
      "connectDestroyed", "writeComplete"} \cap Messages = {}
  BY ConnectionAssumption DEF Notices

\* A queue that stays as it is.
LEMMA QueuesNothing ==
  ASSUME TypeOK, UNCHANGED m_pendingFunctors
  PROVE  <<>> \in Seq(Functors) /\ Range(<<>>) \cap Messages = {} /\ queue(<<>>)
<1>1. m_pendingFunctors \o <<>> = m_pendingFunctors
  BY ConcatEmptySeq DEF TypeOK, QueueTypes
<1> QED
  BY <1>1 DEF queue, Range

\* One functor that is no message is queued.
LEMMA QueuesOne ==
  ASSUME NEW f \in Functors, f \notin Messages
  PROVE  <<f>> \in Seq(Functors) /\ Range(<<f>>) \cap Messages = {}
  BY DEF Range

\* sendInLoop decides about its message and queues notices.
LEMMA SendDecides ==
  ASSUME TypeOK, NEW m \in Messages, sendInLoop(m)
  PROVE  /\ Decided(m)
         /\ \E n \in Seq(Functors) : Range(n) \cap Messages = {} /\ queue(n)
<1>1. CASE UNCHANGED <<channelVars, streamVars, soError, m_pendingFunctors>>
  BY <1>1, QueuesNothing DEF Decided, streamVars
<1>2. CASE sendFault(m)
  BY <1>2, QueuesNothing DEF Decided, sendFault
<1>3. ASSUME NEW n \in 0..Len(Bytes(m)), sendPart(m, n)
      PROVE  /\ Decided(m)
             /\ \E k \in Seq(Functors) : Range(k) \cap Messages = {} /\ queue(k)
  <2>1. /\ accepted' = accepted \o Bytes(m) /\ UNCHANGED lost
        /\ queue(notices(Len(Bytes(m)) - n))
    BY <1>3 DEF sendPart
  <2>2. /\ notices(Len(Bytes(m)) - n) \in Seq(Functors)
        /\ Range(notices(Len(Bytes(m)) - n)) \cap Messages = {}
    BY NoticesType, NoMessage
  <2> QED
    BY <2>1, <2>2 DEF Decided
<1> QED
  BY <1>1, <1>2, <1>3 DEF sendInLoop

\* What any step does to the messages.
LEMMA MessageStep ==
  ASSUME TypeOK, [Next]_vars
  PROVE  MessageMoves
<1>0. Passes => MessageMoves
  BY DEF MessageMoves
<1>1. ASSUME UNCHANGED <<accepted, lost, userVars, functors>>,
             NEW n \in Seq(Functors), Range(n) \cap Messages = {}, queue(n)
      PROVE  Passes
  <2>1. Shifted(Line, Line', 0)
    BY <1>1, LineQueues
  <2> QED
    BY <1>1, <2>1 DEF Passes, userVars
<1>2. ASSUME UNCHANGED <<accepted, lost, userVars, functors, m_pendingFunctors>>
      PROVE  Passes
  BY <1>1, <1>2, QueuesNothing
<1>3. ASSUME NEW f, functor(f), UNCHANGED <<accepted, lost, m_pendingFunctors>>
      PROVE  Passes
  <2>1. Shifted(Line, Line', 1)
    BY <1>3, LineRuns, QueuesNothing
  <2>2. UNCHANGED <<tpc, unsent>>
    BY <1>3 DEF functor
  <2> QED
    BY <1>3, <2>1, <2>2 DEF Passes
<1>4. CASE UNCHANGED vars
  BY <1>0, <1>2, <1>4 DEF vars, connVars, streamVars, loopVars, batchVars, queueVars
<1>5. CASE poll \/ functorsDone \/ callbackReturns \/ baseBatchDone \/ shutdown_own
             \/ peerSends \/ peerCloses \/ peerResets
  BY <1>0, <1>2, <1>5 DEF poll, pollReports, functorsDone, callbackReturns, baseBatchDone,
     shutdown_own, peerSends, peerCloses, peerResets, connVars, streamVars, loopVars,
     batchVars, queueVars
<1>6. CASE takeFunctors
  <2>1. UNCHANGED <<accepted, lost, tpc, unsent>>
    BY <1>6 DEF takeFunctors, connVars, streamVars, userVars
  <2>2. Passes
    BY <1>6, <2>1, LineTaken DEF Passes
  <2> QED
    BY <1>0, <2>2
<1>7. CASE handleError \/ handleRead \/ handleReadError \/ handleWriteNothing
  BY <1>0, <1>2, <1>7 DEF handleError, handleRead, handleReadError, handleWriteNothing,
     callback, connVars, streamVars, batchVars, queueVars
<1>8. CASE closeCallback \/ handleReadEof \/ handleWrite \/ removeConnectionInLoop
  <2>1. UNCHANGED <<accepted, lost, userVars, functors>>
    BY <1>8 DEF closeCallback, handleReadEof, handleWrite, removeConnectionInLoop,
       callback, handleClose, connVars, streamVars, loopVars, batchVars
  <2>2. \/ UNCHANGED m_pendingFunctors
        \/ queue(<<"connectDestroyed">>) \/ queue(<<"writeComplete">>)
    BY <1>8 DEF closeCallback, handleReadEof, handleWrite, bufferEmptied,
       removeConnectionInLoop, handleClose
  <2>3. {"connectDestroyed", "writeComplete"} \subseteq Functors
    BY DEF Functors, Notices
  <2> QED
    BY <1>0, <1>1, <1>2, <2>1, <2>2, <2>3, QueuesOne, NoMessage
<1>9. CASE connectEstablished \/ connectDestroyed \/ noticeFunctor
             \/ shutdownFunctor \/ functorOfFreed
  <2>1. (\E f : functor(f)) /\ UNCHANGED <<accepted, lost, m_pendingFunctors>>
    BY <1>9 DEF connectEstablished, connectDestroyed, noticeFunctor, shutdownFunctor,
       functorOfFreed, connVars, streamVars, queueVars
  <2> QED
    BY <1>0, <1>3, <2>1
<1>10. ASSUME NEW m \in Messages, sendFunctor(m) PROVE Carries(m)
  <2>1. functor(m) /\ sendInLoop(m) /\ UNCHANGED <<tpc, unsent>>
    BY <1>10 DEF sendFunctor, functor
  <2>2. PICK n \in Seq(Functors) : Range(n) \cap Messages = {} /\ queue(n)
    BY <2>1, SendDecides
  <2> QED
    BY <2>1, <2>2, LineRuns, SendDecides DEF Carries
<1>11. ASSUME NEW m \in Messages, send_own(m) PROVE Owns(m)
  <2>1. /\ m \in unsent /\ unsent' = unsent \ {m} /\ sendInLoop(m)
        /\ UNCHANGED <<tpc, functors>>
    BY <1>11 DEF send_own, loopVars, batchVars
  <2>2. PICK n \in Seq(Functors) : Range(n) \cap Messages = {} /\ queue(n)
    BY <2>1, SendDecides
  <2> QED
    BY <2>1, <2>2, LineQueues, SendDecides DEF Owns
<1>12. ASSUME NEW u \in Users, UserStep(u) \/ shutdown(u) \/ drop(u)
       PROVE  Passes \/ \E m \in Messages : Queues(u, m)
  <2>1. tpc \in [Users -> Messages \cup {"idle", "setState", "shutdown"}]
    BY DEF TypeOK, UserTypes
  <2>2. CASE drop(u)
    <3>1. UNCHANGED <<accepted, lost, tpc, unsent, functors, m_pendingFunctors>>
      BY <2>2 DEF drop, connVars, streamVars, loopVars, batchVars, queueVars
    <3>2. Shifted(Line, Line', 0)
      BY <3>1, LineQueues, QueuesNothing
    <3> QED
      BY <3>1, <3>2 DEF Passes
  <2>3. CASE shutdown(u) \/ shutdown_setState(u)
    <3>1. /\ UNCHANGED <<accepted, lost, unsent, functors, m_pendingFunctors>>
          /\ tpc[u] \notin Messages
          /\ \E to \in {"setState", "shutdown"} : tpc' = [tpc EXCEPT ![u] = to]
      BY <2>3, NoMessage DEF shutdown, goesOn, shutdown_setState, connVars, streamVars,
         loopVars, batchVars, queueVars
    <3>2. Shifted(Line, Line', 0)
      BY <3>1, LineQueues, QueuesNothing
    <3>3. \A v \in Users : tpc'[v] = tpc[v] \/ {tpc[v], tpc'[v]} \cap Messages = {}
      BY <2>1, <3>1, NoMessage
    <3> QED
      BY <3>1, <3>2, <3>3 DEF Passes
  <2>4. CASE shutdown_queue(u)
    <3>1. /\ UNCHANGED <<accepted, lost, unsent, functors>>
          /\ tpc[u] = "shutdown" /\ tpc' = [tpc EXCEPT ![u] = "idle"]
          /\ queue(<<"shutdownInLoop">>)
      BY <2>4 DEF shutdown_queue, queues, connVars, streamVars, loopVars, batchVars
    <3>2. "shutdownInLoop" \in Functors
      BY DEF Functors, Bare
    <3>3. Shifted(Line, Line', 0)
      BY <3>1, <3>2, LineQueues, QueuesOne, NoMessage
    <3>4. \A v \in Users : tpc'[v] = tpc[v] \/ {tpc[v], tpc'[v]} \cap Messages = {}
      BY <2>1, <3>1, NoMessage
    <3> QED
      BY <3>1, <3>3, <3>4 DEF Passes
  <2>5. CASE send_queue(u)
    <3> DEFINE m == tpc[u]
    <3>1. /\ UNCHANGED <<accepted, lost, unsent, functors>>
          /\ m \in Messages /\ tpc' = [tpc EXCEPT ![u] = "idle"]
          /\ m_pendingFunctors' = m_pendingFunctors \o <<m>>
      BY <2>5 DEF send_queue, queues, queue, connVars, streamVars, loopVars, batchVars
    <3>2. /\ functors \in Seq(Functors) /\ m_pendingFunctors \in Seq(Functors)
          /\ <<m>> \in Seq(Functors)
      BY <3>1 DEF TypeOK, LoopTypes, QueueTypes, Functors, Bare
    <3>3. Line' = Line \o <<m>>
      <4>1. Regroups(functors, m_pendingFunctors, <<m>>)
        BY ONLY <3>2, Regroup
      <4> QED
        BY <3>1, <4>1 DEF Regroups, Line
    <3> QED
      BY <3>1, <3>3 DEF Queues
  <2> QED
    BY <1>12, <2>2, <2>3, <2>4, <2>5 DEF UserStep
<1>13. ASSUME NEW u \in Users, NEW m \in Messages, send(u, m) PROVE Begins(u, m)
  BY <1>13 DEF send, goesOn, Begins, connVars, streamVars, loopVars, batchVars, queueVars
<1> QED
  BY <1>4, <1>5, <1>6, <1>7, <1>8, <1>9, <1>10, <1>11, <1>12, <1>13
     DEF Next, LoopStep, BaseStep, MessageMoves

StreamOnce ==
  /\ IsInjective(accepted)
  /\ \A m \in Messages : <<m, 2>> \in Range(accepted) => m \in TakenOn
  /\ TakenOn \cap lost = {}

PlacesApart ==
  /\ unsent \cap (InHand \cup Range(Line) \cup TakenOn \cup lost) = {}
  /\ InHand \cap (Range(Line) \cup TakenOn \cup lost) = {}
  /\ Range(Line) \cap (TakenOn \cup lost) = {}

MessageInv ==
  /\ StreamOnce /\ PlacesApart
  /\ OnceIn(Line)
  /\ \A u, v \in Users : tpc[u] \in Messages /\ tpc[u] = tpc[v] => u = v

LEMMA MessageInit == Init => MessageInv
<1> SUFFICES ASSUME Init PROVE MessageInv
  OBVIOUS
<1>1. /\ accepted = <<>> /\ lost = {} /\ functors = <<>>
      /\ m_pendingFunctors = <<>> \/ m_pendingFunctors = <<"connectEstablished">>
      /\ tpc = [u \in Users |-> "idle"]
  BY DEF Init
<1>2. Line = <<>> \/ Line = <<"connectEstablished">>
  BY <1>1 DEF Line
<1>3. OnceIn(Line) /\ Range(Line) \cap Messages = {}
  BY <1>2, NoMessage DEF OnceIn, Range
<1>4. InHand = {}
  BY <1>1, NoMessage DEF InHand
<1>5. Range(accepted) = {} /\ IsInjective(accepted) /\ TakenOn = {}
  BY <1>1 DEF Range, IsInjective, TakenOn
<1>6. unsent = Messages
  BY DEF Init
<1> QED
  BY <1>1, <1>3, <1>4, <1>5, <1>6, NoMessage DEF MessageInv, StreamOnce, PlacesApart

\* The places are places of messages.
LEMMA PlaceTypes ==
  ASSUME TypeOK
  PROVE  /\ Line \in Seq(Functors) /\ accepted \in Seq(Byte)
         /\ tpc \in [Users -> Messages \cup {"idle", "setState", "shutdown"}]
         /\ unsent \subseteq Messages /\ lost \subseteq Messages
         /\ TakenOn \subseteq Messages /\ InHand \subseteq Messages
  BY ConcatProperties
     DEF TypeOK, LoopTypes, QueueTypes, StreamTypes, UserTypes, Byte, Line, TakenOn, InHand

\* So they are after a step.
LEMMA NextPlaceTypes ==
  ASSUME TypeOK'
  PROVE  Line' \in Seq(Functors) /\ TakenOn' \subseteq Messages /\ lost' \subseteq Messages
  BY ConcatProperties DEF TypeOK, LoopTypes, QueueTypes, StreamTypes, Line, TakenOn

\* What a message's bytes add to the stream.
LEMMA BytesOnce ==
  ASSUME NEW m \in Messages
  PROVE  /\ IsInjective(Bytes(m)) /\ Range(Bytes(m)) = {<<m, 1>>, <<m, 2>>}
         /\ \A a, b \in Messages : ~Before(Bytes(m), <<a, 1>>, <<b, 1>>)
<1>1. /\ DOMAIN Bytes(m) = {1, 2} /\ Bytes(m)[1] = <<m, 1>> /\ Bytes(m)[2] = <<m, 2>>
  BY DEF Bytes
<1>2. \A a, b : <<a, 1>> # <<b, 2>>
  OBVIOUS
<1> QED
  BY <1>1, <1>2 DEF IsInjective, Range, Before

\* A message that is decided joins the stream or what is lost, if anything.
LEMMA DecidedOnce ==
  ASSUME TypeOK, StreamOnce, NEW m \in Messages, m \notin TakenOn \cup lost, Decided(m)
  PROVE  /\ StreamOnce'
         /\ TakenOn \subseteq TakenOn' /\ (TakenOn \cup lost)' \subseteq TakenOn \cup lost \cup {m}
         /\ \A a, b \in Messages :
              Before(accepted', <<a, 1>>, <<b, 1>>) =>
                Before(accepted, <<a, 1>>, <<b, 1>>) \/ (a \in TakenOn /\ b = m)
<1>1. CASE UNCHANGED accepted
  BY <1>1 DEF Decided, StreamOnce, TakenOn
<1>2. CASE accepted' = accepted \o Bytes(m) /\ UNCHANGED lost
  <2>1. accepted \in Seq(Byte) /\ Bytes(m) \in Seq(Byte)
    BY PlaceTypes, BytesType
  <2>2. Range(Bytes(m)) = {<<m, 1>>, <<m, 2>>} /\ IsInjective(Bytes(m))
    BY BytesOnce
  <2>3. <<m, 1>> \notin Range(accepted) /\ <<m, 2>> \notin Range(accepted)
    BY DEF StreamOnce, TakenOn
  <2>4. Range(accepted) \cap Range(Bytes(m)) = {} /\ IsInjective(accepted)
    BY <2>2, <2>3 DEF StreamOnce
  <2>5. /\ IsInjective(accepted')
        /\ Range(accepted') = Range(accepted) \cup {<<m, 1>>, <<m, 2>>}
    <3>1. /\ IsInjective(accepted \o Bytes(m))
          /\ Range(accepted \o Bytes(m)) = Range(accepted) \cup Range(Bytes(m))
      BY ONLY <2>1, <2>2, <2>4, InjectiveConcat
    <3> QED
      BY <1>2, <2>2, <3>1
  <2>6. TakenOn' = TakenOn \cup {m}
    <3>1. \A a \in Messages : <<a, 1>> \in Range(accepted') <=> <<a, 1>> \in Range(accepted) \/ a = m
      BY <2>5
    <3> QED
      BY <3>1 DEF TakenOn
  <2>7. \A a \in Messages : <<a, 2>> \in Range(accepted') => a \in TakenOn'
    <3>1. \A a \in Messages : <<a, 2>> \in Range(accepted') => <<a, 2>> \in Range(accepted) \/ a = m
      BY <2>5
    <3> QED
      BY <2>6, <3>1 DEF StreamOnce
  <2>8. StreamOnce'
    BY <1>2, <2>5, <2>6, <2>7 DEF StreamOnce
  <2>9. ASSUME NEW a \in Messages, NEW b \in Messages, Before(accepted', <<a, 1>>, <<b, 1>>)
        PROVE  Before(accepted, <<a, 1>>, <<b, 1>>) \/ (a \in TakenOn /\ b = m)
    <3>1. \/ Before(accepted, <<a, 1>>, <<b, 1>>)
          \/ <<a, 1>> \in Range(accepted) /\ <<b, 1>> \in Range(Bytes(m))
          \/ Before(Bytes(m), <<a, 1>>, <<b, 1>>)
      BY <1>2, <2>1, <2>9, BeforeConcat
    <3>2. ~Before(Bytes(m), <<a, 1>>, <<b, 1>>)
      BY BytesOnce
    <3>3. <<b, 1>> \in Range(Bytes(m)) => b = m
      BY <2>2
    <3> QED
      BY <3>1, <3>2, <3>3 DEF TakenOn
  <2> QED
    BY <1>2, <2>6, <2>8, <2>9
<1> QED
  BY <1>1, <1>2 DEF Decided

\* Only the message that is decided is taken on.
LEMMA DecidedTakes ==
  ASSUME TypeOK, NEW m \in Messages, Decided(m)
  PROVE  TakenOn' \subseteq TakenOn \cup {m}
<1>1. CASE accepted' = accepted \o Bytes(m)
  <2>1. accepted \in Seq(Byte) /\ Bytes(m) \in Seq(Byte)
    BY PlaceTypes, BytesType
  <2>2. Range(accepted') = Range(accepted) \cup {<<m, 1>>, <<m, 2>>}
    BY <1>1, <2>1, RangeConcatenation, BytesOnce
  <2> QED
    BY <2>2 DEF TakenOn
<1> QED
  BY <1>1 DEF Decided, TakenOn

LEMMA PassesKeeps ==
  ASSUME TypeOK, TypeOK', MessageInv, Passes
  PROVE  MessageInv'
<1>1. PICK d \in Nat : Shifted(Line, Line', d)
  BY DEF Passes
<1>2. OnceIn(Line') /\ Range(Line') \cap Messages \subseteq Range(Line)
  BY <1>1, PlaceTypes, NextPlaceTypes, OnceShifted DEF MessageInv
<1>3. /\ \A u \in Users : tpc'[u] = tpc[u] \/ {tpc[u], tpc'[u]} \cap Messages = {}
      /\ UNCHANGED <<accepted, lost, unsent>>
  BY DEF Passes
<1>4. InHand' \subseteq InHand /\ TakenOn' = TakenOn
  BY <1>3 DEF InHand, TakenOn
<1>5. \A u, v \in Users : tpc'[u] \in Messages /\ tpc'[u] = tpc'[v] => u = v
  BY <1>3 DEF MessageInv
<1>6. StreamOnce'
  BY <1>3, <1>4 DEF MessageInv, StreamOnce
<1>7. PlacesApart'
  BY <1>2, <1>3, <1>4, PlaceTypes DEF MessageInv, PlacesApart
<1> QED
  BY <1>2, <1>5, <1>6, <1>7 DEF MessageInv

LEMMA BeginsKeeps ==
  ASSUME TypeOK, MessageInv, NEW w \in Users, NEW m \in Messages, Begins(w, m)
  PROVE  MessageInv'
<1>1. /\ m \in unsent /\ unsent' = unsent \ {m} /\ tpc' = [tpc EXCEPT ![w] = m]
      /\ UNCHANGED <<accepted, lost, functors, m_pendingFunctors>>
  BY DEF Begins
<1>2. \A u \in Users : tpc'[u] = IF u = w THEN m ELSE tpc[u]
  BY <1>1, PlaceTypes
<1>3. m \notin InHand /\ m \notin Range(Line) \cup TakenOn \cup lost
  BY <1>1 DEF MessageInv, PlacesApart
<1>4. InHand' \subseteq InHand \cup {m} /\ UNCHANGED <<TakenOn, Line>>
  BY <1>1, <1>2 DEF InHand, TakenOn, Line
<1>5. \A u, v \in Users : tpc'[u] \in Messages /\ tpc'[u] = tpc'[v] => u = v
  BY <1>2, <1>3 DEF MessageInv, InHand
<1>6. StreamOnce'
  BY <1>1, <1>4 DEF MessageInv, StreamOnce
<1>7. PlacesApart'
  BY <1>1, <1>3, <1>4 DEF MessageInv, PlacesApart
<1> QED
  BY <1>4, <1>5, <1>6, <1>7 DEF MessageInv

\* A message about to be queued is nowhere else.
LEMMA InHandOnly ==
  ASSUME MessageInv, NEW u \in Users, NEW m \in Messages, tpc[u] = m
  PROVE  m \in InHand /\ m \notin Range(Line) \cup TakenOn \cup lost \cup unsent
  BY DEF MessageInv, PlacesApart, InHand

LEMMA QueuesKeeps ==
  ASSUME TypeOK, MessageInv, NEW w \in Users, NEW m \in Messages, Queues(w, m)
  PROVE  MessageInv'
<1>1. /\ tpc[w] = m /\ tpc' = [tpc EXCEPT ![w] = "idle"] /\ Line' = Line \o <<m>>
      /\ UNCHANGED <<accepted, lost, unsent>>
  BY DEF Queues
<1>2. \A u \in Users : tpc'[u] = IF u = w THEN "idle" ELSE tpc[u]
  BY <1>1, PlaceTypes
<1>3. m \in InHand /\ m \notin Range(Line) \cup TakenOn \cup lost \cup unsent
  BY <1>1, InHandOnly
<1>4. OnceIn(Line') /\ Range(Line') = Range(Line) \cup {m}
  <2>1. Line \in Seq(Functors) /\ m \in Functors /\ OnceIn(Line) /\ m \notin Range(Line)
    BY <1>3, PlaceTypes DEF Functors, Bare, MessageInv
  <2> QED
    BY <1>1, <2>1, OnceAppend
<1>5. InHand' \subseteq InHand \ {m} /\ TakenOn' = TakenOn
  <2>1. \A u \in Users : tpc'[u] \in Messages => u # w /\ tpc'[u] = tpc[u] /\ tpc[u] # m
    BY <1>1, <1>2, NoMessage DEF MessageInv
  <2> QED
    BY <1>1, <2>1 DEF InHand, TakenOn
<1>6. \A u, v \in Users : tpc'[u] \in Messages /\ tpc'[u] = tpc'[v] => u = v
  BY <1>2, NoMessage DEF MessageInv
<1>7. StreamOnce'
  BY <1>1, <1>5 DEF MessageInv, StreamOnce
<1>8. PlacesApart'
  BY <1>1, <1>3, <1>4, <1>5 DEF MessageInv, PlacesApart
<1> QED
  BY <1>4, <1>6, <1>7, <1>8 DEF MessageInv

\* The head of the queue is in it.
LEMMA HeadFirst ==
  ASSUME NEW s \in Seq(Functors), s # <<>>
  PROVE  /\ Head(s) \in Range(s)
         /\ \A b \in Range(s) : b # Head(s) => Before(s, Head(s), b)
<1>1. Len(s) \in Nat /\ DOMAIN s = 1..Len(s) /\ 1 \in DOMAIN s /\ Head(s) = s[1]
  OBVIOUS
<1>2. ASSUME NEW b \in Range(s), b # Head(s) PROVE Before(s, Head(s), b)
  <2>1. PICK j \in DOMAIN s : s[j] = b
    BY DEF Range
  <2>2. 1 < j
    BY <1>1, <1>2, <2>1
  <2> QED
    BY <1>1, <2>1, <2>2 DEF Before
<1> QED
  BY <1>1, <1>2 DEF Range

LEMMA CarriesKeeps ==
  ASSUME TypeOK, TypeOK', MessageInv, NEW m \in Messages, Carries(m)
  PROVE  MessageInv'
<1>1. /\ Line # <<>> /\ Head(Line) = m /\ Shifted(Line, Line', 1) /\ Decided(m)
      /\ UNCHANGED <<tpc, unsent>> /\ Line \in Seq(Functors)
  BY PlaceTypes DEF Carries
<1>2. m \in Range(Line)
  BY <1>1, HeadFirst
<1>3. m \notin TakenOn \cup lost \cup unsent \cup InHand
  BY <1>2 DEF MessageInv, PlacesApart
<1>4. StreamOnce' /\ (TakenOn \cup lost)' \subseteq TakenOn \cup lost \cup {m}
  BY <1>1, <1>3, DecidedOnce DEF MessageInv
<1>5. /\ OnceIn(Line') /\ m \notin Range(Line')
      /\ Range(Line') \cap Messages \subseteq Range(Line)
  <2>1. Line' \in Seq(Functors)
    BY NextPlaceTypes
  <2> QED
    BY <1>1, <2>1, OnceShifted DEF MessageInv
<1>6. InHand' = InHand
  BY <1>1 DEF InHand
<1>7. PlacesApart'
  BY <1>1, <1>3, <1>4, <1>5, <1>6, PlaceTypes DEF MessageInv, PlacesApart
<1> QED
  BY <1>1, <1>4, <1>5, <1>7 DEF MessageInv

LEMMA OwnsKeeps ==
  ASSUME TypeOK, TypeOK', MessageInv, NEW m \in Messages, Owns(m)
  PROVE  MessageInv'
<1>1. /\ m \in unsent /\ unsent' = unsent \ {m} /\ Shifted(Line, Line', 0) /\ Decided(m)
      /\ UNCHANGED tpc
  BY DEF Owns
<1>2. m \notin TakenOn \cup lost \cup Range(Line) \cup InHand
  BY <1>1 DEF MessageInv, PlacesApart
<1>3. StreamOnce' /\ (TakenOn \cup lost)' \subseteq TakenOn \cup lost \cup {m}
  BY <1>1, <1>2, DecidedOnce DEF MessageInv
<1>4. OnceIn(Line') /\ Range(Line') \cap Messages \subseteq Range(Line)
  BY <1>1, PlaceTypes, NextPlaceTypes, OnceShifted DEF MessageInv
<1>5. InHand' = InHand
  BY <1>1 DEF InHand
<1>6. TakenOn' \subseteq Messages /\ lost' \subseteq Messages
  BY NextPlaceTypes
<1>7. PlacesApart'
  BY <1>1, <1>2, <1>3, <1>4, <1>5, <1>6, PlaceTypes DEF MessageInv, PlacesApart
<1> QED
  BY <1>1, <1>3, <1>4, <1>7 DEF MessageInv

LEMMA MessageKept ==
  ASSUME TypeOK, TypeOK', MessageInv, MessageMoves
  PROVE  MessageInv'
  BY PassesKeeps, BeginsKeeps, QueuesKeeps, CarriesKeeps, OwnsKeeps DEF MessageMoves

LEMMA MessageCorrect == SafeSpec => [](TypeOK /\ MessageInv)
<1>1. TypeOK /\ MessageInv /\ TypeOK' /\ [Next]_vars => MessageInv'
  BY MessageStep, MessageKept
<1> QED
  BY <1>1, TypeCorrect, MessageInit, PTL DEF SafeSpec

\* StreamIsIntact: sendInLoop's direct write, its buffer and handleWrite keep the
\* bytes of the messages taken on in the order they were taken on, and the functor
\* of a send() brings its message to sendInLoop once: the batch is taken out of the
\* queue when it is begun, and each functor out of the batch when it is run.
THEOREM StreamIntact == SafeSpec => []StreamIsIntact
<1>1. TypeOK /\ StreamInv /\ MessageInv => StreamIsIntact
  BY PlaceTypes DEF StreamInv, MessageInv, StreamOnce, StreamIsIntact, TakenOnOnce, TakenOn
<1> QED
  BY <1>1, StreamCorrect, MessageCorrect, PTL

------------------------------------------------------------------------------
(***************************************************************************)
(* The order of the messages.                                              *)
(***************************************************************************)

\* The messages that are queued or taken on.
Placed == TakenOn \cup (Range(Line) \cap Messages)

\* When a send() queues its message, every message queued or taken on by then is
\* ahead of it, those that the same thread has sent before among them.
SendsQueueBehind ==
  [][\A u \in Users, n \in Messages :
       tpc[u] = n /\ tpc'[u] = "idle" => \A m \in Placed : Ahead(m, n)']_vars

LEMMA AheadPlaced ==
  ASSUME NEW m \in Messages, NEW n \in Messages, Ahead(m, n)
  PROVE  m \in Placed /\ n \in Placed
  BY DEF Ahead, Placed, Before, TakenOn, Range

LEMMA AheadOneWay ==
  ASSUME TypeOK, MessageInv, NEW m \in Messages, NEW n \in Messages, Ahead(m, n)
  PROVE  ~Ahead(n, m)
<1>1. Line \in Seq(Functors) /\ accepted \in Seq(Byte)
  BY PlaceTypes
<1>2. OnceIn(Line) /\ IsInjective(accepted) /\ Range(Line) \cap TakenOn = {}
  BY DEF MessageInv, StreamOnce, PlacesApart
<1>3. \A a, b \in Messages :
        /\ Before(accepted, <<a, 1>>, <<b, 1>>) => a \in TakenOn /\ b \in TakenOn
        /\ Before(Line, a, b) => a \in Range(Line) /\ b \in Range(Line)
  BY DEF Before, TakenOn, Range
<1>4. Before(accepted, <<m, 1>>, <<n, 1>>) => ~Before(accepted, <<n, 1>>, <<m, 1>>)
  BY <1>1, <1>2, BeforeOneWay
<1>5. Before(Line, m, n) => ~Before(Line, n, m)
  BY <1>1, <1>2, BeforeOneWay
<1> QED
  BY <1>2, <1>3, <1>4, <1>5 DEF Ahead

\* What is ahead after a step was ahead before, unless one of the two comes new.
LEMMA AheadStep ==
  ASSUME TypeOK, TypeOK', MessageInv, MessageMoves,
         NEW a \in Messages, NEW b \in Messages, Ahead(a, b)'
  PROVE  Ahead(a, b) \/ a \notin Placed \/ b \notin Placed
<1>0. /\ Line \in Seq(Functors) /\ Line' \in Seq(Functors) /\ OnceIn(Line)
  BY PlaceTypes, NextPlaceTypes DEF MessageInv
<1>1. \/ Before(accepted', <<a, 1>>, <<b, 1>>)
      \/ a \in TakenOn' /\ b \in Range(Line')
      \/ Before(Line', a, b)
  BY DEF Ahead
<1>2. ASSUME NEW d \in Nat, Shifted(Line, Line', d)
      PROVE  /\ Range(Line') \cap Messages \subseteq Range(Line)
             /\ Before(Line', a, b) => Before(Line, a, b)
             /\ d > 0 /\ Line # <<>> /\ Head(Line) \in Messages => Head(Line) \notin Range(Line')
  BY <1>0, <1>2, OnceShifted
<1>3. CASE Passes
  <2>1. PICK d \in Nat : Shifted(Line, Line', d)
    BY <1>3 DEF Passes
  <2>2. accepted' = accepted /\ TakenOn' = TakenOn
    BY <1>3 DEF Passes, TakenOn
  <2> QED
    BY <1>1, <1>2, <2>1, <2>2 DEF Ahead
<1>4. ASSUME NEW u \in Users, NEW m \in Messages, Begins(u, m) PROVE Ahead(a, b)
  BY <1>1, <1>4 DEF Begins, Ahead, TakenOn, Line
<1>5. ASSUME NEW u \in Users, NEW m \in Messages, Queues(u, m)
      PROVE  Ahead(a, b) \/ b \notin Placed
  <2>1. tpc[u] = m /\ Line' = Line \o <<m>> /\ accepted' = accepted /\ TakenOn' = TakenOn
    BY <1>5 DEF Queues, TakenOn
  <2>2. m \notin Placed /\ m \notin Range(Line) /\ m \in Functors
    BY <2>1, InHandOnly DEF Placed, Functors, Bare
  <2>3. /\ Range(Line') = Range(Line) \cup {m}
        /\ Before(Line', a, b) => Before(Line, a, b) \/ b = m
    BY <1>0, <2>1, <2>2, OnceAppend
  <2> QED
    BY <1>1, <2>1, <2>2, <2>3 DEF Ahead
<1>6. ASSUME NEW m \in Messages, Carries(m) PROVE Ahead(a, b)
  <2>1. Line # <<>> /\ Head(Line) = m /\ Shifted(Line, Line', 1) /\ Decided(m)
    BY <1>6 DEF Carries
  <2>2. m \in Range(Line) /\ \A c \in Range(Line) : c # m => Before(Line, m, c)
    BY <1>0, <2>1, HeadFirst
  <2>3. m \notin TakenOn \cup lost
    BY <2>2 DEF MessageInv, PlacesApart
  <2>4. /\ (TakenOn \cup lost)' \subseteq TakenOn \cup lost \cup {m}
        /\ Before(accepted', <<a, 1>>, <<b, 1>>) =>
             Before(accepted, <<a, 1>>, <<b, 1>>) \/ (a \in TakenOn /\ b = m)
    BY <2>1, <2>3, DecidedOnce DEF MessageInv
  <2>5. TakenOn' \subseteq TakenOn \cup {m}
    BY <2>1, DecidedTakes
  <2>6. /\ Range(Line') \cap Messages \subseteq Range(Line) /\ m \notin Range(Line')
        /\ Before(Line', a, b) => Before(Line, a, b)
    BY <1>2, <2>1
  <2> QED
    BY <1>1, <2>2, <2>4, <2>5, <2>6 DEF Ahead
<1>7. ASSUME NEW m \in Messages, Owns(m)
      PROVE  Ahead(a, b) \/ a \notin Placed \/ b \notin Placed
  <2>1. m \in unsent /\ Shifted(Line, Line', 0) /\ Decided(m)
    BY <1>7 DEF Owns
  <2>2. m \notin Placed /\ m \notin TakenOn \cup lost
    BY <2>1 DEF MessageInv, PlacesApart, Placed
  <2>3. /\ Before(accepted', <<a, 1>>, <<b, 1>>) =>
             Before(accepted, <<a, 1>>, <<b, 1>>) \/ (a \in TakenOn /\ b = m)
    BY <2>1, <2>2, DecidedOnce DEF MessageInv
  <2>4. TakenOn' \subseteq TakenOn \cup {m}
    BY <2>1, DecidedTakes
  <2>5. /\ Range(Line') \cap Messages \subseteq Range(Line)
        /\ Before(Line', a, b) => Before(Line, a, b)
    BY <1>2, <2>1
  <2> QED
    BY <1>1, <2>2, <2>3, <2>4, <2>5 DEF Ahead
<1> QED
  BY <1>3, <1>4, <1>5, <1>6, <1>7 DEF MessageMoves

\* MessagesKeepOrder: the queue and the batch are first-in first-out, sendInLoop
\* appends to the stream, and a message sent from a callback was not queued.
THEOREM OrderKept == SafeSpec => MessagesKeepOrder
<1>1. TypeOK /\ MessageInv /\ TypeOK' /\ [Next]_vars =>
        [\A m, n \in Messages : Ahead(m, n) => ~Ahead(n, m)']_vars
  <2> SUFFICES ASSUME TypeOK, MessageInv, TypeOK', [Next]_vars,
                      NEW m \in Messages, NEW n \in Messages, Ahead(m, n), Ahead(n, m)'
               PROVE  FALSE
    OBVIOUS
  <2>1. MessageMoves
    BY MessageStep
  <2>2. Ahead(n, m) \/ n \notin Placed \/ m \notin Placed
    BY <2>1, AheadStep
  <2> QED
    BY <2>2, AheadPlaced, AheadOneWay
<1> QED
  BY <1>1, TypeCorrect, MessageCorrect, PTL DEF SafeSpec, MessagesKeepOrder

\* SendsQueueBehind: send() of a thread that is not the loop's ends with queueing
\* its functor, so a thread's messages are queued one behind the other.
THEOREM QueuedBehind == SafeSpec => SendsQueueBehind
<1>1. TypeOK /\ MessageInv /\ [Next]_vars =>
        [\A u \in Users, n \in Messages :
           tpc[u] = n /\ tpc'[u] = "idle" => \A m \in Placed : Ahead(m, n)']_vars
  <2> SUFFICES ASSUME TypeOK, MessageInv, [Next]_vars, NEW u \in Users,
                      NEW n \in Messages, tpc[u] = n, tpc'[u] = "idle",
                      NEW m \in Placed
               PROVE  Ahead(m, n)'
    OBVIOUS
  <2>1. MessageMoves
    BY MessageStep
  <2>2. tpc \in [Users -> Messages \cup {"idle", "setState", "shutdown"}]
    BY PlaceTypes
  <2>3. Queues(u, n)
    <3>1. ~Passes /\ \A l \in Messages : ~Carries(l) /\ ~Owns(l)
      BY NoMessage DEF Passes, Carries, Owns
    <3>2. \A v \in Users, l \in Messages : ~Begins(v, l)
      BY <2>2, NoMessage DEF Begins
    <3>3. \A v \in Users, l \in Messages : Queues(v, l) => v = u /\ l = n
      BY <2>2, NoMessage DEF Queues
    <3> QED
      BY <2>1, <3>1, <3>2, <3>3 DEF MessageMoves
  <2>4. /\ Line' = Line \o <<n>> /\ TakenOn' = TakenOn
        /\ Line \in Seq(Functors) /\ OnceIn(Line)
    BY <2>3, PlaceTypes DEF Queues, TakenOn, MessageInv
  <2>5. n \notin Range(Line) /\ n \in Functors
    BY InHandOnly DEF Functors, Bare
  <2>6. Range(Line') = Range(Line) \cup {n} /\ \A a \in Range(Line) : Before(Line', a, n)
    BY <2>4, <2>5, OnceAppend
  <2> QED
    BY <2>4, <2>6 DEF Ahead, Placed
<1> QED
  BY <1>1, TypeCorrect, MessageCorrect, PTL DEF SafeSpec, SendsQueueBehind

====
