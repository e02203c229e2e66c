--------------------------- MODULE EventLoopProofs ---------------------------
(***************************************************************************)
(* Proofs about EventLoop, for every set of threads, functors and channels *)
(* and every nesting depth.                                                *)
(***************************************************************************)
EXTENDS EventLoop, SequenceTheorems, TLAPS

\* Popping the innermost callback leaves a sequence of callbacks.
LEMMA FrontType ==
  ASSUME NEW S, NEW s \in Seq(S), s # <<>>
  PROVE  /\ Front(s) \in Seq(S)
         /\ Front(s) # <<>> => Head(Front(s)) = Head(s)
         /\ Len(Front(s)) = Len(s) - 1
<1>1. Len(s) \in Nat /\ Len(s) > 0 /\ \A i \in 1..Len(s) : s[i] \in S
  BY EmptySeq, LenProperties
<1>2. PICK n \in Nat : Len(s) = n + 1
  BY <1>1
<1>3. \A i \in 1..n : s[i] \in S
  BY <1>1, <1>2
<1>4. Front(s) = SubSeq(s, 1, n)
  BY <1>2 DEF Front
<1>5. /\ Front(s) \in Seq(S)
      /\ Len(Front(s)) = n
      /\ \A i \in 1..n : Front(s)[i] = s[i]
  BY <1>3, <1>4, SubSeqProperties
<1>6. ASSUME Front(s) # <<>> PROVE Head(Front(s)) = Head(s)
  <2>1. n >= 1
    BY <1>5, <1>6, EmptySeq
  <2> QED
    BY <1>1, <1>5, <1>6, <2>1
<1> QED
  BY <1>2, <1>5, <1>6

\* A new loop has the types.
LEMMA TypeInit == Init => TypeOK
  BY EmptySeq DEF Init, TypeOK, Phases, Outside

\* Each step preserves the types: one case per action.
LEMMA TypeStep == TypeOK /\ [Next]_vars => TypeOK'
<1> SUFFICES ASSUME TypeOK, [Next]_vars PROVE TypeOK'
  OBVIOUS
<1> USE DEF TypeOK, Phases, Outside
<1>1. CASE loop
  BY <1>1 DEF loop
<1>2. CASE whileNotQuit
  BY <1>2 DEF whileNotQuit
<1>3. CASE poll
  BY <1>3 DEF poll, Ready
<1>4. CASE handleRead
  BY <1>4 DEF handleRead
<1>5. ASSUME NEW c \in Channels, handleEvent(c) PROVE TypeOK'
  BY <1>5 DEF handleEvent
<1>6. CASE doPendingFunctors
  BY <1>6 DEF doPendingFunctors
<1>7. CASE runFunctor
  BY <1>7 DEF runFunctor
<1>8. CASE functorsDone
  BY <1>8 DEF functorsDone
<1>9. CASE pollTimeout
  BY <1>9 DEF pollTimeout
<1>10. ASSUME NEW f \in Functors, queueInLoop_own(f) PROVE TypeOK'
  BY <1>10 DEF queueInLoop_own, loopVars, needsWakeup
<1>11. ASSUME NEW f \in Functors, runInLoop_own(f) PROVE TypeOK'
  BY <1>11 DEF runInLoop_own, InUserCode
<1>12. CASE returns
  BY <1>12, FrontType DEF returns
<1>13. CASE quit_own
  BY <1>13 DEF quit_own, loopVars
<1>14. ASSUME NEW t \in Threads, NEW f \in Functors, queueInLoop(t, f) PROVE TypeOK'
  BY <1>14 DEF queueInLoop, loopVars
<1>15. ASSUME NEW t \in Threads, quit(t) PROVE TypeOK'
  BY <1>15 DEF quit, loopVars
<1>16. ASSUME NEW t \in Threads, wakeup(t) PROVE TypeOK'
  BY <1>16 DEF wakeup, loopVars
<1>17. ASSUME NEW c \in Channels, becomesReadable(c) PROVE TypeOK'
  BY <1>17 DEF becomesReadable, loopVars
<1>18. CASE UNCHANGED vars
  BY <1>18 DEF vars, loopVars
<1> QED
  BY <1>1, <1>2, <1>3, <1>4, <1>5, <1>6, <1>7, <1>8, <1>9, <1>10, <1>11, <1>12,
     <1>13, <1>14, <1>15, <1>16, <1>17, <1>18 DEF Next, LoopStep, OwnCall, OtherThread

\* Type correctness of the loop: in particular m_callingPendingFunctors is raised
\* exactly during doPendingFunctors, which queueInLoop's test relies on.
THEOREM TypeCorrect == Spec => []TypeOK
<1>1. SafeSpec => []TypeOK
  BY TypeInit, TypeStep, PTL DEF SafeSpec
<1> QED
  BY <1>1 DEF Spec

------------------------------------------------------------------------------
(***************************************************************************)
(* The wakeup protocol.                                                    *)
(***************************************************************************)

\* A queued callback is announced in every phase from which the poll is reached
\* without another swap of the queue.
Announced == pc # "events" /\ m_pendingFunctors # <<>> => WakeupDue

\* The loop's own thread queues the first callback outside loop(): the test for a
\* wakeup looks at m_callingPendingFunctors, which is then FALSE.
QueuesSilently ==
  pc \in Outside /\ m_pendingFunctors = <<>> /\ \E f \in Functors : queueInLoop_own(f)

\* Only that leaves a callback unannounced: nothing the other threads do, nothing
\* inside loop(), and no later callback.
LosesOnlyOutside == [][Announced => Announced' \/ QueuesSilently]_vars

\* One case per action: handleRead alone takes the eventfd's counter away, in the
\* phase that is followed by a swap of the queue.
LEMMA AnnouncedStep ==
  ASSUME TypeOK, Announced, [Next]_vars, ~QueuesSilently
  PROVE  Announced'
<1> USE DEF TypeOK, Phases, Announced, WakeupDue
<1>1. CASE loop
  BY <1>1 DEF loop, Outside
<1>2. CASE whileNotQuit
  BY <1>2 DEF whileNotQuit
<1>3. CASE poll
  BY <1>3 DEF poll
<1>4. CASE handleRead
  BY <1>4 DEF handleRead
<1>5. ASSUME NEW c \in Channels, handleEvent(c) PROVE Announced'
  BY <1>5 DEF handleEvent
<1>6. CASE doPendingFunctors
  BY <1>6 DEF doPendingFunctors
<1>7. CASE runFunctor
  BY <1>7 DEF runFunctor
<1>8. CASE functorsDone
  BY <1>8 DEF functorsDone
<1>9. CASE pollTimeout
  BY <1>9 DEF pollTimeout
<1>10. ASSUME NEW f \in Functors, queueInLoop_own(f) PROVE Announced'
  <2>1. /\ pc \in Outside => m_pendingFunctors # <<>>
        /\ pc \in Outside \cup {"events", "functors"}
    BY <1>10 DEF queueInLoop_own, InUserCode, QueuesSilently, Outside
  <2> QED
    BY <1>10, <2>1 DEF queueInLoop_own, loopVars, needsWakeup, Outside
<1>11. ASSUME NEW f \in Functors, runInLoop_own(f) PROVE Announced'
  BY <1>11 DEF runInLoop_own
<1>12. CASE returns
  BY <1>12 DEF returns
<1>13. CASE quit_own
  BY <1>13 DEF quit_own, loopVars
<1>14. ASSUME NEW t \in Threads, NEW f \in Functors, queueInLoop(t, f) PROVE Announced'
  <2>1. tpc'[t] = "wakeup"
    BY <1>14 DEF queueInLoop
  <2> QED
    BY <2>1
<1>15. ASSUME NEW t \in Threads, quit(t) PROVE Announced'
  <2>1. tpc'[t] = "wakeup"
    BY <1>15 DEF quit
  <2> QED
    BY <2>1
<1>16. ASSUME NEW t \in Threads, wakeup(t) PROVE Announced'
  BY <1>16 DEF wakeup
<1>17. ASSUME NEW c \in Channels, becomesReadable(c) PROVE Announced'
  BY <1>17 DEF becomesReadable, loopVars
<1>18. CASE UNCHANGED vars
  BY <1>18 DEF vars, loopVars
<1> QED
  BY <1>1, <1>2, <1>3, <1>4, <1>5, <1>6, <1>7, <1>8, <1>9, <1>10, <1>11, <1>12,
     <1>13, <1>14, <1>15, <1>16, <1>17, <1>18 DEF Next, LoopStep, OwnCall, OtherThread

\* LosesOnlyOutside, for any use: a callback over which the loop may block was queued
\* by its own thread before loop(), and it waits for the first round at most, since
\* the swap leaves nothing unannounced.
THEOREM WakeupsLostOutside == Spec => LosesOnlyOutside
<1>1. TypeOK /\ [Next]_vars =>
        [Announced => Announced' \/ QueuesSilently]_vars
  BY AnnouncedStep
<1>2. SafeSpec => LosesOnlyOutside
  BY <1>1, TypeInit, TypeStep, PTL DEF SafeSpec, LosesOnlyOutside
<1> QED
  BY <1>2 DEF Spec

\* What makes the two inductive (the first for a loop whose own thread does not
\* queue outside loop()).  A quit made by the loop's own thread happens inside a
\* callback, hence before the next test of the while.
WakeupInv ==
  /\ ~QueueOutsideLoop => Announced
  /\ QuitWakesLoop

\* Nothing is queued and no quit is asked for before loop().
LEMMA WakeupInit == Init => WakeupInv
  BY DEF Init, WakeupInv, Announced, QuitWakesLoop

\* No step loses an announcement.
LEMMA WakeupStep == TypeOK /\ WakeupInv /\ [Next]_vars => WakeupInv'
<1> SUFFICES ASSUME TypeOK, WakeupInv, [Next]_vars PROVE WakeupInv'
  OBVIOUS
<1>0. ASSUME ~QueueOutsideLoop PROVE Announced'
  BY <1>0, AnnouncedStep DEF WakeupInv, QueuesSilently, queueInLoop_own
<1> SUFFICES QuitWakesLoop'
  BY <1>0 DEF WakeupInv
<1> USE DEF TypeOK, Phases, Outside, WakeupInv, QuitWakesLoop, WakeupDue
<1>1. CASE loop
  BY <1>1 DEF loop
<1>2. CASE whileNotQuit
  BY <1>2 DEF whileNotQuit
<1>3. CASE poll
  BY <1>3 DEF poll
<1>4. CASE handleRead
  BY <1>4 DEF handleRead
<1>5. ASSUME NEW c \in Channels, handleEvent(c) PROVE QuitWakesLoop'
  BY <1>5 DEF handleEvent
<1>6. CASE doPendingFunctors
  BY <1>6 DEF doPendingFunctors
<1>7. CASE runFunctor
  BY <1>7 DEF runFunctor
<1>8. CASE functorsDone
  BY <1>8 DEF functorsDone
<1>9. CASE pollTimeout
  BY <1>9 DEF pollTimeout
<1>10. ASSUME NEW f \in Functors, queueInLoop_own(f) PROVE QuitWakesLoop'
  BY <1>10 DEF queueInLoop_own, loopVars, needsWakeup, InUserCode
<1>11. ASSUME NEW f \in Functors, runInLoop_own(f) PROVE QuitWakesLoop'
  BY <1>11 DEF runInLoop_own
<1>12. CASE returns
  BY <1>12 DEF returns
<1>13. CASE quit_own
  BY <1>13 DEF quit_own, loopVars, InUserCode
<1>14. ASSUME NEW t \in Threads, NEW f \in Functors, queueInLoop(t, f)
       PROVE  QuitWakesLoop'
  <2>1. tpc'[t] = "wakeup"
    BY <1>14 DEF queueInLoop
  <2> QED
    BY <2>1
<1>15. ASSUME NEW t \in Threads, quit(t) PROVE QuitWakesLoop'
  <2>1. tpc'[t] = "wakeup"
    BY <1>15 DEF quit
  <2> QED
    BY <2>1
<1>16. ASSUME NEW t \in Threads, wakeup(t) PROVE QuitWakesLoop'
  BY <1>16 DEF wakeup
<1>17. ASSUME NEW c \in Channels, becomesReadable(c) PROVE QuitWakesLoop'
  BY <1>17 DEF becomesReadable, loopVars
<1>18. CASE UNCHANGED vars
  BY <1>18 DEF vars, loopVars
<1> QED
  BY <1>1, <1>2, <1>3, <1>4, <1>5, <1>6, <1>7, <1>8, <1>9, <1>10, <1>11, <1>12,
     <1>13, <1>14, <1>15, <1>16, <1>17, <1>18 DEF Next, LoopStep, OwnCall, OtherThread

\* Every queued callback and every foreign quit is announced by the eventfd in the
\* phases that lead to epoll_wait.
THEOREM WakeupCorrect == Spec => []WakeupInv
<1>1. SafeSpec => []WakeupInv
  BY TypeInit, TypeStep, WakeupInit, WakeupStep, PTL DEF SafeSpec
<1> QED
  BY <1>1 DEF Spec

\* However many threads queue callbacks, the loop never blocks over one of them
\* (provided its own thread queues none outside loop()).
THEOREM NoWakeupIsLost ==
  ASSUME ~QueueOutsideLoop
  PROVE  Spec => []NoLostWakeup
<1>1. WakeupInv => NoLostWakeup
  BY DEF WakeupInv, Announced, NoLostWakeup
<1> QED
  BY <1>1, WakeupCorrect, PTL

\* A quit() from another thread always ends the loop's wait.
THEOREM QuitIsNotSleptThrough == Spec => []QuitWakesLoop
<1>1. WakeupInv => QuitWakesLoop
  BY DEF WakeupInv
<1> QED
  BY <1>1, WakeupCorrect, PTL

------------------------------------------------------------------------------
(***************************************************************************)
(* The loop implements the queue of TaskQueue.                             *)
(***************************************************************************)

\* Taking the first of a concatenation takes the first of its first part.
LEMMA ConcatHeadTail ==
  ASSUME NEW S, NEW s \in Seq(S), NEW t \in Seq(S), s # <<>>
  PROVE  /\ s \o t # <<>>
         /\ Head(s \o t) = Head(s)
         /\ Tail(s \o t) = Tail(s) \o t
<1>1. /\ Len(s) \in Nat \ {0}
      /\ Len(t) \in Nat
  BY EmptySeq, LenProperties
<1>2. /\ s \o t \in Seq(S)
      /\ Len(s \o t) = Len(s) + Len(t)
      /\ \A i \in 1..(Len(s) + Len(t)) :
            (s \o t)[i] = IF i <= Len(s) THEN s[i] ELSE t[i - Len(s)]
  BY ConcatProperties
<1>3. s \o t # <<>>
  BY <1>1, <1>2, EmptySeq
<1>4. Head(s \o t) = Head(s)
  BY <1>1, <1>2, <1>3
<1>5. /\ Tail(s) \in Seq(S)
      /\ Len(Tail(s)) = Len(s) - 1
      /\ \A i \in 1..Len(Tail(s)) : Tail(s)[i] = s[i + 1]
  BY HeadTailProperties
<1>6. /\ Tail(s \o t) \in Seq(S)
      /\ Len(Tail(s \o t)) = Len(s) + Len(t) - 1
      /\ \A i \in 1..Len(Tail(s \o t)) : Tail(s \o t)[i] = (s \o t)[i + 1]
  BY <1>2, <1>3, HeadTailProperties
<1>7. /\ Tail(s) \o t \in Seq(S)
      /\ Len(Tail(s) \o t) = Len(Tail(s)) + Len(t)
      /\ \A i \in 1..(Len(Tail(s)) + Len(t)) :
            (Tail(s) \o t)[i] = IF i <= Len(Tail(s)) THEN Tail(s)[i]
                                ELSE t[i - Len(Tail(s))]
  BY <1>5, ConcatProperties
<1>8. ASSUME NEW i \in 1..Len(Tail(s \o t))
      PROVE  Tail(s \o t)[i] = (Tail(s) \o t)[i]
  <2>1. i \in Int /\ i + 1 \in 1..(Len(s) + Len(t)) /\ i \in 1..(Len(Tail(s)) + Len(t))
    BY <1>1, <1>5, <1>6
  <2>2. Tail(s \o t)[i] = IF i + 1 <= Len(s) THEN s[i + 1] ELSE t[i + 1 - Len(s)]
    BY <1>2, <1>6, <2>1
  <2>3. CASE i <= Len(Tail(s))
    BY <1>1, <1>5, <1>7, <2>1, <2>2, <2>3
  <2>4. CASE ~(i <= Len(Tail(s)))
    <3>1. i - Len(Tail(s)) = i + 1 - Len(s)
      BY <1>1, <1>5, <2>1
    <3> QED
      BY <1>1, <1>5, <1>7, <2>1, <2>2, <2>4, <3>1
  <2> QED
    BY <2>3, <2>4
<1>9. Tail(s \o t) = Tail(s) \o t
  <2>1. Len(Tail(s \o t)) = Len(Tail(s) \o t)
    BY <1>1, <1>5, <1>6, <1>7
  <2> QED
    BY <1>6, <1>7, <1>8, <2>1, SeqEqual
<1> QED
  BY <1>3, <1>4, <1>9

\* Appending to the second part of a concatenation appends to the whole.
LEMMA ConcatAppend ==
  ASSUME NEW S, NEW s \in Seq(S), NEW t \in Seq(S), NEW e \in S
  PROVE  s \o Append(t, e) = Append(s \o t, e)
<1>1. Append(t, e) = t \o <<e>> /\ <<e>> \in Seq(S)
  BY AppendIsConcat
<1>2. s \o t \in Seq(S)
  BY ConcatProperties
<1>3. Append(s \o t, e) = (s \o t) \o <<e>>
  BY <1>2, AppendIsConcat
<1> QED
  BY <1>1, <1>3, ConcatAssociative

\* Every step of the loop is a step of the queue or leaves it as it is.
LEMMA TaskingStep == TypeOK /\ [Next]_vars => [Tasking!Next]_(Tasking!vars)
<1> SUFFICES ASSUME TypeOK, [Next]_vars PROVE [Tasking!Next]_(Tasking!vars)
  OBVIOUS
<1> DEFINE Q == functors \o m_pendingFunctors
           Same == Q' = Q /\ FunctorInService' = FunctorInService
                   /\ (pc \notin Outside)' = (pc \notin Outside)
<1>0. /\ pc \in Phases
      /\ functors \in Seq(Functors) /\ m_pendingFunctors \in Seq(Functors)
      /\ pc # "functors" => functors = <<>>
      /\ Q \in Seq(Functors)
      /\ NoFunctor \notin Functors
  BY LoopAssumption, ConcatProperties DEF TypeOK, LoopAssumption
<1>s. Same => [Tasking!Next]_(Tasking!vars)
  BY DEF Tasking!vars
<1>1. CASE loop
  <2>1. Tasking!Toggle
    BY <1>1 DEF loop, Tasking!Toggle, FunctorInService, Outside
  <2> QED
    BY <2>1 DEF Tasking!Next
<1>2. CASE whileNotQuit
  <2>1. CASE m_quit
    <3>1. Tasking!Toggle
      BY <1>2, <2>1 DEF whileNotQuit, Tasking!Toggle, FunctorInService, Outside
    <3> QED
      BY <3>1 DEF Tasking!Next
  <2>2. CASE ~m_quit
    BY <1>2, <2>2, <1>s DEF whileNotQuit, FunctorInService, Outside
  <2> QED
    BY <2>1, <2>2
<1>3. CASE poll
  BY <1>3, <1>s DEF poll, FunctorInService, Outside
<1>4. CASE handleRead
  BY <1>4, <1>s DEF handleRead, FunctorInService, Outside
<1>5. ASSUME NEW c \in Channels, handleEvent(c)
      PROVE  [Tasking!Next]_(Tasking!vars)
  BY <1>5, <1>s DEF handleEvent, FunctorInService, Outside
<1>6. CASE doPendingFunctors
  <2>1. Q = m_pendingFunctors /\ Q' = m_pendingFunctors
    BY <1>0, <1>6, ConcatEmptySeq DEF doPendingFunctors
  <2> QED
    BY <1>6, <2>1, <1>s DEF doPendingFunctors, FunctorInService, Outside
<1>7. CASE runFunctor
  <2>1. /\ Q # <<>> /\ Head(Q) = Head(functors)
        /\ Q' = Tail(Q)
    BY <1>0, <1>7, ConcatHeadTail DEF runFunctor
  <2>2. FunctorInService = NoFunctor /\ FunctorInService' = Head(functors)
    BY <1>7 DEF runFunctor, FunctorInService
  <2>3. Tasking!Run
    BY <1>7, <2>1, <2>2 DEF runFunctor, Tasking!Run, Outside
  <2> QED
    BY <2>3 DEF Tasking!Next
<1>8. CASE functorsDone
  BY <1>8, <1>s DEF functorsDone, FunctorInService, Outside
<1>9. CASE pollTimeout
  BY <1>9, <1>s DEF pollTimeout, FunctorInService, Outside
<1>10. ASSUME NEW f \in Functors, queueInLoop_own(f)
       PROVE  [Tasking!Next]_(Tasking!vars)
  <2>1. Q' = Append(Q, f)
    BY <1>0, <1>10, ConcatAppend DEF queueInLoop_own, loopVars
  <2>2. Tasking!Post(f)
    BY <1>10, <2>1 DEF queueInLoop_own, loopVars, Tasking!Post, FunctorInService
  <2> QED
    BY <2>2 DEF Tasking!Next
<1>11. ASSUME NEW f \in Functors, runInLoop_own(f)
       PROVE  [Tasking!Next]_(Tasking!vars)
  <2>1. FunctorInService' = FunctorInService
    <3>1. CASE stack = <<>>
      BY <1>11, <3>1 DEF runInLoop_own, InUserCode, FunctorInService, Outside
    <3>2. CASE stack # <<>>
      <4>1. stack \in Seq(Functors \cup Channels) /\ stack' = Append(stack, f)
        BY <1>11 DEF TypeOK, runInLoop_own
      <4>2. stack' # <<>> /\ Head(stack') = Head(stack)
        BY <3>2, <4>1, HeadTailAppend, AppendProperties
      <4> QED
        BY <1>11, <3>2, <4>2 DEF runInLoop_own, FunctorInService
    <3> QED
      BY <3>1, <3>2
  <2> QED
    BY <1>11, <2>1, <1>s DEF runInLoop_own
<1>12. CASE returns
  <2>1. /\ stack # <<>> /\ stack' = Front(stack)
        /\ Front(stack) # <<>> => Head(Front(stack)) = Head(stack)
    BY <1>12, FrontType DEF returns, TypeOK
  <2>2. CASE FunctorInService' = FunctorInService
    BY <1>12, <2>2, <1>s DEF returns
  <2>3. CASE FunctorInService' # FunctorInService
    <3>1. FunctorInService # NoFunctor /\ FunctorInService' = NoFunctor
      BY <1>12, <2>1, <2>3 DEF returns, FunctorInService
    <3>2. Tasking!Finish
      BY <1>12, <3>1 DEF returns, Tasking!Finish
    <3> QED
      BY <3>2 DEF Tasking!Next
  <2> QED
    BY <2>2, <2>3
<1>13. CASE quit_own
  BY <1>13, <1>s DEF quit_own, loopVars, FunctorInService
<1>14. ASSUME NEW t \in Threads, NEW f \in Functors, queueInLoop(t, f)
       PROVE  [Tasking!Next]_(Tasking!vars)
  <2>1. Q' = Append(Q, f)
    BY <1>0, <1>14, ConcatAppend DEF queueInLoop, loopVars
  <2>2. Tasking!Post(f)
    BY <1>14, <2>1 DEF queueInLoop, loopVars, Tasking!Post, FunctorInService
  <2> QED
    BY <2>2 DEF Tasking!Next
<1>15. ASSUME NEW t \in Threads, quit(t) PROVE [Tasking!Next]_(Tasking!vars)
  BY <1>15, <1>s DEF quit, loopVars, FunctorInService
<1>16. ASSUME NEW t \in Threads, wakeup(t) PROVE [Tasking!Next]_(Tasking!vars)
  BY <1>16, <1>s DEF wakeup, loopVars, FunctorInService
<1>17. ASSUME NEW c \in Channels, becomesReadable(c)
       PROVE  [Tasking!Next]_(Tasking!vars)
  BY <1>17, <1>s DEF becomesReadable, loopVars, FunctorInService
<1>18. CASE UNCHANGED vars
  BY <1>18, <1>s DEF vars, loopVars, FunctorInService
<1> QED
  BY <1>1, <1>2, <1>3, <1>4, <1>5, <1>6, <1>7, <1>8, <1>9, <1>10, <1>11, <1>12,
     <1>13, <1>14, <1>15, <1>16, <1>17, <1>18 DEF Next, LoopStep, OwnCall, OtherThread

\* A new loop is an empty queue that nobody serves.
LEMMA TaskingInit == Init => Tasking!Init
<1> SUFFICES ASSUME Init PROVE Tasking!Init
  OBVIOUS
<1>1. functors \o m_pendingFunctors = <<>>
  BY EmptySeq, ConcatEmptySeq DEF Init
<1> QED
  BY <1>1 DEF Init, Tasking!Init, FunctorInService, Outside

\* The safety half of ServesQueue: callbacks are served first-in first-out, one at a
\* time, each at most once per call of queueInLoop, whoever queues them and however
\* the calls interleave with the loop (EventLoop.cpp:128-195).
THEOREM QueueIsServedInOrder == SafeSpec => Tasking!SafeSpec
  BY TypeInit, TypeStep, TaskingInit, TaskingStep, PTL
     DEF SafeSpec, Tasking!SafeSpec

==============================================================================
