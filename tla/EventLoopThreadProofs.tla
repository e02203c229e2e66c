------------------------ MODULE EventLoopThreadProofs ------------------------
(***************************************************************************)
(* Proofs about EventLoopThread, for every set of callbacks and channels,  *)
(* and whether or not the owner waits until loop() was entered.            *)
(***************************************************************************)
EXTENDS EventLoopThread, SequenceTheorems, TLAPS

\* What the two threads and the kernel do with the EventLoop, quit() left out.
LoopRuns ==
  \/ Loop!loop \/ Loop!LoopStep \/ Loop!pollTimeout \/ Loop!returns
  \/ \E f \in Functors : Loop!queueInLoop_own(f) \/ Loop!queueInLoop(Owner, f)
  \/ Loop!wakeup(Owner)
  \/ \E c \in Channels : Loop!becomesReadable(c)

\* The variables that are not the EventLoop's.
threadVars == <<owner, worker, m_loop, mutex>>

\* The steps of Next that are steps of the EventLoop alone.
LoopAlone ==
  \/ enterLoop \/ loopStep \/ becomesReadable \/ wakeup
  \/ \E f \in Functors : queueInLoop(f)

\* These leave the rest alone, and none of them is a quit().
LEMMA LoopAloneRuns == LoopAlone => LoopRuns /\ UNCHANGED threadVars
  BY Zenon DEF LoopAlone, enterLoop, loopStep, becomesReadable, wakeup, queueInLoop,
     LoopRuns, threadVars

\* What the other steps do to the EventLoop: nothing, a wakeup() or a quit().
LEMMA LoopTouched ==
  ASSUME [Next]_vars
  PROVE  LoopRuns \/ Loop!quit(Owner) \/ UNCHANGED loopVars
  BY Zenon DEF Next, vars, OwnerStep, WorkerStep, start, spuriousWakeup, destruct,
     queueInLoop, semWaited, testLoop, wakeup, quit, quitWakes, join, members,
     threadDestroyed, post, construct, publish, enterLoop, leave, unlock,
     returnFromThreadFunc, loopStep, becomesReadable, LoopRuns

\* Up to the destructor's quit() nobody ends the loop.
BeforeQuit ==
  owner \in {"constructed", "starting", "locking", "waiting", "started", "quitting"}

\* What makes the invariants inductive, the types among them.  The loop cannot have
\* returned before the destructor's quit(), hence an owner that has seen m_loop
\* finds the thread in loop() as long as it uses the pointer; the destructor then
\* sees m_loop too, and does not get to the members without having joined.
LifeInv ==
  /\ owner = "constructed" <=> worker = "none"
  /\ BeforeQuit => /\ ~m_quit /\ pc # "exited"
                   /\ worker \notin {"unlocking", "returning", "ended"}
  /\ owner \in {"started", "quitting"} => worker = "loop"
  /\ owner \in {"members", "destroyed"} => worker = "ended"
  /\ mutex = "destroyed" => owner \in {"members", "destroyed"}

------------------------------------------------------------------------------
(***************************************************************************)
(* Types.                                                                  *)
(***************************************************************************)

\* The callbacks that are left when the innermost one has returned.
LEMMA FrontType ==
  ASSUME NEW S, NEW s \in Seq(S), s # <<>>
  PROVE  Loop!Front(s) \in Seq(S)
<1>1. Len(s) \in Nat /\ Len(s) > 0 /\ \A i \in 1..Len(s) : s[i] \in S
  BY EmptySeq, LenProperties
<1>2. PICK n \in Nat : Len(s) = n + 1
  BY <1>1
<1>3. \A i \in 1..n : s[i] \in S
  BY <1>1, <1>2
<1> QED
  BY <1>2, <1>3, SubSeqProperties DEF Loop!Front

\* The steps of the EventLoop keep its types.
LEMMA LoopTypeStep ==
  ASSUME Loop!TypeOK, LoopRuns \/ Loop!quit(Owner) \/ UNCHANGED loopVars
  PROVE  Loop!TypeOK'
<1> USE DEF Loop!TypeOK, Loop!Phases, Loop!Outside
<1>1. CASE Loop!loop
  BY <1>1 DEF Loop!loop
<1>2. CASE Loop!LoopStep
  <2>1. CASE Loop!whileNotQuit
    BY <2>1 DEF Loop!whileNotQuit
  <2>2. CASE Loop!poll
    BY <2>2 DEF Loop!poll, Loop!Ready
  <2>3. CASE Loop!handleRead
    BY <2>3 DEF Loop!handleRead
  <2>4. ASSUME NEW c \in Channels, Loop!handleEvent(c) PROVE Loop!TypeOK'
    BY <2>4 DEF Loop!handleEvent
  <2>5. CASE Loop!doPendingFunctors
    BY <2>5 DEF Loop!doPendingFunctors
  <2>6. CASE Loop!runFunctor
    BY <2>6 DEF Loop!runFunctor
  <2>7. CASE Loop!functorsDone
    BY <2>7 DEF Loop!functorsDone
  <2> QED
    BY <1>2, <2>1, <2>2, <2>3, <2>4, <2>5, <2>6, <2>7 DEF Loop!LoopStep
<1>3. CASE Loop!pollTimeout
  BY <1>3 DEF Loop!pollTimeout
<1>4. CASE Loop!returns
  BY <1>4, FrontType DEF Loop!returns
<1>5. ASSUME NEW f \in Functors, Loop!queueInLoop_own(f) PROVE Loop!TypeOK'
  BY <1>5 DEF Loop!queueInLoop_own, Loop!loopVars, Loop!needsWakeup
<1>6. ASSUME NEW f \in Functors, Loop!queueInLoop(Owner, f) PROVE Loop!TypeOK'
  BY <1>6 DEF Loop!queueInLoop, Loop!loopVars
<1>7. CASE Loop!wakeup(Owner)
  BY <1>7 DEF Loop!wakeup, Loop!loopVars
<1>8. ASSUME NEW c \in Channels, Loop!becomesReadable(c) PROVE Loop!TypeOK'
  BY <1>8 DEF Loop!becomesReadable, Loop!loopVars
<1>9. CASE Loop!quit(Owner)
  BY <1>9 DEF Loop!quit, Loop!loopVars
<1>10. CASE UNCHANGED loopVars
  BY <1>10 DEF loopVars
<1> QED
  BY <1>1, <1>2, <1>3, <1>4, <1>5, <1>6, <1>7, <1>8, <1>9, <1>10 DEF LoopRuns

\* Nothing is started, m_loop is null, the mutex is free.
LEMMA TypeInit == Init => TypeOK
  BY EmptySeq DEF Init, TypeOK, OwnerPhases, WorkerPhases, Loop!Init, Loop!TypeOK,
     Loop!Phases, Loop!Outside

\* Each step keeps the types.  m_loop is set and reset together with the thread's
\* entry to the part of threadFunc that runs the loop, and its exit.
LEMMA TypeStep == TypeOK /\ LifeInv /\ [Next]_vars => TypeOK'
<1> SUFFICES ASSUME TypeOK, LifeInv, [Next]_vars PROVE TypeOK'
  OBVIOUS
<1>1. Loop!TypeOK'
  BY LoopTouched, LoopTypeStep DEF TypeOK
<1>2. /\ owner' \in OwnerPhases /\ worker' \in WorkerPhases
      /\ mutex' \in {"free", "held", "destroyed"}
      /\ (m_loop <=> worker = "loop")'
  <2> USE DEF TypeOK, OwnerPhases, WorkerPhases
  <2>1. CASE LoopAlone
    BY <2>1, LoopAloneRuns DEF threadVars
  <2>2. CASE start
    BY <2>2 DEF start, LifeInv
  <2>3. CASE spuriousWakeup \/ semWaited
    BY <2>3 DEF spuriousWakeup, semWaited
  <2>4. CASE testLoop
    BY <2>4 DEF testLoop
  <2>5. CASE destruct
    BY <2>5 DEF destruct
  <2>6. CASE quit
    BY <2>6 DEF quit
  <2>7. CASE quitWakes \/ join \/ members \/ threadDestroyed
    BY <2>7 DEF quitWakes, join, members, threadDestroyed
  <2>8. CASE post \/ construct \/ publish \/ leave \/ unlock \/ returnFromThreadFunc
    BY <2>8 DEF post, construct, publish, leave, unlock, returnFromThreadFunc
  <2>9. CASE UNCHANGED vars
    BY <2>9 DEF vars
  <2> QED
    BY <2>1, <2>2, <2>3, <2>4, <2>5, <2>6, <2>7, <2>8, <2>9
       DEF Next, OwnerStep, WorkerStep, LoopAlone
<1> QED
  BY <1>1, <1>2 DEF TypeOK

------------------------------------------------------------------------------
(***************************************************************************)
(* The life of the loop and of the mutex.                                  *)
(***************************************************************************)

\* Nothing is started.
LEMMA LifeInit == Init => LifeInv
  BY DEF Init, LifeInv, BeforeQuit, Loop!Init

\* Without a quit() the loop neither leaves nor is asked to.
LEMMA LoopGoesOn ==
  ASSUME LoopRuns, ~m_quit, pc # "exited"
  PROVE  ~m_quit' /\ pc' # "exited"
<1>1. CASE Loop!loop
  BY <1>1 DEF Loop!loop
<1>2. CASE Loop!LoopStep
  <2>1. CASE Loop!whileNotQuit \/ Loop!poll \/ Loop!handleRead
    BY <2>1 DEF Loop!whileNotQuit, Loop!poll, Loop!handleRead
  <2>2. ASSUME NEW c \in Channels, Loop!handleEvent(c)
        PROVE  ~m_quit' /\ pc' # "exited"
    BY <2>2 DEF Loop!handleEvent
  <2>3. CASE Loop!doPendingFunctors \/ Loop!runFunctor \/ Loop!functorsDone
    BY <2>3 DEF Loop!doPendingFunctors, Loop!runFunctor, Loop!functorsDone
  <2> QED
    BY <1>2, <2>1, <2>2, <2>3 DEF Loop!LoopStep
<1>3. CASE Loop!pollTimeout \/ Loop!returns
  BY <1>3 DEF Loop!pollTimeout, Loop!returns
<1>4. CASE \/ \E f \in Functors : Loop!queueInLoop_own(f) \/ Loop!queueInLoop(Owner, f)
           \/ Loop!wakeup(Owner)
           \/ \E c \in Channels : Loop!becomesReadable(c)
  BY <1>4 DEF Loop!queueInLoop_own, Loop!queueInLoop, Loop!wakeup,
     Loop!becomesReadable, Loop!loopVars
<1> QED
  BY <1>1, <1>2, <1>3, <1>4 DEF LoopRuns

\* Each step keeps LifeInv.
LEMMA LifeStep == TypeOK /\ LifeInv /\ [Next]_vars => LifeInv'
<1> SUFFICES ASSUME TypeOK, LifeInv, [Next]_vars PROVE LifeInv'
  OBVIOUS
<1> USE DEF LifeInv, BeforeQuit
<1>1. CASE LoopAlone
  BY <1>1, LoopAloneRuns, LoopGoesOn DEF threadVars
<1>2. CASE start
  BY <1>2 DEF start, loopVars, TypeOK
<1>3. CASE semWaited \/ spuriousWakeup
  BY <1>3 DEF semWaited, spuriousWakeup, loopVars
\* m_loop is seen set: the thread is in loop().
<1>4. CASE testLoop
  BY <1>4 DEF testLoop, loopVars, TypeOK
\* m_loop is still set when the destructor looks.
<1>5. CASE destruct
  BY <1>5 DEF destruct, loopVars, TypeOK
<1>6. CASE quit \/ quitWakes
  BY <1>6 DEF quit, quitWakes
<1>7. CASE join \/ members \/ threadDestroyed
  BY <1>7 DEF join, members, threadDestroyed
<1>8. CASE post \/ construct \/ publish
  BY <1>8 DEF post, construct, publish, loopVars
\* The loop has returned: the destructor has called quit().
<1>9. CASE leave
  BY <1>9 DEF leave, loopVars
<1>10. CASE unlock \/ returnFromThreadFunc
  BY <1>10 DEF unlock, returnFromThreadFunc, loopVars
<1>11. CASE UNCHANGED vars
  BY <1>11 DEF vars, loopVars
<1> QED
  BY <1>1, <1>2, <1>3, <1>4, <1>5, <1>6, <1>7, <1>8, <1>9, <1>10, <1>11
     DEF Next, OwnerStep, WorkerStep, LoopAlone

\* The loop, the thread and the mutex live as the owner's phase says.
LEMMA LifeCorrect == SafeSpec => [](TypeOK /\ LifeInv)
  BY TypeInit, TypeStep, LifeInit, LifeStep, PTL DEF SafeSpec

\* Type correctness: in particular m_loop is not null exactly while threadFunc is
\* between its two locked sections.
THEOREM TypeCorrect == Spec => []TypeOK
  BY LifeCorrect, PTL DEF Spec

\* The pointer that startLoop() returned is never dangling before the destructor's
\* quit(), and quit() is called on a live loop.
THEOREM PointerIsGood == Spec => []StartedLoopLives
<1>1. LifeInv => StartedLoopLives
  BY DEF LifeInv, StartedLoopLives, LoopLives
<1> QED
  BY <1>1, LifeCorrect, PTL DEF Spec

\* m_mutex is destroyed only once the thread that locks it has ended: no interleaving
\* lets the destructor miss the loop and go on without the join.
THEOREM MutexIsSafe == Spec => []MutexOutlivesThread
<1>1. LifeInv => MutexOutlivesThread
  BY DEF LifeInv, MutexOutlivesThread
<1> QED
  BY <1>1, LifeCorrect, PTL DEF Spec

==============================================================================
