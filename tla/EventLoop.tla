------------------------------ MODULE EventLoop ------------------------------
(***************************************************************************)
(* One EventLoop (EventLoop.h, EventLoop.cpp): the thread that runs        *)
(* loop(), and the other threads that hold a pointer to the loop and call  *)
(* queueInLoop, runInLoop and quit on it.  The loop thread polls, handles  *)
(* the active channels and runs the queued callbacks; the eventfd is what  *)
(* the other threads use to get it out of epoll_wait.                      *)
(*                                                                         *)
(* Grain: a thread's step is the code between two points where another     *)
(* thread can see or change something: the locked append to                *)
(* m_pendingFunctors, the write to the eventfd, the locked swap, the store *)
(* to m_quit, each callback.  m_callingPendingFunctors is read by the loop *)
(* thread alone (queueInLoop's other callers take the first disjunct), so  *)
(* its store is merged with the swap that follows it; m_looping is never   *)
(* read and equals pc \notin Outside.                                      *)
(***************************************************************************)
EXTENDS Naturals, SequencesExt

CONSTANTS
  Threads,          \* the threads other than the loop's that call into it
  Functors,         \* the callbacks handed to runInLoop and queueInLoop
  Channels,         \* the I/O channels registered with the loop's poller
  wakeupChannel,    \* m_wakeupChannel, the channel of the eventfd
  NoFunctor,        \* stands for "no callback"
  QueueOutsideLoop, \* does the loop's own thread call queueInLoop outside loop()?
  MaxDepth          \* bound on the nesting of callbacks run in place by runInLoop

ASSUME LoopAssumption ==
  /\ wakeupChannel \notin Channels
  /\ Functors \cap (Channels \cup {wakeupChannel, NoFunctor}) = {}
  /\ QueueOutsideLoop \in BOOLEAN
  /\ MaxDepth \in Nat \ {0}

VARIABLES
  pc,                       \* where the loop thread is, see Phases
  stack,                    \* the user callbacks it is inside of, outermost first
  m_activeChannels,         \* the channels of this round still to be handled
  readable,                 \* the I/O channels epoll_wait would report now
  m_wakeupFd,               \* is the eventfd's counter above 0?
  m_pendingFunctors,        \* the callbacks queued under m_mutex
  functors,                 \* what is left of doPendingFunctors' local vector
  m_callingPendingFunctors,
  m_quit,
  tpc                       \* per other thread: "idle", or in the call of wakeup()

loopVars == <<pc, stack, m_activeChannels, functors, m_callingPendingFunctors>>
vars == <<loopVars, readable, m_wakeupFd, m_pendingFunctors, m_quit, tpc>>

Outside == {"created", "exited"}   \* before and after loop()
Phases  == Outside \cup {"while", "poll", "events", "functors"}

Init ==
  /\ pc = "created"
  /\ stack = <<>>
  /\ m_activeChannels = {}
  /\ readable = {}
  /\ m_wakeupFd = FALSE
  /\ m_pendingFunctors = <<>>
  /\ functors = <<>>
  /\ m_callingPendingFunctors = FALSE
  /\ m_quit = FALSE
  /\ tpc = [t \in Threads |-> "idle"]

------------------------------------------------------------------------------
(***************************************************************************)
(* The loop thread: loop().                                                *)
(***************************************************************************)

\* loop() is entered: m_looping = true; m_quit = false.
loop ==
  /\ pc \in Outside /\ stack = <<>>
  /\ pc' = "while"
  /\ m_quit' = FALSE
  /\ UNCHANGED <<stack, m_activeChannels, functors, m_callingPendingFunctors,
                 readable, m_wakeupFd, m_pendingFunctors, tpc>>

\* Seeded fault: m_quit is cleared at the head of every round.
whileNotQuit_clearsQuit ==
  /\ pc = "while"
  /\ pc' = "poll"
  /\ m_quit' = FALSE
  /\ UNCHANGED <<stack, m_activeChannels, functors, m_callingPendingFunctors,
                 readable, m_wakeupFd, m_pendingFunctors, tpc>>

\* while(!m_quit): leave, or start a round.
whileNotQuit ==
  /\ pc = "while"
  /\ pc' = IF m_quit THEN "exited" ELSE "poll"
  /\ UNCHANGED <<stack, m_activeChannels, functors, m_callingPendingFunctors,
                 readable, m_wakeupFd, m_pendingFunctors, m_quit, tpc>>

Ready == readable \cup (IF m_wakeupFd THEN {wakeupChannel} ELSE {})

\* m_poller->poll returns the ready channels.
poll ==
  /\ pc = "poll"
  /\ Ready # {}
  /\ m_activeChannels' = Ready
  /\ pc' = "events"
  /\ UNCHANGED <<stack, functors, m_callingPendingFunctors, readable,
                 m_wakeupFd, m_pendingFunctors, m_quit, tpc>>

\* m_poller->poll returns after kPollTimeMs, or because of a signal (EINTR).
pollTimeout ==
  /\ pc = "poll"
  /\ Ready = {}
  /\ pc' = "events"
  /\ UNCHANGED <<stack, m_activeChannels, functors, m_callingPendingFunctors,
                 readable, m_wakeupFd, m_pendingFunctors, m_quit, tpc>>

\* channel->handleEvent for m_wakeupChannel: handleRead() empties the eventfd.
handleRead ==
  /\ pc = "events" /\ stack = <<>>
  /\ wakeupChannel \in m_activeChannels
  /\ m_activeChannels' = m_activeChannels \ {wakeupChannel}
  /\ m_wakeupFd' = FALSE
  /\ UNCHANGED <<pc, stack, functors, m_callingPendingFunctors, readable,
                 m_pendingFunctors, m_quit, tpc>>

\* channel->handleEvent for an I/O channel: its user callback begins, and
\* takes what made the channel ready.
handleEvent(c) ==
  /\ pc = "events" /\ stack = <<>>
  /\ c \in m_activeChannels
  /\ m_activeChannels' = m_activeChannels \ {c}
  /\ readable' = readable \ {c}
  /\ stack' = <<c>>
  /\ UNCHANGED <<pc, functors, m_callingPendingFunctors, m_wakeupFd,
                 m_pendingFunctors, m_quit, tpc>>

\* Seeded fault: the vector is copied and not swapped.
doPendingFunctors_copies ==
  /\ pc = "events" /\ stack = <<>>
  /\ m_activeChannels = {}
  /\ pc' = "functors"
  /\ m_callingPendingFunctors' = TRUE
  /\ functors' = m_pendingFunctors
  /\ UNCHANGED <<stack, m_activeChannels, readable, m_wakeupFd,
                 m_pendingFunctors, m_quit, tpc>>

\* doPendingFunctors() begins once every active channel is handled: the flag
\* is set, and the queue is taken as a whole under the lock.
doPendingFunctors ==
  /\ pc = "events" /\ stack = <<>>
  /\ m_activeChannels = {}
  /\ pc' = "functors"
  /\ m_callingPendingFunctors' = TRUE
  /\ functors' = m_pendingFunctors
  /\ m_pendingFunctors' = <<>>
  /\ UNCHANGED <<stack, m_activeChannels, readable, m_wakeupFd, m_quit, tpc>>

\* functor(): the next callback of the batch begins.
runFunctor ==
  /\ pc = "functors" /\ stack = <<>>
  /\ functors # <<>>
  /\ stack' = <<Head(functors)>>
  /\ functors' = Tail(functors)
  /\ UNCHANGED <<pc, m_activeChannels, m_callingPendingFunctors, readable,
                 m_wakeupFd, m_pendingFunctors, m_quit, tpc>>

\* Seeded fault: the flag is not reset.
functorsDone_keepsFlag ==
  /\ pc = "functors" /\ stack = <<>>
  /\ functors = <<>>
  /\ pc' = "while"
  /\ UNCHANGED <<stack, m_activeChannels, functors, m_callingPendingFunctors,
                 readable, m_wakeupFd, m_pendingFunctors, m_quit, tpc>>

\* Seeded fault: the queue is drained until it stays empty.
functorsDone_drains ==
  /\ pc = "functors" /\ stack = <<>>
  /\ functors = <<>>
  /\ pc' = IF m_pendingFunctors = <<>> THEN "while" ELSE "functors"
  /\ m_callingPendingFunctors' = (m_pendingFunctors # <<>>)
  /\ functors' = m_pendingFunctors
  /\ m_pendingFunctors' = <<>>
  /\ UNCHANGED <<stack, m_activeChannels, readable, m_wakeupFd, m_quit, tpc>>

\* doPendingFunctors() ends: back to the test of the while.
functorsDone ==
  /\ pc = "functors" /\ stack = <<>>
  /\ functors = <<>>
  /\ pc' = "while"
  /\ m_callingPendingFunctors' = FALSE
  /\ UNCHANGED <<stack, m_activeChannels, functors, readable, m_wakeupFd,
                 m_pendingFunctors, m_quit, tpc>>

------------------------------------------------------------------------------
(***************************************************************************)
(* User code in the loop's own thread (isInLoopThread() holds): inside a   *)
(* channel's or a functor's callback, or before and after loop().          *)
(***************************************************************************)

InUserCode == stack # <<>> \/ pc \in Outside

\* A functor object waits in at most one place at a time (the bound on the
\* queue's length; a callback may queue itself again while it runs).
Waiting(f) == f \in Range(m_pendingFunctors) \cup Range(functors)

\* Seeded fault: queueInLoop without "|| m_callingPendingFunctors".
needsWakeup_never == FALSE

\* The second disjunct of queueInLoop's test, the first being false here.
needsWakeup == m_callingPendingFunctors

queueInLoop_own(f) ==
  /\ InUserCode
  /\ pc \in Outside => QueueOutsideLoop
  /\ ~Waiting(f)
  /\ m_pendingFunctors' = Append(m_pendingFunctors, f)
  /\ m_wakeupFd' = (m_wakeupFd \/ needsWakeup)
  /\ UNCHANGED <<loopVars, readable, m_quit, tpc>>

\* runInLoop in the loop's own thread: inCallback() is run in place.
runInLoop_own(f) ==
  /\ InUserCode
  /\ Len(stack) < MaxDepth
  /\ stack' = Append(stack, f)
  /\ UNCHANGED <<pc, m_activeChannels, functors, m_callingPendingFunctors,
                 readable, m_wakeupFd, m_pendingFunctors, m_quit, tpc>>

\* The innermost callback returns.
returns ==
  /\ stack # <<>>
  /\ stack' = Front(stack)
  /\ UNCHANGED <<pc, m_activeChannels, functors, m_callingPendingFunctors,
                 readable, m_wakeupFd, m_pendingFunctors, m_quit, tpc>>

\* quit() in the loop's own thread: no wakeup is needed.
quit_own ==
  /\ InUserCode
  /\ m_quit' = TRUE
  /\ UNCHANGED <<loopVars, readable, m_wakeupFd, m_pendingFunctors, tpc>>

------------------------------------------------------------------------------
(***************************************************************************)
(* The other threads (isInLoopThread() does not hold).                     *)
(***************************************************************************)

\* queueInLoop up to the end of the locked block; runInLoop delegates to it.
queueInLoop(t, f) ==
  /\ tpc[t] = "idle"
  /\ ~Waiting(f)
  /\ m_pendingFunctors' = Append(m_pendingFunctors, f)
  /\ tpc' = [tpc EXCEPT ![t] = "wakeup"]
  /\ UNCHANGED <<loopVars, readable, m_wakeupFd, m_quit>>

\* Seeded fault: quit() does not wake the loop up.
quit_silent(t) ==
  /\ tpc[t] = "idle"
  /\ m_quit' = TRUE
  /\ UNCHANGED <<loopVars, readable, m_wakeupFd, m_pendingFunctors, tpc>>

\* quit(): m_quit is set, wakeup() follows.
quit(t) ==
  /\ tpc[t] = "idle"
  /\ m_quit' = TRUE
  /\ tpc' = [tpc EXCEPT ![t] = "wakeup"]
  /\ UNCHANGED <<loopVars, readable, m_wakeupFd, m_pendingFunctors>>

\* wakeup(): the write to the eventfd, the last step of queueInLoop and quit.
wakeup(t) ==
  /\ tpc[t] = "wakeup"
  /\ m_wakeupFd' = TRUE
  /\ tpc' = [tpc EXCEPT ![t] = "idle"]
  /\ UNCHANGED <<loopVars, readable, m_pendingFunctors, m_quit>>

\* The peer or the kernel makes an I/O channel ready.
becomesReadable(c) ==
  /\ c \notin readable
  /\ readable' = readable \cup {c}
  /\ UNCHANGED <<loopVars, m_wakeupFd, m_pendingFunctors, m_quit, tpc>>

------------------------------------------------------------------------------
\* What the loop thread does of its own accord once loop() was called.
LoopStep ==
  \/ whileNotQuit
  \/ poll
  \/ handleRead
  \/ \E c \in Channels : handleEvent(c)
  \/ doPendingFunctors
  \/ runFunctor
  \/ functorsDone

OwnCall ==
  \/ \E f \in Functors : queueInLoop_own(f) \/ runInLoop_own(f)
  \/ returns
  \/ quit_own

OtherThread(t) ==
  \/ \E f \in Functors : queueInLoop(t, f)
  \/ quit(t)
  \/ wakeup(t)

Next ==
  \/ loop
  \/ LoopStep
  \/ pollTimeout
  \/ OwnCall
  \/ \E t \in Threads : OtherThread(t)
  \/ \E c \in Channels : becomesReadable(c)

(***************************************************************************)
(* Fairness.  The loop thread is scheduled: it takes its own steps, and    *)
(* after finitely many set-up calls it enters loop() (as                   *)
(* EventLoopThread::threadFunc does after the init callback).  A thread    *)
(* inside queueInLoop or quit completes the call.  Every user callback     *)
(* terminates, whatever it runs in place meanwhile (strong fairness, per   *)
(* nesting depth).  Nothing is assumed of pollTimeout: what is shown does  *)
(* not wait for the 10 seconds of kPollTimeMs.                             *)
(***************************************************************************)
Fairness ==
  /\ SF_vars(pc = "created" /\ loop)
  /\ WF_vars(LoopStep)
  /\ \A t \in Threads : WF_vars(wakeup(t))
  /\ \A d \in 1..MaxDepth : SF_vars(Len(stack) = d /\ returns)

SafeSpec == Init /\ [][Next]_vars
Spec == SafeSpec /\ Fairness

------------------------------------------------------------------------------
(***************************************************************************)
(* Properties.                                                             *)
(***************************************************************************)

\* The types, and which of the loop thread's locals are in use in which phase:
\* m_callingPendingFunctors is raised exactly while doPendingFunctors runs.
TypeOK ==
  /\ pc \in Phases
  /\ stack \in Seq(Functors \cup Channels)
  /\ m_activeChannels \subseteq Channels \cup {wakeupChannel}
  /\ readable \subseteq Channels
  /\ m_wakeupFd \in BOOLEAN
  /\ m_pendingFunctors \in Seq(Functors)
  /\ functors \in Seq(Functors)
  /\ m_callingPendingFunctors \in BOOLEAN
  /\ m_callingPendingFunctors <=> pc = "functors"
  /\ m_quit \in BOOLEAN
  /\ tpc \in [Threads -> {"idle", "wakeup"}]
  /\ pc \in {"while", "poll"} => stack = <<>>
  /\ pc # "events" => m_activeChannels = {}
  /\ pc # "functors" => functors = <<>>

\* Somebody has written, or is about to write, the eventfd.
WakeupDue == m_wakeupFd \/ \E t \in Threads : tpc[t] = "wakeup"

\* No lost wakeup (queueInLoop, EventLoop.cpp:135-140): the loop never blocks in
\* epoll_wait over a queued callback unless the eventfd ends the wait.
NoLostWakeup ==
  pc = "poll" /\ m_pendingFunctors # <<>> => WakeupDue

\* quit() from another thread (EventLoop.cpp:105-114) is not slept through.
QuitWakesLoop ==
  pc = "poll" /\ m_quit => WakeupDue

\* The callback of the batch that is being run.
FunctorInService ==
  IF pc = "functors" /\ stack # <<>> THEN Head(stack) ELSE NoFunctor

Tasking == INSTANCE TaskQueue WITH
  Tasks   <- Functors,
  NoTask  <- NoFunctor,
  queue   <- functors \o m_pendingFunctors,
  running <- FunctorInService,
  serving <- pc \notin Outside

\* TaskQueue's promise (queueInLoop and doPendingFunctors, EventLoop.cpp:128-195):
\* callbacks run first-in first-out, one at a time, once per call, and each of them
\* is run eventually while loop() runs.
ServesQueue == Tasking!Spec

\* I/O is not starved by callbacks that keep queueing callbacks
\* (doPendingFunctors runs one batch, EventLoop.cpp:184-192).
IONotStarved ==
  \A c \in Channels : c \in readable ~> (c \notin readable \/ pc = "exited")

\* A quit() that finds the loop running ends it (EventLoop.h:43-45).
QuitEndsLoop ==
  (m_quit /\ pc \notin Outside) ~> pc = "exited"

==============================================================================
