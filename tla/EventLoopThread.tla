--------------------------- MODULE EventLoopThread ---------------------------
(***************************************************************************)
(* An EventLoopThread (with its Thread): the owner, which constructs it,   *)
(* calls startLoop() and destroys it, and the new thread, which runs       *)
(* threadFunc() around an EventLoop on its own stack.  m_loop is guarded   *)
(* by m_mutex in startLoop and threadFunc but not in the destructor, and   *)
(* the EventLoop is gone once threadFunc has returned.                     *)
(*                                                                         *)
(* The loop is EventLoop itself, with the owner as its other thread.  Only *)
(* the owner quits it.                                                     *)
(* Locked sections that end in the step they begin in are one step.        *)
(***************************************************************************)
EXTENDS Naturals, Sequences

CONSTANTS
  Owner,            \* the owner's thread
  Functors, Channels, wakeupChannel, NoFunctor,  \* as in EventLoop
  OwnerWaits        \* does the owner destroy it only after loop() was entered?

VARIABLES
  pc, stack, m_activeChannels, readable, m_wakeupFd, m_pendingFunctors,
  functors, m_callingPendingFunctors, m_quit, tpc,   \* the loop's, see EventLoop
  owner,    \* where the owner is, see OwnerPhases
  worker,   \* where the thread is, see WorkerPhases
  m_loop,   \* is the pointer not null?
  mutex     \* m_mutex: "free", "held" (by the thread), or "destroyed"

loopVars == <<pc, stack, m_activeChannels, readable, m_wakeupFd, m_pendingFunctors,
              functors, m_callingPendingFunctors, m_quit, tpc>>
vars == <<loopVars, owner, worker, m_loop, mutex>>

Loop == INSTANCE EventLoop WITH
  Threads <- {Owner}, QueueOutsideLoop <- FALSE, MaxDepth <- 1

OwnerPhases ==
  {"constructed", "starting", "locking", "waiting", "started",   \* startLoop()
   "quitting", "waking", "joining", "members", "destroyed"}      \* the destructor
WorkerPhases ==
  {"none", "spawned", "posted", "callback", "loop", "unlocking", "returning", "ended"}

\* The EventLoop on threadFunc's stack exists.
LoopLives == worker \in {"callback", "loop", "unlocking", "returning"}

Init ==
  /\ Loop!Init
  /\ owner = "constructed" /\ worker = "none"
  /\ m_loop = FALSE /\ mutex = "free"

------------------------------------------------------------------------------
(***************************************************************************)
(* The owner.                                                              *)
(***************************************************************************)

\* Thread::start() creates the thread, and waits for its semaphore.
start ==
  /\ owner = "constructed"
  /\ owner' = "starting" /\ worker' = "spawned"
  /\ UNCHANGED <<loopVars, m_loop, mutex>>

semWaited ==
  /\ owner = "starting" /\ worker # "spawned"
  /\ owner' = "locking"
  /\ UNCHANGED <<loopVars, worker, m_loop, mutex>>

\* Seeded fault: the wait is not in a loop.
testLoop_once ==
  /\ owner = "locking" /\ mutex = "free"
  /\ owner' = "started"
  /\ UNCHANGED <<loopVars, worker, m_loop, mutex>>

\* while (m_loop == nullptr) m_cond.wait(lock): the test, under the lock.
testLoop ==
  /\ owner = "locking" /\ mutex = "free"
  /\ owner' = IF m_loop THEN "started" ELSE "waiting"
  /\ UNCHANGED <<loopVars, worker, m_loop, mutex>>

\* The wait ends without a notification.
spuriousWakeup ==
  /\ owner = "waiting"
  /\ owner' = "locking"
  /\ UNCHANGED <<loopVars, worker, m_loop, mutex>>

\* The owner hands the loop a callback.
queueInLoop(f) ==
  /\ owner = "started" /\ LoopLives
  /\ Loop!queueInLoop(Owner, f)
  /\ UNCHANGED <<owner, worker, m_loop, mutex>>

\* The wakeup() that ends queueInLoop.
wakeup ==
  /\ owner = "started" /\ LoopLives
  /\ Loop!wakeup(Owner)
  /\ UNCHANGED <<owner, worker, m_loop, mutex>>

\* The destructor finds m_loop, without the lock.
destruct ==
  /\ owner = "started" /\ tpc[Owner] = "idle"
  /\ OwnerWaits => pc # "created"
  /\ owner' = IF m_loop THEN "quitting" ELSE "members"
  /\ UNCHANGED <<loopVars, worker, m_loop, mutex>>

\* m_loop->quit() stores m_quit.
quit ==
  /\ owner = "quitting"
  /\ owner' = "waking"
  /\ IF LoopLives THEN Loop!quit(Owner) ELSE UNCHANGED loopVars
  /\ UNCHANGED <<worker, m_loop, mutex>>

\* Seeded fault: the loop is not woken up.
quitWakes_not ==
  /\ owner = "waking"
  /\ owner' = "joining"
  /\ UNCHANGED <<loopVars, worker, m_loop, mutex>>

\* quit() goes on to wakeup(); what that does to a loop that is gone is
\* undefined, here nothing.
quitWakes ==
  /\ owner = "waking"
  /\ owner' = "joining"
  /\ IF LoopLives /\ tpc[Owner] = "wakeup" THEN Loop!wakeup(Owner)
     ELSE UNCHANGED loopVars
  /\ UNCHANGED <<worker, m_loop, mutex>>

\* Seeded fault: the destructor does not wait for the thread.
join_not ==
  /\ owner = "joining"
  /\ owner' = "members"
  /\ UNCHANGED <<loopVars, worker, m_loop, mutex>>

\* m_thread.join().
join ==
  /\ owner = "joining" /\ worker = "ended"
  /\ owner' = "members"
  /\ UNCHANGED <<loopVars, worker, m_loop, mutex>>

\* m_callback, m_cond and m_mutex are destroyed, and m_thread after them, which
\* joins if nobody has.
members ==
  /\ owner = "members" /\ mutex # "destroyed"
  /\ mutex' = "destroyed"
  /\ UNCHANGED <<loopVars, owner, worker, m_loop>>

threadDestroyed ==
  /\ owner = "members" /\ mutex = "destroyed" /\ worker = "ended"
  /\ owner' = "destroyed"
  /\ UNCHANGED <<loopVars, worker, m_loop, mutex>>

------------------------------------------------------------------------------
(***************************************************************************)
(* The thread: threadFunc().                                               *)
(***************************************************************************)

\* Thread::start()'s lambda posts the semaphore and calls threadFunc.
post ==
  /\ worker = "spawned"
  /\ worker' = "posted"
  /\ UNCHANGED <<loopVars, owner, m_loop, mutex>>

\* The EventLoop is constructed, m_callback begins.
construct ==
  /\ worker = "posted"
  /\ worker' = "callback"
  /\ UNCHANGED <<loopVars, owner, m_loop, mutex>>

\* Seeded fault: nobody is notified.
publish_silent ==
  /\ worker = "callback" /\ mutex = "free"
  /\ worker' = "loop" /\ m_loop' = TRUE
  /\ UNCHANGED <<loopVars, owner, mutex>>

\* m_callback has returned: m_loop = &loop and notify_one, under the lock.
publish ==
  /\ worker = "callback" /\ mutex = "free"
  /\ worker' = "loop" /\ m_loop' = TRUE
  /\ owner' = IF owner = "waiting" THEN "locking" ELSE owner
  /\ UNCHANGED <<loopVars, mutex>>

\* loop.loop() is entered.
enterLoop ==
  /\ worker = "loop" /\ pc = "created"
  /\ Loop!loop
  /\ UNCHANGED <<owner, worker, m_loop, mutex>>

loopStep ==
  /\ worker = "loop" /\ pc \notin Loop!Outside
  /\ \/ Loop!LoopStep \/ Loop!pollTimeout \/ Loop!returns
     \/ \E f \in Functors : Loop!queueInLoop_own(f)
  /\ UNCHANGED <<owner, worker, m_loop, mutex>>

\* Seeded fault: m_loop is left pointing to the loop.
leave_keepsPointer ==
  /\ worker = "loop" /\ pc = "exited" /\ mutex = "free"
  /\ worker' = "unlocking" /\ mutex' = "held"
  /\ UNCHANGED <<loopVars, owner, m_loop>>

\* loop.loop() has returned: the lock is taken and m_loop reset.
leave ==
  /\ worker = "loop" /\ pc = "exited" /\ mutex = "free"
  /\ worker' = "unlocking" /\ m_loop' = FALSE /\ mutex' = "held"
  /\ UNCHANGED <<loopVars, owner>>

\* The end of threadFunc: the lock is released.
unlock ==
  /\ worker = "unlocking"
  /\ worker' = "returning"
  /\ mutex' = IF mutex = "held" THEN "free" ELSE mutex
  /\ UNCHANGED <<loopVars, owner, m_loop>>

\* The EventLoop on the stack is destroyed and the thread ends.
returnFromThreadFunc ==
  /\ worker = "returning"
  /\ worker' = "ended"
  /\ UNCHANGED <<loopVars, owner, m_loop, mutex>>

------------------------------------------------------------------------------
OwnerStep ==
  \/ semWaited \/ testLoop \/ wakeup \/ quit \/ quitWakes \/ join
  \/ members \/ threadDestroyed

WorkerStep ==
  \/ post \/ construct \/ publish \/ enterLoop
  \/ leave \/ unlock \/ returnFromThreadFunc

becomesReadable ==
  /\ LoopLives
  /\ \E c \in Channels : Loop!becomesReadable(c)
  /\ UNCHANGED <<owner, worker, m_loop, mutex>>

Next ==
  \/ start \/ spuriousWakeup \/ destruct
  \/ \E f \in Functors : queueInLoop(f)
  \/ OwnerStep
  \/ WorkerStep
  \/ loopStep
  \/ becomesReadable

(***************************************************************************)
(* Fairness.  Both threads are scheduled, and callbacks return.  Nothing   *)
(* is assumed of pollTimeout, nor does the owner have to destroy anything. *)
(***************************************************************************)
Fairness ==
  /\ WF_vars(OwnerStep)
  /\ WF_vars(WorkerStep)
  /\ WF_vars(loopStep /\ Loop!LoopStep)
  /\ WF_vars(loopStep /\ Loop!returns)

SafeSpec == Init /\ [][Next]_vars
Spec == SafeSpec /\ Fairness

------------------------------------------------------------------------------
(***************************************************************************)
(* Properties.                                                             *)
(***************************************************************************)

\* The types, and when m_loop is set.
TypeOK ==
  /\ Loop!TypeOK
  /\ owner \in OwnerPhases /\ worker \in WorkerPhases
  /\ mutex \in {"free", "held", "destroyed"}
  /\ m_loop <=> worker = "loop"

\* The pointer startLoop() returned (EventLoopThread.cpp:31-42) leads to a live
\* loop, and the destructor's m_loop does when quit() begins.
StartedLoopLives == owner \in {"started", "quitting"} => LoopLives

\* The thread is done with m_mutex when the mutex is destroyed.
MutexOutlivesThread == mutex = "destroyed" => worker = "ended"

\* startLoop() returns (EventLoopThread.h:40-47).
StartReturns == owner = "starting" ~> owner = "started"

\* EventLoopThread.h:36, "Joins the thread to ensure clean termination": a
\* destructor that has begun comes to its end.
DestructorReturns == owner = "quitting" ~> owner = "destroyed"

\* EventLoopThread.h:34, "ensures proper shutdown": the destructor's quit() has a
\* loop to wake up.
WakesLiveLoop == owner = "waking" => LoopLives

==============================================================================
