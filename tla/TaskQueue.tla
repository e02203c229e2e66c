------------------------------ MODULE TaskQueue ------------------------------
(***************************************************************************)
(* What an EventLoop promises to the callers of queueInLoop (EventLoop.h   *)
(* 62-68): the callbacks handed to it are served first-in first-out, one   *)
(* at a time, each once per hand-over, and while somebody serves the queue *)
(* every one of them is served eventually.                                 *)
(***************************************************************************)
EXTENDS Sequences

CONSTANTS
  Tasks,   \* the callbacks
  NoTask   \* no callback is being served; not one of Tasks

VARIABLES
  queue,    \* the callbacks handed over and not started yet, oldest first
  running,  \* the callback being served, or NoTask
  serving   \* whether somebody serves the queue (the thread is inside loop())

vars == <<queue, running, serving>>

Init ==
  /\ queue = <<>>
  /\ running = NoTask
  /\ serving = FALSE

\* Hand a callback over, from any thread and at any time.
Post(f) ==
  /\ queue' = Append(queue, f)
  /\ UNCHANGED <<running, serving>>

\* Start the oldest callback.
Run ==
  /\ serving
  /\ running = NoTask
  /\ queue # <<>>
  /\ running' = Head(queue)
  /\ queue' = Tail(queue)
  /\ UNCHANGED serving

\* The callback returns.
Finish ==
  /\ running # NoTask
  /\ running' = NoTask
  /\ UNCHANGED <<queue, serving>>

\* The serving thread comes (loop() is called) or leaves (loop() returns);
\* it leaves only between two callbacks, and what it leaves stays queued.
Toggle ==
  /\ running = NoTask
  /\ serving' = ~serving
  /\ UNCHANGED <<queue, running>>

Next ==
  \/ \E f \in Tasks : Post(f)
  \/ Run
  \/ Finish
  \/ Toggle

\* The safety part: order and multiplicity.
SafeSpec == Init /\ [][Next]_vars

\* The promise: while the loop is served no callback waits forever.
Spec == SafeSpec /\ WF_vars(Run) /\ WF_vars(Finish)

==============================================================================
