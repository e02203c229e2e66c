# A TLA+ model of muduo_modernCpp

This directory models the network library in `src/` (muduo rewritten in C++17):
event loops, the epoll poller and its channels, TCP connections, loop threads
and byte buffers. TLC checks the models on small instances and TLAPS checks
proofs that hold for every size. `PROJECT.json` maps each definition to its lines
in the source, lists the runs, the findings and the hazards.

## 1. The system

| Component | State | Operations |
|---|---|---|
| `EventLoop` | `m_looping`, `m_quit`, `m_pendingFunctors` under `m_mutex`, `m_callingPendingFunctors`, the eventfd | `loop`, `quit`, `runInLoop`, `queueInLoop`, `wakeup`, `handleRead`, `doPendingFunctors` |
| `EPollPoller`, `Poller` | `m_channels` (fd to channel), the epoll set, the event list | `poll`, `updateChannel`, `removeChannel`, `hasChannel` |
| `Channel` | `m_events`, `m_revents`, `m_channelStatus`, `m_tie` | `enableReading` ... `disableAll`, `remove`, `handleEvent` |
| `TcpConnection` | `m_state` (atomic), input and output buffer, channel, socket | `send`, `shutdown`, `connectEstablished`, `connectDestroyed`, the four handlers |
| `TcpServer`, `Acceptor` | `m_connections`, `m_started`, `m_nextConnId`, the listening channel | `start`, `listen`, `handleRead`, `newConnection`, `removeConnection`, destructor |
| `EventLoopThread`, `Thread` | `m_loop` under `m_mutex`, `m_cond`, the thread and its flags | `startLoop`, `threadFunc`, destructor |
| `EventLoopThreadPool` | `m_loops`, `m_next` | `start`, `getNextLoop`, `getAllLoops` |
| `Buffer` | the vector, `m_readerIndex`, `m_writerIndex` | `append`, `retrieve`, `readFd`, `writeFd` |
| `Socket`, `InetAddress`, `Timestamp`, `Logger` | a descriptor, an address, a time, a level | one system call or a conversion each |

How they interact. Each loop has one thread, one poller and its channels. The
poller calls back through channels; a connection's channel calls the
connection's handlers; these call user callbacks. Other threads reach a loop only
through `queueInLoop` (a locked vector and an eventfd) and `quit`. The server's
base loop accepts, gives each connection to one of the pool's loops and keeps it
in `m_connections`. Closing crosses loops twice: `handleClose` in the
connection's loop, `removeConnectionInLoop` in the base loop, `connectDestroyed`
in the connection's loop again. Lifetimes follow `TcpConnectionPtr`; channels
and loops are passed as raw pointers.

What is hard, and what makes each component correct:

- EventLoop. A callback queued, or a `quit()` issued, between the loop's last look
  and `epoll_wait` must end the wait; callbacks run in order, once each, and do not
  starve I/O.
- Poller and channels. Through every order of enable, disable, remove and reuse of a
  descriptor number the kernel watches what the channels ask for and the map holds
  nothing stale; no channel that is gone is called.
- TcpConnection. Bytes keep their order across the direct write and the buffer; a
  message is taken on once at most, and messages of one thread do not overtake each
  other; the peer reads no stream with a gap; the interest in writability follows the
  buffer; a half-close waits for the buffer and for what was sent before it; the close
  is announced once and loses nothing that was received; the
  channel is out of the poller when the object goes. User threads test `m_state`
  before they act on it.
- EventLoopThread. The pointer `startLoop` returns is good; start and destruction
  complete; nobody touches the loop or the mutex when they are gone.
- Buffer. It is a queue of bytes whatever the indices do, and does not grow
  without need.
- TcpServer, pool, Acceptor. Whoever calls `start()`, nothing is accepted before the
  pool is complete; connections are spread evenly; each is in the map under its own
  name until it has closed, and is given back only after `connectDestroyed`; a client
  that found no descriptor free is accepted later; the end of the server leaves
  nothing behind.

## 2. Modules

| Module | Models | Role |
|---|---|---|
| `TaskQueue` | | abstract: what a loop promises to those who queue callbacks |
| `EventLoop` | `EventLoop.cpp` | one loop, its thread, the other threads |
| `EventLoopProofs` | | theorems about `EventLoop` |
| `EPollPoller` | `EPollPoller.cpp`, `Channel.h`, `Poller.cpp` | poller, channels, kernel's epoll set |
| `EPollPollerProofs` | | theorems about `EPollPoller` |
| `TcpConnection` | `TcpConnection.cpp`, `Channel::handleEvent`, `TcpServer::removeConnection` | one connection, its loop, the base loop, user threads, the peer |
| `TcpConnectionProofs` | | theorems about `TcpConnection`: buffer, close, lifetime |
| `TcpMessageProofs` | | theorems about `TcpConnection`: its messages |
| `EventLoopThread` | `EventLoopThread.cpp`, `Thread.cpp` | owner and thread around an instance of `EventLoop` |
| `EventLoopThreadProofs` | | theorems about `EventLoopThread` |
| `ConnectionTable` | | abstract: what a server promises of its connections; implemented by `TcpServer`, and for one connection by `TcpConnection` |
| `TcpServer` | `TcpServer.cpp`, `Acceptor.cpp`, `EventLoopThreadPool.cpp` | starters, base loop, pool, clients, the end of the server |
| `TcpServerProofs` | | theorems about `TcpServer` |
| `RoundRobinProofs` | | the theorem about `TcpServer`'s round robin |
| `ByteQueue` | | abstract: what a buffer promises |
| `Buffer` | `Buffer.h`, `Buffer.cpp` | the vector and its indices |
| `BufferProofs` | | theorems about `Buffer` |
| `MC*` | | the instances for TLC |

Variables and actions bear the names of the source. `x_own` is a call in the
loop's own thread where the code branches on `isInLoopThread()`; a suffix such as
`send_queue` names a later part of a function that another thread can interrupt.
Definitions under the comment "Seeded fault" are variants with a plausible bug.
They are used by no specification; they show that a property depends on the code
it is about. `PROJECT.json` pairs each with the property it breaks.

`TcpServer` numbers the loops: 0 is the base loop, i the loop of the pool's i-th
thread. It has one action for each callback that crosses loops (`listen`,
`connectEstablished`, `removalRuns` for `removeConnectionInLoop`, `connectDestroyed`),
and keeps a batch's callbacks until the whole batch has run, since the vector
`functors` owns their pointers until then: `Queued` is what a loop points to,
`Waiting` what it has still to run. A connection is destroyed, and its descriptor
closed, when neither the map nor a queue points to it (`Freed`). The end of the
server is cut as its members go: the map, the threads one by one, the acceptor.

Grain. A step is the code between two points where another thread can see or
change something: a locked section, an atomic access, a system call. In
`TcpConnection` a handler is one step, since `m_state` and the queues are all it
shares and no handler reads `m_state` twice; the user threads' `send` and
`shutdown` are cut between their test and what follows. Reading
`m_callingPendingFunctors` needs no step of its own: only the loop's thread gets
to it.

Data. A message is two bytes with the message's name, so the stream is compared
byte by byte; a write may take none, one or both. What arrives is counted in
chunks. `Buffer` has real bytes. The kernel, the peer and the user's callbacks
are modelled from how `src/` uses them, and marked external in the map.

How they fit. `TcpConnection` uses its loop as a first-in first-out queue with
batches, which is what `EventLoop` is proved to implement. `EPollPoller` assumes
that owners remove channels before they free them (`RemovesFirst`), which
`TcpConnection` shows as `FreedIsRemoved`, for connections whose state no `shutdown` of
another thread overwrites. `EventLoopThread` contains the whole of
`EventLoop`. `TcpConnection`'s output buffer is the queue that `Buffer` is checked
to implement. `TcpServer` takes its loops as `EventLoop` is proved to be (callbacks in
order, in batches, none lost), its threads as `EventLoopThread` shows them (a loop is
published before it is used; the join waits for its end) and a connection as
`TcpConnection` shows it: both implement `ConnectionTable`, `TcpServer` with one step
for each callback that crosses loops (`IsConnectionTable`), `TcpConnection` with its
handlers, queues and references (`IsTableConnection`, proved as `ServesTable`).

## 3. Runs

Runs that pass:

| Run | Instance | What it shows |
|---|---|---|
| `loop_run` | 2 threads, 3 callbacks, 1 channel | no lost wakeup, no `quit` slept through; the loop is a `TaskQueue`: order, and every callback runs; I/O is not starved, `quit` of a running loop ends it |
| `poller_safety` | 3 channels, 2 of them on one descriptor | the kernel watches what the channels ask for; `epoll_ctl` never fails; no stale entry in the map; active channels exist |
| `tcp_run` | the loop's callbacks and a user thread, both send and shut down; 2 messages, mark at 3 bytes | stream, order, each message taken on once, no gap; interest; a half-close waits for the buffer; the stages of `ConnectionTable`, read to the end, removed before freed; written, shut down and freed in the end |
| `thread_lifecycle` | 2 callbacks, 1 channel | `startLoop` returns a live loop; start and destruction complete |
| `server_run` | 0 to 2 pool threads, 3 clients, 2 descriptors, `start()` from 2 threads | accepts from a full pool only; spread; the map; removed before freed; every client accepted; the destructor ends; `ConnectionTable` |
| `buffer_queue` | vector of 5, 2 of them prepended, block of 2 | the buffer is a `ByteQueue`; growth |

Runs that TLC refutes, each the statement of a comment in the source (the findings
of `PROJECT.json` quote them):

| Run | The code |
|---|---|
| `tcp_gives_up_writing` | `shutdown` overwrites `Disconnected`; a queued `send` then writes |
| `tcp_shutdown_graceful` | `handleWrite` half-closes before the loop gets to what was sent before the `shutdown` |
| `tcp_functor_of_freed` | `send`'s functor holds a bare `this` and outlives the connection |
| `thread_early_quit` | `loop()` clears a `quit()` that came first; the destructor's join hangs |
| `thread_wakes_dead_loop` | `quit()` wakes a loop that has left and is destroyed |
| `server_end` | `~TcpServer` frees connections that running loops still watch |

The race of `tcp_gives_up_writing` has further consequences: the send may put the
channel back into the poller after `connectDestroyed`, so that the connection is freed
while it is watched; a hang-up then announces the close a second time.
`IsTableConnection` allows the step that stores `Disconnecting` over `Disconnected`
(`overwritten`), after which the connection has no stage of the table, and
`FreedIsRemoved` speaks of connections that went through the stages: without these
exceptions TLC finds both violated in `tcp_run`. No other step leads out of the table,
and the liveness properties hold in spite of the race. `GracefulShutdown` is about what
is queued; for what is buffered `BufferedBeforeFin` holds.

`MapIsNotStale` goes one way. A channel that is disabled and enabled again is watched
but not put back into `m_channels` (`EPollPoller.cpp:95-105`), so that `hasChannel` would
deny it; nothing in `src/` asks.

As for other uses of the library, `ActiveAreThere` fails in
`EPollPoller` when `RemoveInCallback` is TRUE: a callback that removes another channel
leaves it in the list of active ones; `NoLostWakeup` fails in `EventLoop` when
`QueueOutsideLoop` is TRUE: `queueInLoop` does not wake the loop for a callback that
its own thread queues before `loop()`; and `disableAll` of a channel that was never
added registers it with no interest, so that the kernel may report a hang-up of a
channel that asked for nothing.

Constants that select a use of the library (`QueueOutsideLoop`, `RemoveInCallback`,
`RemovesFirst`, `ShutdownOutside`, `OwnerWaits`, `EndsIdle`) have the value of ordinary
use in `loop_run`, `poller_safety`, `thread_lifecycle` and `server_run`. `thread_early_quit`
and `server_end` show the other value. `ShutdownOutside` is TRUE, the wider one, in all
runs of `TcpConnection` but `tcp_functor_of_freed`, which needs no `shutdown`. No run
sets `QueueOutsideLoop` or `RemoveInCallback` to TRUE, or `RemovesFirst` to FALSE: the library itself always removes a channel before it goes
(`TcpConnection` shows this as `FreedIsRemoved`) and, in a connection of its own, from a
pending functor. Whether a connection lives in the base loop or in a pool thread is no
constant: `TcpConnection` chooses it in `Init` (`sharedLoop`), and `TcpServer` by the
size of the pool. With `EndsIdle` the server is destroyed only when it has no
connection and has carried out what it was told to start. The library does not tell a
program when that is so: the callback that announces a close comes before
`removeConnection`, and counting its calls is not enough. A program can bring it about:
in the callback of each connection that closes it queues a callback at the connection's
loop, which queues one at the base loop, where it comes behind the removal; when these
have come for all connections, all are removed.

Bounds, and why they are enough. Two other threads of a loop are the fewest that
interleave with each other and with the loop. A connection has two senders, the
callbacks of its loop and a user thread, each of which can overtake the other between
a test of `m_state` and what follows; the theorems are about any number of user
threads, and two of them, in safety alone, give the same results. Three
callbacks allow one running, one in the batch and one behind it. A callback is
queued at most once at a time, which bounds the queue. Callbacks nest to
`MaxDepth` 2. Runs that check liveness use no symmetry; the others of
`TcpConnection` permute users and messages. Three channels on two descriptors give
a reuse beside a bystander; the event list starts at 1 so that it grows. Two messages
of two bytes allow a partial write with another message behind; a mark of three bytes is crossed by the
second. `MaxIncoming` 1 tells data from the end of the stream. In `Buffer`,
`MaxLen` 3 exceeds the block on the stack and the space left, and `MaxReadable` 5
fills the initial vector, so that every branch of `makeSpace` and `readFd` is
taken. In `TcpServer` the third client finds both descriptors taken, two pool threads
make the round robin come round, two starters race for `m_started` (one of them the
base loop's thread, for which `runInLoop` runs in place), and `IdRange` 3 is the
fewest names for three connections. With `IdRange` 2 TLC finds `StoresAll` and
`FreedIsRemoved` violated: after 2^32 connections a name in use is given again.

Fairness. A thread that can go on does so; calls in progress and user callbacks
finish. `EventLoop`: weak fairness of the loop's own steps and of `wakeup`, strong
fairness of a callback's return (it may run others in place meanwhile), none for
the 10 s timeout, so nothing is shown by waiting for it. `TcpConnection`: the loops
run, `epoll_wait` reports a channel that is ready again and again (for writability
this means a peer that goes on reading), and users drop their pointer in the end.
`EventLoopThread`: both threads are scheduled; the owner need not destroy.
`TcpServer`: threads are scheduled, a poll reports what is ready, a thread in `start()`
goes on, the main thread goes on when `loop()` has returned, clients leave in the end;
nobody has to come, to call `start()` or to quit. `MCTcpServer*.cfg` and
`MCEventLoopThread*.cfg` switch deadlock checking off because the system ends when
the object is destroyed.

`TcpConnection` assumes that SIGPIPE is ignored. Nothing in `src/` does that, but
`sendInLoop` handles EPIPE.

## 4. Proofs

All proofs are checked by TLAPS for every value of the constants that satisfies
the named assumption of the module (`LoopAssumption`, `PollerAssumption`,
`ConnectionAssumption`, `BufferAssumption`, `ServerAssumption`). Every invariant that
a passing run checks is stated by a theorem.

`EventLoopProofs`. `TypeCorrect`: `TypeOK` is inductive; it ties the flag
`m_callingPendingFunctors` to the phase. `NoWakeupIsLost` (if the loop's thread does
not queue outside `loop()`) and `QuitIsNotSleptThrough`: neither is inductive, since
`NoLostWakeup` speaks of the poll alone; `Announced` says the same of every phase
from which the poll is reached without another swap of the queue. It is kept by
`handleRead`, which empties the eventfd, because that happens in the phase before
the swap. `WakeupsLostOutside` says what is left without the assumption: the one step
that breaks `Announced` is a `queueInLoop` of the loop's own thread outside `loop()`
on an empty queue (TLC finds this step, section 3), and a swap restores it; so a
callback that another thread queues is never slept over, and one of the loop's own in
the first round only. `QueueIsServedInOrder`: every step of the loop is a step or a stutter of
`TaskQueue` with the queue `functors \o m_pendingFunctors`; the lemmas on sequences
show that the swap leaves it unchanged.

`EPollPollerProofs`, assuming `RemovesFirst`. `TypeCorrect` is a part of the rest:
`PollerInv` conjoins the types, one live channel per descriptor,
`KernelWatchesInterest`, `NoCtlError` and `MapIsNotStale`; each needs the others. `ctl` calls succeed because the kernel's
entry follows the status, and the status follows the kernel because calls succeed.
`KernelAgrees`, `CtlNeverFails`, `MapNeverStale` follow. `ActiveChannelsStay` adds
`~RemoveInCallback` and the phase in which channels are removed.

`TcpConnectionProofs`, with no assumption on how the library is used unless one is
named. Invariants, one for each group of hazards:

- `StreamInv` (`WritingCorrect`, `BufferWritten`, and the half of `StreamIntact`
  that is about bytes; from any thread). `WritingIffBuffered` and `BufferedBeforeFin`
  are not inductive: both look at `m_state`, which other threads write at any time.
  `WritingTellsBuffered` says of every state before the close is announced that
  interest in writability and a non-empty output buffer are the same thing. This is
  what makes `sendInLoop`'s test for a direct write and `shutdownInLoop`'s test of
  `isWriting` right.
- `DroppedForGood` (`NoGap`). A message is dropped only on an error that stays, since
  the write end stays closed and a reset is not taken back; neither `handleWrite` nor
  another `sendInLoop` gets past it.
- `LifeInv` (`ReadsToTheEnd`). Inside one `handleEvent`,
  what is left to do is known: a hang-up is dispatched only when there is nothing to
  read, and since callbacks are dispatched from one report and each once, it stays so.
  Until `connectEstablished` has run nothing else can happen to the connection; from
  then until its close it is watched, interested in input, and in the server's map.
- `OnceInv` (`FreedRemoved`, `GivesUp`, `ServesTable`): a connection that has closed is
  out of the poller, has nothing left in this `handleEvent` that would close it again,
  and stays `Disconnected` (`Down`), until a `shutdown()` of another thread overwrites
  the state, after which it never comes back to the table (`Disturbed`). `GivesUp` adds
  `~ShutdownOutside` and says the reverse of the run `tcp_gives_up_writing`: that race
  is the only way in which the comment at `TcpConnection.cpp:84` fails.

The lifetime has two theorems more, for any use of the library. While a user callback
runs, a guard of `handleEvent` or a functor of the batch holds the connection
(`CallbackHolds`), so the callback finds it (`CallbacksSafe`). Nobody makes a reference
but from a reference, so a connection that has been freed is not handed out again
(`FreedOnce`); `ServesTable` needs this for its last stage. The run
`tcp_functor_of_freed` does not contradict it: the functor of `send` it is about holds
no reference.

`TcpMessageProofs`, for any use of the library. A message is with nobody (`unsent`),
with a thread that is about to queue it (`InHand`), in the queue or the batch (`Line`),
and in the end taken on (`TakenOn`) or dropped on an error (`lost`). `MessageInv` says
that these places are apart, and that a message is at most once in each. One lemma,
`MessageStep`, goes through the actions and leaves five kinds of steps
(`MessageMoves`); the rest looks at those only. `StreamIntact` follows: the functor of
a `send` takes its message on once, and never one that was dropped. So do `OrderKept`
(`MessagesKeepOrder`: a message never overtakes one that was queued or taken on before
it) and `QueuedBehind`, whose property is stated in this module and checked by no run: a
thread queues its message behind everything queued so far. Together: what one thread
sends goes out in the order of its calls, although messages of the loop's own callbacks
are written in between.

`BufferProofs`. `TypeCorrect`: the indices stay in order; with `BufferIsByteQueue`, the
refinement of `ByteQueue`. The lemmas describe `std::copy`, `resize` and a slice by
their elements, then `ensureWriteableBytes` (the unread bytes stay and there is
room, in both branches of `makeSpace`) and `append` as functions of a vector and two
indices, so that `readFd` can use them from the state after it has moved
`m_writerIndex`. `TypeOK` is inductive and is all the refinement needs.
`GrowsForWantOfSpace`: of the three outcomes of `ensureWriteableBytes` only `grown`
lengthens the vector, and its test counts the bytes that are then unread, in `readFd`
too, where the vector is full by then.

`EventLoopThreadProofs`, for a loop that only its owner quits, as in the model, and
with or without `OwnerWaits`. `LifeInv` says that nobody asks the loop to leave before
the destructor's `quit()`. Hence an owner that has seen `m_loop` set finds the thread
in `loop()` until then (`PointerIsGood`), the destructor sees `m_loop` set too, although
it looks without the lock, and never skips the join (`MutexIsSafe`). The types need
`LifeInv` as well: `m_loop` is tied to the thread's phase.

`TcpServerProofs`. `TypeCorrect` and `FullPool` hold without further assumptions. Both
rest on `StartInv`: one caller at a time is past `m_started.exchange`, the threads are
started one after the other, and the server is told to listen by the caller that
leaves the pool. The pool's size needs it, so `TypeOK` alone is not inductive. The
other theorems assume `EndsIdle` and `MaxConns <= IdRange` (no name comes round), and
follow from one inductive invariant, `ServerInv`. `QueueInv`: no callback is queued
twice, and only the base loop's callbacks point to the server. `ConnInv` gives, for each
phase, the callbacks that may mention a connection and the ones that must: a
connection that has closed is on its way through `remove` or `destroy` unless its loop
is gone. `NameInv`: names are the numbers of the connections. `MapInv`: what is served,
or waits for its removal, is in the map, and the server is alive. The lemmas on
`Rest` say what a step does to what is still to run; then there is one lemma per
action, each for all the parts. `MapStoresAll` and `RemovedBeforeFreed` follow from
single states. `ServesConnectionTable` shows for each step
the step of `ConnectionTable` it is: accepting, establishing and closing are one each,
and everything else gives back what has closed, or nothing.

`RoundRobinProofs`. `PoolBalanced`, for any number of pool threads and clients and with
none of the assumptions above. `Balanced` compares cardinalities and does not say whose
turn it is; `BalanceInv` does: once a client has come the pool is complete, and there is
a q such that the loops the cursor `m_next` has passed have q + 1 connections and the
others q. An accept adds one to the loop at the cursor and moves it, and where it
wraps, q + 1 takes the place of q.

Only model-checked: liveness, since TLAPS cannot handle fairness and `ENABLED`. These
are `IONotStarved` and `QuitEndsLoop`, `EventuallyWritten`, `EventuallyShutDown` and
`EventuallyFreed`, `StartReturns` and `DestructorReturns`, `EventuallyAccepted` and
`ServerEnds`, and the liveness halves of `ServesQueue` and `IsConnectionTable`, whose
safety halves are `QueueIsServedInOrder` and `ServesConnectionTable`
(`IsTableConnection` has no liveness half: `EventuallyFreed` says it of one
connection). The findings are
counterexamples of TLC's on small instances and need no proof.

## 5. Not modelled

In `TcpServer`: the user's thread-init callback; `start()` from a callback of the base
loop while it runs; an accept that fails for another reason than a lack of
descriptors, and the spinning of the loop meanwhile; a pool thread that is told to
quit before it is in `loop()`, which `thread_early_quit` shows to hang; a base loop that
is run again when the server is gone, where a `removeConnectionInLoop` left queued by a
server that did not end idle would find no server. User callbacks
and the bytes of a connection are in `TcpConnection` only. `Socket` (its close and
half-close are part of `EPollPoller` and `TcpConnection`), `InetAddress`, `Timestamp`,
`Logger`: system calls and formatting. `Poller::hasChannel`, a query nothing in `src/`
calls. `EPOLLPRI` is handled like `EPOLLIN`. Undefined behaviour after a use of a freed
object is not followed; the properties stop at the use.

## 6. What is left open

Two seams between modules are argued in words (section 2): that the queue
`TcpConnection` uses is `TaskQueue` (there a callback runs in one step, and the queue's
promise is about the batch), and that the acceptor's channel keeps `RemovesFirst`. For
the channel of a connection whose state was not overwritten it is the theorem
`FreedRemoved`.
