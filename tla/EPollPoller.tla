----------------------------- MODULE EPollPoller -----------------------------
(***************************************************************************)
(* The poller of one loop and its channels (EPollPoller, Poller, Channel): *)
(* three records of the same thing that have to agree, a channel's own     *)
(* m_events and m_channelStatus, the poller's map m_channels from file     *)
(* descriptors to channels, and the kernel's epoll set.                    *)
(*                                                                         *)
(* Channels come and go: a descriptor's number is used again once its      *)
(* owner has closed it (TcpConnection's Socket), and the owner may do that *)
(* in any thread.  Everything else happens in the loop's thread: before    *)
(* loop() and in pending functors ("functors"), or in a callback of        *)
(* handleEvent ("callback").                                               *)
(***************************************************************************)
EXTENDS Naturals, FiniteSets

CONSTANTS
  Channels,         \* the Channel objects, one after the other on a descriptor
  Fds,              \* the descriptor numbers
  FdOf,             \* m_fd of each channel
  NoChannel,        \* stands for "no entry"
  InitialSize,      \* kInitEventListSize
  RemoveInCallback, \* may a callback of handleEvent remove a channel?
  RemovesFirst      \* does every owner remove() its channel before it closes it?

ASSUME PollerAssumption ==
  /\ FdOf \in [Channels -> Fds]
  /\ NoChannel \notin Channels
  /\ InitialSize \in Nat \ {0}
  /\ RemoveInCallback \in BOOLEAN
  /\ RemovesFirst \in BOOLEAN

VARIABLES
  life,             \* per channel: "unborn", "live", or "dead" (closed and freed)
  m_events,         \* per channel: the events it is interested in
  m_channelStatus,  \* per channel: kStatusNew, kStatusAdded or kStatusDeleted
  m_channels,       \* the poller's map
  epoll,            \* the kernel's set: per descriptor, what is watched for whom
  ctlFailed,        \* has a call of epoll_ctl returned an error?
  listSize,         \* m_events.size() of the poller
  pc,               \* "functors", "poll", "events" or "callback"
  m_activeChannels, \* what the last poll reported
  pending,          \* those of them the loop has still to handle
  m_revents         \* per channel: the events reported and not handled yet

loopVars   == <<listSize, pc, m_activeChannels, pending, m_revents>>
pollerVars == <<m_channels, epoll, ctlFailed>>
vars == <<life, m_events, m_channelStatus, pollerVars, loopVars>>

\* kReadEvent and kWriteEvent; the kernel reports errors and hang-ups unasked.
Interests == {"IN", "OUT"}
Unasked   == {"ERR", "HUP"}
Statuses  == {"New", "Added", "Deleted"}

\* What the kernel keeps for a descriptor.
Watch(c, events) == [ptr |-> c, events |-> events]
NotWatched == Watch(NoChannel, {})

Init ==
  /\ life = [c \in Channels |-> "unborn"]
  /\ m_events = [c \in Channels |-> {}]
  /\ m_channelStatus = [c \in Channels |-> "New"]
  /\ m_channels = [fd \in Fds |-> NoChannel]
  /\ epoll = [fd \in Fds |-> NotWatched]
  /\ ctlFailed = FALSE
  /\ listSize = InitialSize
  /\ pc = "functors"
  /\ m_activeChannels = {}
  /\ pending = {}
  /\ m_revents = [c \in Channels |-> {}]

Live(c) == life[c] = "live"

\* A new Socket and its Channel; the kernel hands out a number that is free.
construct(c) ==
  /\ life[c] = "unborn"
  /\ \A d \in Channels : FdOf[d] = FdOf[c] => ~Live(d)
  /\ life' = [life EXCEPT ![c] = "live"]
  /\ UNCHANGED <<m_events, m_channelStatus, pollerVars, loopVars>>

\* The owner frees the channel and closes its socket; closing a descriptor takes
\* it out of the epoll set.
destruct(c) ==
  /\ Live(c)
  /\ RemovesFirst => m_channelStatus[c] = "New"
  /\ life' = [life EXCEPT ![c] = "dead"]
  /\ epoll' = [epoll EXCEPT ![FdOf[c]] = NotWatched]
  /\ UNCHANGED <<m_events, m_channelStatus, m_channels, ctlFailed, loopVars>>

------------------------------------------------------------------------------
(***************************************************************************)
(* update(operation, channel): one call of epoll_ctl.  Adding what is      *)
(* watched already, or changing or deleting what is not, is an error and   *)
(* changes nothing.                                                        *)
(***************************************************************************)

updateTo(fd, watch, allowed) ==
  /\ epoll' = IF allowed THEN [epoll EXCEPT ![fd] = watch] ELSE epoll
  /\ ctlFailed' = (ctlFailed \/ ~allowed)

EPOLL_CTL_ADD(c) ==
  updateTo(FdOf[c], Watch(c, m_events'[c]), epoll[FdOf[c]] = NotWatched)
\* Seeded fault: errors and hang-ups are asked for as well.
EPOLL_CTL_MOD_asksForErrors(c) ==
  updateTo(FdOf[c], Watch(c, m_events'[c] \cup Unasked), epoll[FdOf[c]] # NotWatched)
EPOLL_CTL_MOD(c) ==
  updateTo(FdOf[c], Watch(c, m_events'[c]), epoll[FdOf[c]] # NotWatched)
EPOLL_CTL_DEL(c) ==
  updateTo(FdOf[c], NotWatched, epoll[FdOf[c]] # NotWatched)

------------------------------------------------------------------------------
(***************************************************************************)
(* Channel: enableReading, disableReading, enableWriting, disableWriting   *)
(* and disableAll set m_events and call the poller's updateChannel.        *)
(***************************************************************************)

InLoopCode == pc \in {"functors", "callback"}

\* updateChannel on a channel the poller does not have yet, or not any more.
\* Only a new channel is entered in the map.
addChannel(c) ==
  /\ m_channelStatus[c] \in {"New", "Deleted"}
  /\ m_channels' = IF m_channelStatus[c] = "New"
                   THEN [m_channels EXCEPT ![FdOf[c]] = c] ELSE m_channels
  /\ m_channelStatus' = [m_channelStatus EXCEPT ![c] = "Added"]
  /\ EPOLL_CTL_ADD(c)

\* Seeded fault: the status is left alone.
disableChannel_keepsStatus(c) ==
  /\ m_channelStatus[c] = "Added" /\ m_events'[c] = {}
  /\ EPOLL_CTL_DEL(c)
  /\ m_channels' = [m_channels EXCEPT ![FdOf[c]] = NoChannel]
  /\ UNCHANGED m_channelStatus

\* updateChannel on an added channel that has lost its last interest.
disableChannel(c) ==
  /\ m_channelStatus[c] = "Added" /\ m_events'[c] = {}
  /\ EPOLL_CTL_DEL(c)
  /\ m_channelStatus' = [m_channelStatus EXCEPT ![c] = "Deleted"]
  /\ m_channels' = [m_channels EXCEPT ![FdOf[c]] = NoChannel]

\* Seeded fault: the kernel is not told of the change.
modifyChannel_silent(c) ==
  /\ m_channelStatus[c] = "Added" /\ m_events'[c] # {}
  /\ UNCHANGED <<m_channelStatus, pollerVars>>

\* updateChannel on an added channel that is still interested in something.
modifyChannel(c) ==
  /\ m_channelStatus[c] = "Added" /\ m_events'[c] # {}
  /\ EPOLL_CTL_MOD(c)
  /\ UNCHANGED <<m_channelStatus, m_channels>>

updateChannel(c) == addChannel(c) \/ disableChannel(c) \/ modifyChannel(c)

setEvents(c, events) ==
  /\ InLoopCode /\ Live(c)
  /\ m_events' = [m_events EXCEPT ![c] = events]
  /\ updateChannel(c)
  /\ UNCHANGED <<life, loopVars>>

enable(c, event)  == setEvents(c, m_events[c] \cup {event})
disable(c, event) == setEvents(c, m_events[c] \ {event})
disableAll(c)     == setEvents(c, {})

\* Seeded fault: remove() leaves the map alone.
removeChannel_keepsEntry(c) ==
  /\ IF m_channelStatus[c] = "Added" THEN EPOLL_CTL_DEL(c)
     ELSE UNCHANGED <<epoll, ctlFailed>>
  /\ m_channelStatus' = [m_channelStatus EXCEPT ![c] = "New"]
  /\ UNCHANGED m_channels

\* The poller forgets the channel, whatever its status.
removeChannel(c) ==
  /\ m_channels' = [m_channels EXCEPT ![FdOf[c]] = NoChannel]
  /\ IF m_channelStatus[c] = "Added" THEN EPOLL_CTL_DEL(c)
     ELSE UNCHANGED <<epoll, ctlFailed>>
  /\ m_channelStatus' = [m_channelStatus EXCEPT ![c] = "New"]

\* Channel::remove().
remove(c) ==
  /\ InLoopCode /\ Live(c)
  /\ pc = "callback" => RemoveInCallback
  /\ removeChannel(c)
  /\ UNCHANGED <<life, m_events, loopVars>>

------------------------------------------------------------------------------
(***************************************************************************)
(* The loop's round: poll, then one handleEvent per active channel.        *)
(***************************************************************************)

\* What epoll_wait may report: for each watched descriptor a set of events it
\* was asked for or reports unasked.
Reportable(fd) == (SUBSET (epoll[fd].events \cup Unasked)) \ {{}}
Watched == {fd \in Fds : epoll[fd] # NotWatched}

startPoll ==
  /\ pc = "functors"
  /\ pc' = "poll"
  /\ UNCHANGED <<life, m_events, m_channelStatus, pollerVars, listSize,
                 m_activeChannels, pending, m_revents>>

\* Seeded fault: the list of the last round is not cleared.
activeAfter_notCleared(found) == m_activeChannels \cup found

\* m_activeChannels.clear(), then fillActiveChannels.
activeAfter(found) == found

\* The list of events is doubled when it came back full.
sizeAfter(n) == IF n = listSize THEN listSize * 2 ELSE listSize

\* EPollPoller::poll with events; no more of them than the list has room for.
poll ==
  /\ pc = "poll"
  /\ \E fds \in (SUBSET Watched) \ {{}} :
     \E reported \in [fds -> SUBSET (Interests \cup Unasked)] :
       /\ Cardinality(fds) <= listSize
       /\ \A fd \in fds : reported[fd] \in Reportable(fd)
       /\ LET found == {epoll[fd].ptr : fd \in fds} IN
            /\ m_activeChannels' = activeAfter(found)
            /\ m_revents' = [c \in Channels |->
                 IF c \in found THEN reported[FdOf[c]] ELSE m_revents[c]]
       /\ listSize' = sizeAfter(Cardinality(fds))
  /\ pending' = m_activeChannels'
  /\ pc' = "events"
  /\ UNCHANGED <<life, m_events, m_channelStatus, pollerVars>>

\* EPollPoller::poll without events: a timeout, a signal or an error.
pollNothing ==
  /\ pc = "poll"
  /\ m_activeChannels' = activeAfter({})
  /\ pending' = m_activeChannels'
  /\ pc' = "events"
  /\ UNCHANGED <<life, m_events, m_channelStatus, pollerVars, listSize, m_revents>>

\* channel->handleEvent: the callbacks of one active channel begin.
handleEvent(c) ==
  /\ pc = "events" /\ c \in pending
  /\ pending' = pending \ {c}
  /\ m_revents' = [m_revents EXCEPT ![c] = {}]
  /\ pc' = "callback"
  /\ UNCHANGED <<life, m_events, m_channelStatus, pollerVars, listSize, m_activeChannels>>

handled ==
  /\ pc = "callback"
  /\ pc' = "events"
  /\ UNCHANGED <<life, m_events, m_channelStatus, pollerVars, listSize,
                 m_activeChannels, pending, m_revents>>

\* Every active channel is handled: on to the pending functors.
roundDone ==
  /\ pc = "events" /\ pending = {}
  /\ pc' = "functors"
  /\ UNCHANGED <<life, m_events, m_channelStatus, pollerVars, listSize,
                 m_activeChannels, pending, m_revents>>

ChannelStep(c) ==
  \/ construct(c)
  \/ destruct(c)
  \/ \E event \in Interests : enable(c, event) \/ disable(c, event)
  \/ disableAll(c)
  \/ remove(c)
  \/ handleEvent(c)

Next ==
  \/ \E c \in Channels : ChannelStep(c)
  \/ startPoll \/ poll \/ pollNothing \/ handled \/ roundDone

Spec == Init /\ [][Next]_vars

------------------------------------------------------------------------------
(***************************************************************************)
(* Properties.                                                             *)
(***************************************************************************)

\* The types.
TypeOK ==
  /\ life \in [Channels -> {"unborn", "live", "dead"}]
  /\ m_events \in [Channels -> SUBSET Interests]
  /\ m_channelStatus \in [Channels -> Statuses]
  /\ m_channels \in [Fds -> Channels \cup {NoChannel}]
  /\ epoll \in [Fds -> [ptr : Channels \cup {NoChannel}, events : SUBSET Interests]]
  /\ ctlFailed \in BOOLEAN
  /\ listSize \in Nat \ {0}
  /\ pc \in {"functors", "poll", "events", "callback"}
  /\ m_activeChannels \subseteq Channels
  /\ pending \subseteq m_activeChannels
  /\ m_revents \in [Channels -> SUBSET (Interests \cup Unasked)]

\* The kernel and the channel agree (updateChannel and removeChannel,
\* EPollPoller.cpp:90-135): a channel that was added and not removed is watched
\* for exactly its m_events, and nothing else is watched.
KernelWatchesInterest ==
  /\ \A c \in Channels : Live(c) /\ m_channelStatus[c] = "Added" =>
       epoll[FdOf[c]] = Watch(c, m_events[c])
  /\ \A c \in Channels : Live(c) /\ m_channelStatus[c] = "Deleted" =>
       m_events[c] = {}
  /\ \A fd \in Fds : epoll[fd] # NotWatched =>
       LET c == epoll[fd].ptr IN
         c \in Channels /\ Live(c) /\ FdOf[c] = fd /\ m_channelStatus[c] = "Added"

\* epoll_ctl never fails: an add or mod error would end the process (LOG_FATAL,
\* EPollPoller.cpp:48).
NoCtlError == ~ctlFailed

\* The map holds no channel that is gone or no longer added, so the next channel
\* with the same descriptor does not meet a stale entry (EPollPoller.cpp:97-103,
\* 113-124).
MapIsNotStale ==
  \A fd \in Fds : m_channels[fd] # NoChannel =>
    LET c == m_channels[fd] IN
      Live(c) /\ FdOf[c] = fd /\ m_channelStatus[c] = "Added"

\* No channel still to be handled in this round (EventLoop.cpp:82-86 goes
\* through raw pointers) has been removed or freed since the poll.
ActiveAreThere ==
  \A c \in pending : Live(c) /\ m_channelStatus[c] # "New"

==============================================================================
