-------------------------- MODULE EPollPollerProofs --------------------------
(***************************************************************************)
(* Proofs about EPollPoller, for every set of channels and descriptors and *)
(* every assignment of descriptors to channels.                            *)
(***************************************************************************)
EXTENDS EPollPoller, TLAPS

\* A descriptor has one live owner, and a channel is new until it is constructed.
OneOwner ==
  /\ \A c, d \in Channels : Live(c) /\ Live(d) /\ FdOf[c] = FdOf[d] => c = d
  /\ \A c \in Channels : life[c] = "unborn" => m_channelStatus[c] = "New"

\* The inductive invariant: why no epoll_ctl fails is that the kernel watches a
\* descriptor exactly when its one live owner has the status Added.
PollerInv ==
  /\ TypeOK
  /\ OneOwner
  /\ KernelWatchesInterest
  /\ NoCtlError
  /\ MapIsNotStale

\* At the start nothing is constructed and nothing watched.
LEMMA PollerInit == Init => PollerInv
<1> SUFFICES ASSUME Init PROVE PollerInv
  OBVIOUS
<1>1. TypeOK
  BY PollerAssumption DEF PollerAssumption, Init, TypeOK, NotWatched, Watch, Statuses
<1>2. OneOwner
  BY DEF Init, OneOwner, Live
<1>3. KernelWatchesInterest
  BY DEF Init, KernelWatchesInterest, Live
<1>4. MapIsNotStale
  BY DEF Init, MapIsNotStale
<1>5. NoCtlError
  BY DEF Init, NoCtlError
<1> QED
  BY <1>1, <1>2, <1>3, <1>4, <1>5 DEF PollerInv

\* A channel that is live and not added is not watched, nor is another one on
\* its descriptor.
LEMMA NotAddedIsNotWatched ==
  ASSUME PollerInv, NEW c \in Channels, Live(c), m_channelStatus[c] # "Added"
  PROVE  epoll[FdOf[c]] = NotWatched
<1> FdOf[c] \in Fds
  BY PollerAssumption DEF PollerAssumption
<1> QED
  BY DEF PollerInv, OneOwner, KernelWatchesInterest

\* A watch of a channel is not the empty watch.
LEMMA WatchIsNotEmpty ==
  ASSUME NEW c \in Channels, NEW E
  PROVE  Watch(c, E) # NotWatched
  BY PollerAssumption DEF PollerAssumption, Watch, NotWatched

\* A call of epoll_ctl that is allowed does what it is for.
LEMMA UpdateSucceeds ==
  ASSUME NEW fd, NEW watch, NEW allowed, allowed, NoCtlError,
         updateTo(fd, watch, allowed)
  PROVE  /\ epoll' = [epoll EXCEPT ![fd] = watch]
         /\ ctlFailed' \in BOOLEAN
         /\ ~ctlFailed'
  BY Zenon DEF updateTo, NoCtlError

\* Steps of the loop's round that touch no channel.
LEMMA RoundStep ==
  ASSUME PollerInv, TypeOK', UNCHANGED <<life, m_events, m_channelStatus, pollerVars>>
  PROVE  PollerInv'
  BY DEF PollerInv, OneOwner, KernelWatchesInterest, NoCtlError, MapIsNotStale,
     Live, pollerVars

\* A new channel is in nobody's records yet.
LEMMA ConstructStep ==
  ASSUME PollerInv, NEW c \in Channels, construct(c) PROVE PollerInv'
<1> USE PollerAssumption DEF PollerAssumption
<1>1. TypeOK'
  BY DEF construct, PollerInv, TypeOK, pollerVars, loopVars
<1>2. OneOwner'
  BY DEF construct, PollerInv, OneOwner, TypeOK, Live
<1>3. KernelWatchesInterest'
  BY DEF construct, PollerInv, OneOwner, KernelWatchesInterest, TypeOK, Live, pollerVars
<1>4. MapIsNotStale'
  BY DEF construct, PollerInv, MapIsNotStale, TypeOK, Live, pollerVars
<1>5. NoCtlError'
  BY DEF construct, PollerInv, NoCtlError, pollerVars
<1> QED
  BY <1>1, <1>2, <1>3, <1>4, <1>5 DEF PollerInv

\* Closing the descriptor of a removed channel changes nothing in the kernel.
LEMMA DestructStep ==
  ASSUME PollerInv, RemovesFirst, NEW c \in Channels, destruct(c) PROVE PollerInv'
<1> USE PollerAssumption DEF PollerAssumption
<1>1. epoll[FdOf[c]] = NotWatched
  BY NotAddedIsNotWatched DEF destruct
<1>2. epoll' = epoll
  BY <1>1 DEF destruct, PollerInv, TypeOK
<1>3. TypeOK'
  BY <1>2 DEF destruct, PollerInv, TypeOK, loopVars
<1>4. OneOwner'
  BY DEF destruct, PollerInv, OneOwner, TypeOK, Live
<1>5. KernelWatchesInterest'
  BY <1>2 DEF destruct, PollerInv, KernelWatchesInterest, TypeOK, Live
<1>6. MapIsNotStale'
  BY DEF destruct, PollerInv, MapIsNotStale, TypeOK, Live
<1>7. NoCtlError'
  BY DEF destruct, PollerInv, NoCtlError
<1> QED
  BY <1>3, <1>4, <1>5, <1>6, <1>7 DEF PollerInv

\* enableReading to disableAll: whatever the new interest, updateChannel makes
\* the one epoll_ctl call that fits the channel's status.
LEMMA SetEventsStep ==
  ASSUME PollerInv, NEW c \in Channels, NEW E \in SUBSET Interests, setEvents(c, E)
  PROVE  PollerInv'
<1> USE PollerAssumption DEF PollerAssumption
<1> DEFINE fd == FdOf[c]
<1>0. /\ Live(c) /\ fd \in Fds
      /\ m_events' = [m_events EXCEPT ![c] = E]
      /\ m_events'[c] = E
      /\ UNCHANGED <<life, loopVars>>
  BY DEF setEvents, PollerInv, TypeOK
<1>1. CASE addChannel(c)
  <2>1. epoll[fd] = NotWatched
    BY <1>0, <1>1, NotAddedIsNotWatched DEF addChannel
  <2>2. /\ epoll' = [epoll EXCEPT ![fd] = Watch(c, E)]
        /\ ctlFailed' \in BOOLEAN /\ ~ctlFailed'
        /\ m_channelStatus' = [m_channelStatus EXCEPT ![c] = "Added"]
        /\ m_channels' = m_channels \/ m_channels' = [m_channels EXCEPT ![fd] = c]
    BY <1>0, <1>1, <2>1, UpdateSucceeds DEF addChannel, EPOLL_CTL_ADD, PollerInv, NoCtlError
  <2>3. TypeOK'
    BY <1>0, <2>2 DEF PollerInv, TypeOK, loopVars, Watch, Statuses
  <2>4. OneOwner'
    BY <1>0, <2>2 DEF PollerInv, OneOwner, TypeOK, Live
  <2>5. KernelWatchesInterest'
    BY <1>0, <2>2 DEF PollerInv, OneOwner, KernelWatchesInterest, TypeOK, Live, Watch
  <2>6. MapIsNotStale'
    BY <1>0, <2>2 DEF PollerInv, MapIsNotStale, TypeOK, Live
  <2>7. NoCtlError'
    BY <2>2 DEF PollerInv, NoCtlError
  <2> QED
    BY <2>3, <2>4, <2>5, <2>6, <2>7 DEF PollerInv
<1>2. CASE disableChannel(c)
  <2>1. epoll[fd] # NotWatched
    BY <1>0, <1>2, WatchIsNotEmpty DEF disableChannel, PollerInv, KernelWatchesInterest
  <2>2. /\ epoll' = [epoll EXCEPT ![fd] = NotWatched]
        /\ ctlFailed' \in BOOLEAN /\ ~ctlFailed'
        /\ m_channelStatus' = [m_channelStatus EXCEPT ![c] = "Deleted"]
        /\ m_channels' = [m_channels EXCEPT ![fd] = NoChannel]
        /\ E = {}
    BY <1>0, <1>2, <2>1, UpdateSucceeds DEF disableChannel, EPOLL_CTL_DEL, PollerInv, NoCtlError
  <2>3. TypeOK'
    BY <1>0, <2>2 DEF PollerInv, TypeOK, loopVars, Watch, NotWatched, Statuses
  <2>4. OneOwner'
    BY <1>0, <2>2 DEF PollerInv, OneOwner, TypeOK, Live
  <2>5. KernelWatchesInterest'
    BY <1>0, <2>2 DEF PollerInv, OneOwner, KernelWatchesInterest, TypeOK, Live
  <2>6. MapIsNotStale'
    BY <1>0, <2>2 DEF PollerInv, MapIsNotStale, TypeOK, Live
  <2>7. NoCtlError'
    BY <2>2 DEF PollerInv, NoCtlError
  <2> QED
    BY <2>3, <2>4, <2>5, <2>6, <2>7 DEF PollerInv
<1>3. CASE modifyChannel(c)
  <2>1. epoll[fd] # NotWatched
    BY <1>0, <1>3, WatchIsNotEmpty DEF modifyChannel, PollerInv, KernelWatchesInterest
  <2>2. /\ epoll' = [epoll EXCEPT ![fd] = Watch(c, E)]
        /\ ctlFailed' \in BOOLEAN /\ ~ctlFailed'
        /\ UNCHANGED <<m_channelStatus, m_channels>>
        /\ m_channelStatus[c] = "Added"
    BY <1>0, <1>3, <2>1, UpdateSucceeds DEF modifyChannel, EPOLL_CTL_MOD, PollerInv, NoCtlError
  <2>3. TypeOK'
    BY <1>0, <2>2 DEF PollerInv, TypeOK, loopVars, Watch
  <2>4. OneOwner'
    BY <1>0, <2>2 DEF PollerInv, OneOwner, TypeOK, Live
  <2>5. KernelWatchesInterest'
    BY <1>0, <2>2 DEF PollerInv, OneOwner, KernelWatchesInterest, TypeOK, Live, Watch
  <2>6. MapIsNotStale'
    BY <1>0, <2>2 DEF PollerInv, MapIsNotStale, TypeOK, Live
  <2>7. NoCtlError'
    BY <2>2 DEF PollerInv, NoCtlError
  <2> QED
    BY <2>3, <2>4, <2>5, <2>6, <2>7 DEF PollerInv
<1> QED
  BY <1>1, <1>2, <1>3 DEF setEvents, updateChannel

\* remove() takes the channel out of the map and, if it is watched, the epoll set.
LEMMA RemoveStep ==
  ASSUME PollerInv, NEW c \in Channels, remove(c) PROVE PollerInv'
<1> USE PollerAssumption DEF PollerAssumption
<1> DEFINE fd == FdOf[c]
<1>0. /\ Live(c) /\ fd \in Fds
      /\ m_channels' = [m_channels EXCEPT ![fd] = NoChannel]
      /\ m_channelStatus' = [m_channelStatus EXCEPT ![c] = "New"]
      /\ UNCHANGED <<life, m_events, loopVars>>
  BY DEF remove, removeChannel
<1>1. epoll' = [epoll EXCEPT ![fd] = NotWatched] /\ ctlFailed' \in BOOLEAN /\ ~ctlFailed'
  <2>1. CASE m_channelStatus[c] = "Added"
    <3>1. epoll[fd] # NotWatched
      BY <1>0, <2>1, WatchIsNotEmpty DEF PollerInv, KernelWatchesInterest
    <3> QED
      BY <2>1, <3>1, UpdateSucceeds DEF remove, removeChannel, EPOLL_CTL_DEL, PollerInv, NoCtlError
  <2>2. CASE m_channelStatus[c] # "Added"
    <3>1. epoll[fd] = NotWatched
      BY <1>0, <2>2, NotAddedIsNotWatched
    <3> QED
      BY <2>2, <3>1 DEF remove, removeChannel, PollerInv, TypeOK, NoCtlError
  <2> QED
    BY <2>1, <2>2
<1>2. TypeOK'
  BY <1>0, <1>1 DEF PollerInv, TypeOK, loopVars, Watch, NotWatched, Statuses
<1>3. OneOwner'
  BY <1>0 DEF PollerInv, OneOwner, TypeOK, Live
<1>4. KernelWatchesInterest'
  BY <1>0, <1>1 DEF PollerInv, OneOwner, KernelWatchesInterest, TypeOK, Live
<1>5. MapIsNotStale'
  BY <1>0 DEF PollerInv, MapIsNotStale, TypeOK, Live
<1>6. NoCtlError'
  BY <1>1 DEF PollerInv, NoCtlError
<1> QED
  BY <1>2, <1>3, <1>4, <1>5, <1>6 DEF PollerInv

\* Polls and handleEvent: the lists keep their types.
LEMMA LoopStep ==
  ASSUME PollerInv,
         \/ startPoll \/ poll \/ pollNothing \/ handled \/ roundDone
         \/ \E c \in Channels : handleEvent(c)
  PROVE  PollerInv'
<1> USE PollerAssumption DEF PollerAssumption
<1>u. UNCHANGED <<life, m_events, m_channelStatus, pollerVars>>
  BY DEF startPoll, poll, pollNothing, handled, roundDone, handleEvent
<1> SUFFICES TypeOK'
  BY <1>u, RoundStep
<1>1. CASE startPoll
  BY <1>1 DEF startPoll, PollerInv, TypeOK, pollerVars
<1>2. CASE poll
  <2>1. PICK fds \in (SUBSET Watched) \ {{}} :
          \E reported \in [fds -> SUBSET (Interests \cup Unasked)] :
            LET found == {epoll[fd].ptr : fd \in fds} IN
              /\ m_activeChannels' = activeAfter(found)
              /\ m_revents' = [c \in Channels |->
                   IF c \in found THEN reported[FdOf[c]] ELSE m_revents[c]]
              /\ listSize' = sizeAfter(Cardinality(fds))
    BY <1>2 DEF poll
  <2>2. \A fd \in fds : epoll[fd].ptr \in Channels /\ FdOf[epoll[fd].ptr] = fd
    BY <2>1 DEF Watched, PollerInv, KernelWatchesInterest
  <2>3. m_activeChannels' \subseteq Channels
    BY <2>1, <2>2 DEF activeAfter
  <2>4. m_revents' \in [Channels -> SUBSET (Interests \cup Unasked)]
    BY <2>1, <2>2 DEF PollerInv, TypeOK
  <2>5. listSize' \in Nat \ {0}
    BY <2>1 DEF sizeAfter, PollerInv, TypeOK
  <2> QED
    BY <1>2, <2>3, <2>4, <2>5 DEF poll, PollerInv, TypeOK, pollerVars
<1>3. CASE pollNothing
  BY <1>3 DEF pollNothing, activeAfter, PollerInv, TypeOK, pollerVars
<1>4. CASE handled
  BY <1>4 DEF handled, PollerInv, TypeOK, pollerVars
<1>5. CASE roundDone
  BY <1>5 DEF roundDone, PollerInv, TypeOK, pollerVars
<1>6. ASSUME NEW c \in Channels, handleEvent(c) PROVE TypeOK'
  BY <1>6 DEF handleEvent, PollerInv, TypeOK, pollerVars
<1> QED
  BY <1>1, <1>2, <1>3, <1>4, <1>5, <1>6

\* Every step preserves the invariant.
LEMMA PollerStep == PollerInv /\ RemovesFirst /\ [Next]_vars => PollerInv'
<1> SUFFICES ASSUME PollerInv, RemovesFirst, [Next]_vars PROVE PollerInv'
  OBVIOUS
<1>1. ASSUME NEW c \in Channels, ChannelStep(c) PROVE PollerInv'
  <2>1. CASE \E event \in Interests : enable(c, event) \/ disable(c, event)
    <3>1. PICK event \in Interests : enable(c, event) \/ disable(c, event)
      BY <2>1
    <3>2. /\ m_events[c] \cup {event} \in SUBSET Interests
          /\ m_events[c] \ {event} \in SUBSET Interests
      BY DEF PollerInv, TypeOK
    <3> QED
      BY <3>1, <3>2, SetEventsStep DEF enable, disable
  <2>2. CASE disableAll(c)
    BY <2>2, SetEventsStep DEF disableAll
  <2> QED
    BY <1>1, <2>1, <2>2, ConstructStep, DestructStep, RemoveStep, LoopStep DEF ChannelStep
<1>2. CASE startPoll \/ poll \/ pollNothing \/ handled \/ roundDone
  BY <1>2, LoopStep
<1>3. CASE UNCHANGED vars
  BY <1>3, RoundStep DEF vars, loopVars, pollerVars, PollerInv, TypeOK
<1> QED
  BY <1>1, <1>2, <1>3 DEF Next

\* The poller's invariant, provided every owner removes its channel before it
\* closes the descriptor.
THEOREM PollerCorrect ==
  ASSUME RemovesFirst
  PROVE  Spec => []PollerInv
  BY PollerInit, PollerStep, PTL DEF Spec

\* The types, among them that reports and the list of active channels stay within
\* the channels there are.
THEOREM TypeCorrect ==
  ASSUME RemovesFirst
  PROVE  Spec => []TypeOK
<1>1. PollerInv => TypeOK
  BY DEF PollerInv
<1> QED
  BY <1>1, PollerCorrect, PTL

\* What the kernel watches is what the channels ask for, for any channels.
THEOREM KernelAgrees ==
  ASSUME RemovesFirst
  PROVE  Spec => []KernelWatchesInterest
<1>1. PollerInv => KernelWatchesInterest
  BY DEF PollerInv
<1> QED
  BY <1>1, PollerCorrect, PTL

\* No call of epoll_ctl fails, so the process is never ended by one.
THEOREM CtlNeverFails ==
  ASSUME RemovesFirst
  PROVE  Spec => []NoCtlError
<1>1. PollerInv => NoCtlError
  BY DEF PollerInv
<1> QED
  BY <1>1, PollerCorrect, PTL

\* The poller's map holds only channels that are there and added.
THEOREM MapNeverStale ==
  ASSUME RemovesFirst
  PROVE  Spec => []MapIsNotStale
<1>1. PollerInv => MapIsNotStale
  BY DEF PollerInv
<1> QED
  BY <1>1, PollerCorrect, PTL

------------------------------------------------------------------------------
(***************************************************************************)
(* The list of active channels.                                            *)
(***************************************************************************)

\* Between two rounds nothing is left to be handled; within a round every
\* channel that is left is live and was not removed.
ActiveInv ==
  /\ pc \in {"functors", "poll"} => pending = {}
  /\ ActiveAreThere

\* A channel whose status is not New is neither removed nor freed within a round.
LEMMA ActiveStep ==
  ASSUME RemovesFirst, ~RemoveInCallback
  PROVE  PollerInv /\ ActiveInv /\ [Next]_vars => ActiveInv'
<1> SUFFICES ASSUME PollerInv, ActiveInv, [Next]_vars PROVE ActiveInv'
  OBVIOUS
<1> USE DEF ActiveInv, ActiveAreThere, Live
<1>0. TypeOK
  BY DEF PollerInv
<1>1. ASSUME NEW c \in Channels, construct(c) PROVE ActiveInv'
  BY <1>0, <1>1 DEF construct, TypeOK, pollerVars, loopVars
<1>2. ASSUME NEW c \in Channels, destruct(c) PROVE ActiveInv'
  BY <1>0, <1>2 DEF destruct, TypeOK, loopVars
<1>3. ASSUME NEW c \in Channels, NEW E, setEvents(c, E) PROVE ActiveInv'
  <2>1. /\ UNCHANGED <<life, pc, pending>>
        /\ \/ UNCHANGED m_channelStatus
           \/ m_channelStatus' = [m_channelStatus EXCEPT ![c] = "Added"]
           \/ m_channelStatus' = [m_channelStatus EXCEPT ![c] = "Deleted"]
    BY <1>3 DEF setEvents, updateChannel, addChannel, disableChannel, modifyChannel, loopVars
  <2> QED
    BY <1>0, <2>1 DEF TypeOK
<1>4. ASSUME NEW c \in Channels, remove(c) PROVE ActiveInv'
  BY <1>4 DEF remove, InLoopCode, loopVars
<1>5. ASSUME NEW c \in Channels, handleEvent(c) PROVE ActiveInv'
  BY <1>5 DEF handleEvent
<1>6. CASE startPoll
  BY <1>6 DEF startPoll
<1>7. CASE poll
  <2>1. \A fd \in Watched : Live(epoll[fd].ptr) /\ m_channelStatus[epoll[fd].ptr] = "Added"
    BY DEF Watched, PollerInv, KernelWatchesInterest
  <2>2. \A c \in pending' : \E fd \in Watched : c = epoll[fd].ptr
    BY <1>7 DEF poll, activeAfter
  <2> QED
    BY <1>7, <2>1, <2>2 DEF poll
<1>8. CASE pollNothing
  BY <1>8 DEF pollNothing, activeAfter
<1>9. CASE handled
  BY <1>9 DEF handled
<1>10. CASE roundDone
  BY <1>10 DEF roundDone
<1>11. CASE UNCHANGED vars
  BY <1>11 DEF vars, loopVars
<1> QED
  BY <1>1, <1>2, <1>3, <1>4, <1>5, <1>6, <1>7, <1>8, <1>9, <1>10, <1>11
     DEF Next, ChannelStep, enable, disable, disableAll

\* The loop never calls handleEvent on a channel that was removed or freed after
\* the poll, provided channels are removed in pending functors (as
\* connectDestroyed is) and before they are closed.
THEOREM ActiveChannelsStay ==
  ASSUME RemovesFirst, ~RemoveInCallback
  PROVE  Spec => []ActiveAreThere
<1>1. Init => ActiveInv
  BY DEF Init, ActiveInv, ActiveAreThere
<1>2. ActiveInv => ActiveAreThere
  BY DEF ActiveInv
<1> QED
  BY <1>1, <1>2, PollerCorrect, ActiveStep, PTL DEF Spec

==============================================================================
