---------------------------- MODULE WsHubProofs ----------------------------
(***************************************************************************)
(* Proofs about WsHub, for any number of clients and any capacities.       *)
(***************************************************************************)
EXTENDS WsHub, TLAPS

\* The hub only offers an event to registered clients, and between two events
\* it owes nothing to anybody.
FanOutInv ==
    /\ todo \subseteq clients
    /\ hub = "select" => todo = {}

HubInv == TypeOK /\ RegistryFollowsReaders /\ FanOutInv

\* Before the first connection there is nothing to forget.
LEMMA HubInit == Init => HubInv
  BY CapAssumption, NoClientAssumption
     DEF Init, HubInv, TypeOK, RegistryFollowsReaders, FanOutInv

\* The steps that touch neither the registry nor a ReadPump: what they leave
\* unchanged decides everything but the types.
LEMMA RegistryKept ==
    ASSUME HubInv, UNCHANGED <<clients, reader, closed>>
    PROVE  RegistryFollowsReaders'
  BY DEF HubInv, RegistryFollowsReaders

\* Each step of a goroutine keeps the registry exact.
LEMMA HubStep == HubInv /\ [Next]_vars => HubInv'
<1> SUFFICES ASSUME HubInv, [Next]_vars
             PROVE  HubInv'
    OBVIOUS
<1> USE CapAssumption, NoClientAssumption DEF HubInv
<1>1. CASE BridgeReceives
    BY <1>1, RegistryKept
       DEF BridgeReceives, hubVars, clientVars, TypeOK, FanOutInv
<1>2. CASE Broadcast
    BY <1>2, RegistryKept DEF Broadcast, clientVars, TypeOK, FanOutInv
<1>3. CASE TakeEvent
    BY <1>3, RegistryKept DEF TakeEvent, clientVars, TypeOK, FanOutInv
<1>4. CASE FanOutDone
    BY <1>4, RegistryKept DEF FanOutDone, clientVars, TypeOK, FanOutInv
<1>5. ASSUME NEW c \in Clients, Skip(c)
      PROVE  HubInv'
    BY <1>5, RegistryKept DEF Skip, clientVars, TypeOK, FanOutInv
<1>6. ASSUME NEW c \in Clients, Offer(c)
      PROVE  HubInv'
  <2>1. TypeOK'
      BY <1>6 DEF Offer, TypeOK
  <2> QED
      BY <1>6, <2>1, RegistryKept DEF Offer, FanOutInv
<1>7. ASSUME NEW c \in Clients, Drop(c)
      PROVE  HubInv'
    BY <1>7, RegistryKept DEF Drop, clientVars, TypeOK, FanOutInv
<1>8. ASSUME NEW c \in Clients, Connect(c)
      PROVE  HubInv'
    BY <1>8 DEF Connect, Moves, hubVars, TypeOK, RegistryFollowsReaders, FanOutInv
<1>9. ASSUME NEW c \in Clients, Register(c)
      PROVE  HubInv'
    BY <1>9 DEF Register, Moves, TypeOK, RegistryFollowsReaders, FanOutInv
<1>10. ASSUME NEW c \in Clients, StartPumps(c)
       PROVE  HubInv'
    BY <1>10 DEF StartPumps, Moves, hubVars, TypeOK, RegistryFollowsReaders, FanOutInv
<1>11. ASSUME NEW c \in Clients, Unregister(c)
       PROVE  HubInv'
  <2>1. TypeOK'
      BY <1>11 DEF Unregister, Moves, TypeOK
  <2>2. RegistryFollowsReaders'
      BY <1>11 DEF Unregister, Moves, TypeOK, RegistryFollowsReaders
  <2>3. FanOutInv'
      BY <1>11 DEF Unregister, FanOutInv
  <2> QED
      BY <2>1, <2>2, <2>3
<1>12. ASSUME NEW c \in Clients, ReadPing(c)
       PROVE  HubInv'
    BY <1>12, RegistryKept DEF ReadPing, hubVars, TypeOK, FanOutInv
<1>13. ASSUME NEW c \in Clients, ReadFails(c)
       PROVE  HubInv'
    BY <1>13 DEF ReadFails, Moves, hubVars, TypeOK, RegistryFollowsReaders, FanOutInv
<1>14. ASSUME NEW c \in Clients, WriterTakes(c)
       PROVE  HubInv'
    BY <1>14, RegistryKept DEF WriterTakes, Moves, hubVars, TypeOK, FanOutInv
<1>15. ASSUME NEW c \in Clients, WriteReturns(c) \/ PingTick(c)
       PROVE  HubInv'
    BY <1>15, RegistryKept DEF WriteReturns, PingTick, Moves, hubVars, TypeOK, FanOutInv
<1>16. ASSUME NEW c \in Clients, WriterLeaves(c)
       PROVE  HubInv'
    BY <1>16, RegistryKept DEF WriterLeaves, Moves, hubVars, TypeOK, FanOutInv
<1>17. CASE UNCHANGED vars
    BY <1>17, RegistryKept DEF vars, hubVars, clientVars, TypeOK, FanOutInv
<1> QED
    BY <1>1, <1>2, <1>3, <1>4, <1>5, <1>6, <1>7, <1>8, <1>9, <1>10, <1>11, <1>12,
       <1>13, <1>14, <1>15, <1>16, <1>17
       DEF Next, FanOut, Write

\* Hence every reachable state satisfies the invariant.
LEMMA HubInvariant == Spec => []HubInv
  BY HubInit, HubStep, PTL DEF Spec

\* Type correctness of the hub's model: in particular no channel ever holds
\* more than its capacity or less than nothing.
THEOREM HubTypeCorrect == Spec => []TypeOK
<1>1. HubInv => TypeOK
    BY DEF HubInv
<1> QED
    BY <1>1, HubInvariant, PTL

\* The registry of hub.go follows the connections, whatever the interleaving
\* of handlers, pumps and hub.
THEOREM RegistryIsExact == Spec => []RegistryFollowsReaders
<1>1. HubInv => RegistryFollowsReaders
    BY DEF HubInv
<1> QED
    BY <1>1, HubInvariant, PTL

\* No goroutine of hub.go panics on a closed channel: the only two senders are
\* the fan-out, which offers to registered clients, and ReadPump, which is gone
\* when the channel is closed.
THEOREM NoSendPanics == Spec => []NoSendOnClosed
<1>1. HubInv => NoSendOnClosed
    BY DEF HubInv, TypeOK, RegistryFollowsReaders, FanOutInv, NoSendOnClosed, MaySendTo
<1> QED
    BY <1>1, HubInvariant, PTL

============================================================================
