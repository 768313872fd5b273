------------------------- MODULE IwpDelivery_proofs -------------------------
(***************************************************************************)
(* Proofs about IwpDelivery, for every number of messages and fragments    *)
(* and all timer values that satisfy TimersAssumption and                  *)
(* ReplayAssumption.                                                       *)
(***************************************************************************)
EXTENDS IwpDelivery, TLAPS

\* Nothing exists of a message that was not handed to SendMessageBuffer yet,
\* and nothing that exists is older than its SendMessageBuffer call.
Started ==
    /\ m_TXMsgs \subseteq 0 .. (m_TXID - 1)
    /\ \A m \in MsgIDs :
          IF m < m_TXID
          THEN startedAt[m] <= now
          ELSE xmit[m] = Never /\ m \notin m_RXMsgs /\ delivered[m] = 0

\* No end misses a tick, and a tick at which a message stays pending came
\* within the message's DeliveryTimeout.
TicksInTime ==
    /\ \A e \in Ends : lastTick[e] <= now
    /\ \A e \in Ends : m_State[e] # "Erased" => now <= lastTick[e] + TickInterval
    /\ \A m \in m_TXMsgs : /\ m_State["tx"] # "Erased"
                           /\ lastTick["tx"] <= startedAt[m] + DeliveryTimeout

\* The sender announces a message only while it is pending.
XmitInTime ==
    \A m \in MsgIDs :
       xmit[m] # Never =>
          xmit[m] <= startedAt[m] + DeliveryTimeout + TickInterval

\* A delivered message is not pending, and its rxid is filtered until no XMIT
\* of it can be under way.
FilteredOnce ==
    \A m \in MsgIDs :
       delivered[m] # 0 =>
          /\ delivered[m] = 1
          /\ m \notin m_RXMsgs
          /\ IF m_ReplayFilter[m] = Never
             THEN startedAt[m] + ReplayWindow <= now
             ELSE startedAt[m] <= m_ReplayFilter[m]

\* A pending inbound message lacks a fragment, was active since it was sent,
\* and an erased one leaves no bitmask behind.
PartlyReceived ==
    \A m \in MsgIDs :
       IF m \in m_RXMsgs
       THEN rxAcks[m] # Frags /\ startedAt[m] <= lastActive[m]
       ELSE rxAcks[m] = {}

\* The full bitmask is sent for delivered messages only.
FullAckMeansDelivered ==
    \A m \in MsgIDs : acks[m][Frags] # Never => delivered[m] # 0

IInv ==
    /\ TypeOK /\ Started /\ TicksInTime /\ XmitInTime /\ FilteredOnce
    /\ PartlyReceived /\ FullAckMeansDelivered /\ SuccessMeansDelivered

-----------------------------------------------------------------------------
\* There is at least one fragment, so the empty bitmask is never the full one.
LEMMA FragsNonEmpty == Frags # {} /\ Frags \in SUBSET Frags
  BY BoundsAssumption DEF Frags

\* The initial state satisfies the inductive invariant.
LEMMA InitIInv == Init => IInv
<1> SUFFICES ASSUME Init PROVE IInv
  OBVIOUS
<1> USE BoundsAssumption, TimersAssumption DEF Init
<1>1. TypeOK
  BY DEF TypeOK, Ends, MsgIDs, Frags, Times, Never
<1>2. Started
  BY DEF Started, MsgIDs
<1>3. TicksInTime
  BY DEF TicksInTime, Ends
<1>4. XmitInTime /\ FilteredOnce /\ SuccessMeansDelivered
  BY DEF XmitInTime, FilteredOnce, SuccessMeansDelivered
<1>5. PartlyReceived /\ FullAckMeansDelivered
  BY FragsNonEmpty DEF PartlyReceived, FullAckMeansDelivered
<1> QED
  BY <1>1, <1>2, <1>3, <1>4, <1>5 DEF IInv

-----------------------------------------------------------------------------
\* HandleACKS leaves a bitmask of fragments in txAcks.
LEMMA HandleACKSTypes ==
    ASSUME NEW m \in MsgIDs, NEW bitmask \in SUBSET Frags,
           txAcks \in [MsgIDs -> SUBSET Frags], HandleACKS(m, bitmask)
    PROVE  txAcks' \in [MsgIDs -> SUBSET Frags]
<1>1. \/ txAcks' = [txAcks EXCEPT ![m] = {}]
      \/ txAcks' = [txAcks EXCEPT ![m] = bitmask]
  BY Zenon DEF HandleACKS
<1> QED
  BY <1>1

\* Flushing any messages keeps the types.
LEMMA FlushUnAckedTypes ==
    ASSUME now \in Nat, lastFlush \in [MsgIDs -> Nat],
           data \in [MsgIDs -> [Frags -> Times]],
           NEW ms, NEW ackOf, FlushUnAcked(ms, ackOf)
    PROVE  /\ lastFlush' \in [MsgIDs -> Nat]
           /\ data' \in [MsgIDs -> [Frags -> Times]]
  BY DEF FlushUnAcked, Times

\* Informing the waiters of any messages keeps the types.
LEMMA CompleteTypes ==
    ASSUME m_TXMsgs \in SUBSET MsgIDs,
           outcome \in [MsgIDs -> {"none", "success", "dropped"}],
           NEW ms, NEW status \in {"success", "dropped"}, Complete(ms, status)
    PROVE  /\ m_TXMsgs' \in SUBSET MsgIDs
           /\ outcome' \in [MsgIDs -> {"none", "success", "dropped"}]
  BY DEF Complete

\* Every step preserves the types.
LEMMA NextTypeOK == TypeOK /\ [Next]_vars => TypeOK'
<1> SUFFICES ASSUME TypeOK, [Next]_vars PROVE TypeOK'
  OBVIOUS
<1> USE BoundsAssumption, TimersAssumption DEF TypeOK, txVars, rxVars, netVars, clockVars
<1>1. CASE SendMessageBuffer
  <2>1. m_TXID \in MsgIDs /\ m_TXID' \in 0..MaxMsgs
    BY <1>1 DEF SendMessageBuffer, MsgIDs
  <2>2. /\ lastFlush' \in [MsgIDs -> Nat]
        /\ data' \in [MsgIDs -> [Frags -> Times]]
    BY Zenon, <1>1, FlushUnAckedTypes DEF SendMessageBuffer
  <2>3. /\ startedAt' \in [MsgIDs -> Nat]
        /\ xmit' \in [MsgIDs -> Times]
        /\ m_TXMsgs' \in SUBSET MsgIDs
    BY <1>1, <2>1 DEF SendMessageBuffer, Times
  <2> QED
    BY Zenon, <1>1, <2>1, <2>2, <2>3 DEF SendMessageBuffer
<1>2. ASSUME NEW m \in MsgIDs, NEW bitmask \in SUBSET Frags,
             HandleACKS(m, bitmask)
      PROVE  TypeOK'
  <2>1. txAcks' \in [MsgIDs -> SUBSET Frags]
    BY Zenon, <1>2, HandleACKSTypes
  <2>2. /\ m_TXMsgs' \in SUBSET MsgIDs
        /\ outcome' \in [MsgIDs -> {"none", "success", "dropped"}]
    <3>1. CASE IsTransmitted(bitmask)
      <4>1. Complete({m}, "success")
        BY Zenon, <1>2, <3>1 DEF HandleACKS
      <4> QED
        BY Zenon, <4>1, CompleteTypes
    <3>2. CASE ~IsTransmitted(bitmask)
      BY Zenon, <1>2, <3>2 DEF HandleACKS
    <3> QED
      BY <3>1, <3>2
  <2>3. /\ lastFlush' \in [MsgIDs -> Nat]
        /\ data' \in [MsgIDs -> [Frags -> Times]]
    <3>1. CASE IsTransmitted(bitmask)
      BY <1>2, <3>1 DEF HandleACKS
    <3>2. CASE ~IsTransmitted(bitmask)
      <4>1. FlushUnAcked({m}, txAcks')
        BY <1>2, <3>2 DEF HandleACKS
      <4> QED
        BY Zenon, <4>1, FlushUnAckedTypes
    <3> QED
      BY <3>1, <3>2
  <2> QED
    BY Zenon, <1>2, <2>1, <2>2, <2>3 DEF HandleACKS
<1>3. ASSUME NEW m \in MsgIDs, HandleNACK(m) PROVE TypeOK'
  BY Zenon, <1>3 DEF HandleNACK, Times
<1>4. CASE PumpTX
  BY Zenon, <1>4, FlushUnAckedTypes DEF PumpTX
<1>5. CASE TickTX
  <2>1. /\ m_TXMsgs' \in SUBSET MsgIDs
        /\ outcome' \in [MsgIDs -> {"none", "success", "dropped"}]
    BY Zenon, <1>5, CompleteTypes DEF TickTX
  <2> QED
    BY Zenon, <1>5, <2>1 DEF TickTX, Ends
<1>6. ASSUME NEW m \in MsgIDs, HandleXMIT(m) PROVE TypeOK'
  BY Zenon, <1>6 DEF HandleXMIT
<1>7. ASSUME NEW m \in MsgIDs, NEW f \in Frags, HandleUnknownDATA(m, f)
      PROVE  TypeOK'
  BY Zenon, <1>7 DEF HandleUnknownDATA, Times
<1>8. ASSUME NEW m \in MsgIDs, NEW f \in Frags, HandleDATA(m, f)
      PROVE  TypeOK'
  <2> DEFINE got == rxAcks[m] \cup {f}
  <2>1. got \in SUBSET Frags
    OBVIOUS
  <2>2. CASE IsCompleted(got)
    <3>1. /\ acks' = [acks EXCEPT ![m][got] = now]
          /\ delivered' = [delivered EXCEPT ![m] = @ + 1]
          /\ RecordReplay(m) /\ EraseRX({m})
      BY <1>8, <2>2 DEF HandleDATA
    <3>2. acks' \in [MsgIDs -> [SUBSET Frags -> Times]]
      BY Zenon, <2>1, <3>1 DEF Times
    <3>3. /\ delivered' \in [MsgIDs -> Nat]
          /\ m_ReplayFilter' \in [MsgIDs -> Times]
      BY <3>1 DEF RecordReplay, Times
    <3>4. /\ m_RXMsgs' \in SUBSET MsgIDs
          /\ rxAcks' \in [MsgIDs -> SUBSET Frags]
          /\ lastACK' \in [MsgIDs -> Nat]
          /\ lastActive' \in [MsgIDs -> Nat]
      BY <3>1 DEF EraseRX
    <3> QED
      BY Zenon, <1>8, <3>2, <3>3, <3>4 DEF HandleDATA
  <2>3. CASE ~IsCompleted(got)
    <3>1. /\ rxAcks' = [rxAcks EXCEPT ![m] = got]
          /\ lastActive' = [lastActive EXCEPT ![m] = now]
          /\ UNCHANGED <<m_RXMsgs, lastACK, m_ReplayFilter, delivered, acks>>
      BY <1>8, <2>3 DEF HandleDATA
    <3>2. /\ rxAcks' \in [MsgIDs -> SUBSET Frags]
          /\ lastActive' \in [MsgIDs -> Nat]
      BY <2>1, <3>1
    <3> QED
      BY Zenon, <1>8, <3>1, <3>2 DEF HandleDATA
  <2> QED
    BY Zenon, <2>2, <2>3
<1>9. CASE PumpRX
  BY <1>9 DEF PumpRX, Times
<1>10. CASE TickRX
  BY Zenon, <1>10 DEF TickRX, EraseRX, Ends, Times
<1>11. ASSUME NEW e \in Ends, Close(e) PROVE TypeOK'
  BY Zenon, <1>11 DEF Close
<1>12. CASE EraseTX
  BY Zenon, <1>12 DEF EraseTX
<1>13. CASE EraseSessionRX
  BY Zenon, <1>13 DEF EraseSessionRX, EraseRX
<1>14. CASE AdvanceTime
  BY <1>14 DEF AdvanceTime, Aged, Times
<1>15. CASE UNCHANGED vars
  BY Zenon, <1>15 DEF vars
<1> QED
  BY Zenon, <1>1, <1>2, <1>3, <1>4, <1>5, <1>6, <1>7, <1>8, <1>9, <1>10, <1>11,
     <1>12, <1>13, <1>14, <1>15 DEF Next
-----------------------------------------------------------------------------
(* Preservation of the inductive invariant, one lemma per group of actions *)

Rest ==
    /\ Started /\ TicksInTime /\ XmitInTime /\ FilteredOnce
    /\ PartlyReceived /\ FullAckMeansDelivered /\ SuccessMeansDelivered

\* A message that enters m_TXMsgs is new, and announced now.
LEMMA SendStep == IInv /\ SendMessageBuffer => Rest'
<1> SUFFICES ASSUME IInv, SendMessageBuffer PROVE Rest'
  OBVIOUS
<1>0. /\ m_TXID \in MsgIDs /\ m_TXID \in Nat /\ now \in Nat
      /\ startedAt \in [MsgIDs -> Nat] /\ xmit \in [MsgIDs -> Times]
      /\ MsgIDs \subseteq Nat
  BY BoundsAssumption DEF IInv, TypeOK, SendMessageBuffer, MsgIDs
<1>00. /\ m_TXID' = m_TXID + 1 /\ m_TXMsgs' = m_TXMsgs \cup {m_TXID}
       /\ startedAt' = [startedAt EXCEPT ![m_TXID] = now]
       /\ xmit' = [xmit EXCEPT ![m_TXID] = now]
       /\ UNCHANGED <<now, lastTick, m_State, outcome, m_RXMsgs, rxAcks,
                      lastActive, m_ReplayFilter, delivered, acks>>
       /\ m_State["tx"] # "Erased"
  BY Zenon DEF SendMessageBuffer, rxVars, clockVars
<1>1. Started'
  <2>1. m_TXMsgs' \subseteq 0 .. (m_TXID' - 1)
    BY <1>0, <1>00 DEF IInv, Started
  <2>2. ASSUME NEW m \in MsgIDs, m < m_TXID'
        PROVE  startedAt'[m] <= now'
    BY <1>0, <1>00, <2>2 DEF IInv, Started
  <2>3. ASSUME NEW m \in MsgIDs, ~(m < m_TXID')
        PROVE  xmit'[m] = Never /\ m \notin m_RXMsgs' /\ delivered'[m] = 0
    BY <1>0, <1>00, <2>3 DEF IInv, Started
  <2>4. MsgIDs' = MsgIDs
    BY DEF MsgIDs
  <2> QED
    BY <2>1, <2>2, <2>3, <2>4 DEF Started, Never
<1>2. TicksInTime'
  <2>1. lastTick["tx"] <= now /\ lastTick["tx"] \in Nat
    BY DEF IInv, TypeOK, TicksInTime, Ends
  <2> QED
    BY <1>0, <1>00, <2>1, TimersAssumption DEF IInv, TypeOK, TicksInTime, Ends
<1>3. XmitInTime'
  BY <1>0, <1>00, TimersAssumption DEF IInv, XmitInTime
<1>4. FilteredOnce' /\ PartlyReceived'
  <2>1. \A m \in MsgIDs :
           \/ startedAt'[m] = startedAt[m]
           \/ m \notin m_RXMsgs /\ delivered[m] = 0
    BY <1>0, <1>00 DEF IInv, Started
  <2> QED
    BY Zenon, <1>00, <2>1 DEF IInv, FilteredOnce, PartlyReceived
<1>5. FullAckMeansDelivered' /\ SuccessMeansDelivered'
  BY Zenon, <1>00 DEF IInv, FullAckMeansDelivered, SuccessMeansDelivered
<1> QED
  BY Zenon, <1>1, <1>2, <1>3, <1>4, <1>5 DEF Rest

\* Success is reported on the full bitmask only, which was sent by the
\* HandleDATA that delivered the message.
LEMMA HandleACKSStep ==
    ASSUME NEW m \in MsgIDs, NEW bitmask \in SUBSET Frags,
           IInv, HandleACKS(m, bitmask)
    PROVE  Rest'
<1> USE DEF IInv, TypeOK, HandleACKS, rxVars, clockVars
<1>1. IsTransmitted(bitmask) => delivered[m] # 0
  <2>1. IsTransmitted(bitmask) => bitmask = Frags
    BY Zenon DEF IsTransmitted
  <2> QED
    BY <2>1 DEF Arrives, FullAckMeansDelivered
<1>2. SuccessMeansDelivered'
  BY <1>1 DEF SuccessMeansDelivered, Complete
<1>3. m_TXMsgs' \subseteq m_TXMsgs
  BY DEF Complete
<1>4. Started' /\ TicksInTime' /\ XmitInTime'
  BY <1>3 DEF Started, TicksInTime, XmitInTime
<1>5. FilteredOnce' /\ PartlyReceived' /\ FullAckMeansDelivered'
  BY DEF FilteredOnce, PartlyReceived, FullAckMeansDelivered
<1> QED
  BY Zenon, <1>2, <1>4, <1>5 DEF Rest

\* A NACK is answered for pending messages only, hence in time.
LEMMA HandleNACKStep ==
    ASSUME NEW m \in MsgIDs, IInv, HandleNACK(m) PROVE Rest'
<1> USE DEF IInv, TypeOK, HandleNACK, txVars, rxVars, clockVars
<1>1. m < m_TXID /\ now <= startedAt[m] + DeliveryTimeout + TickInterval
  BY TimersAssumption DEF Started, TicksInTime, Ends
<1>2. Started' /\ XmitInTime'
  BY <1>1 DEF Started, XmitInTime, MsgIDs
<1>3. TicksInTime' /\ FilteredOnce' /\ PartlyReceived'
      /\ FullAckMeansDelivered' /\ SuccessMeansDelivered'
  BY DEF TicksInTime, FilteredOnce, PartlyReceived, FullAckMeansDelivered,
         SuccessMeansDelivered
<1> QED
  BY Zenon, <1>2, <1>3 DEF Rest

\* A tick of the sender leaves pending only what is within DeliveryTimeout.
LEMMA TickTXStep == IInv /\ TickTX => Rest'
<1> SUFFICES ASSUME IInv, TickTX PROVE Rest'
  OBVIOUS
<1> USE TimersAssumption DEF IInv, TypeOK, TickTX, Complete, rxVars, netVars
<1>1. TicksInTime'
  BY DEF TicksInTime, Ends, TXTimedOut
<1>2. Started' /\ XmitInTime' /\ FilteredOnce'
  BY Zenon DEF Started, XmitInTime, FilteredOnce
<1>3. PartlyReceived' /\ FullAckMeansDelivered' /\ SuccessMeansDelivered'
  BY DEF PartlyReceived, FullAckMeansDelivered, SuccessMeansDelivered
<1> QED
  BY Zenon, <1>1, <1>2, <1>3 DEF Rest

\* A message is opened only before it was delivered: a later XMIT would have
\* outlived the replay filter, which ReplayAssumption excludes.
LEMMA HandleXMITStep ==
    ASSUME NEW m \in MsgIDs, IInv, HandleXMIT(m) PROVE Rest'
<1> USE DEF IInv, TypeOK, HandleXMIT, txVars, netVars, clockVars
<1>1. xmit[m] # Never /\ now <= xmit[m] + MaxDelay /\ m < m_TXID
  BY DEF Arrives, Started, MsgIDs
<1>2. now <= startedAt[m] + DeliveryTimeout + TickInterval + MaxDelay
  BY <1>1, TimersAssumption DEF XmitInTime, Times, Never
<1>3. delivered[m] = 0
  BY <1>2, TimersAssumption, ReplayAssumption DEF FilteredOnce
<1>4. FilteredOnce'
  BY <1>3 DEF FilteredOnce
<1>5. PartlyReceived'
  BY <1>1, FragsNonEmpty DEF PartlyReceived, Started
<1>6. Started'
  BY <1>1 DEF Started
<1>7. TicksInTime' /\ XmitInTime' /\ FullAckMeansDelivered' /\ SuccessMeansDelivered'
  BY DEF TicksInTime, XmitInTime, FullAckMeansDelivered, SuccessMeansDelivered
<1> QED
  BY Zenon, <1>4, <1>5, <1>6, <1>7 DEF Rest

\* The fragment that completes a message delivers it for the first time and
\* puts its rxid in the filter; every other one leaves it incomplete.
LEMMA HandleDATAStep ==
    ASSUME NEW m \in MsgIDs, NEW f \in Frags, IInv, HandleDATA(m, f)
    PROVE  Rest'
<1> DEFINE got == rxAcks[m] \cup {f}
<1> USE DEF IInv, TypeOK
<1>1. m \in m_RXMsgs /\ delivered[m] = 0 /\ m < m_TXID
  BY DEF HandleDATA, FilteredOnce, Started, MsgIDs
<1>2. UNCHANGED <<clockVars, m_State, txVars, xmit>>
  BY DEF HandleDATA
<1>3. Started'
  BY <1>1, <1>2 DEF HandleDATA, EraseRX, Started, clockVars, txVars
<1>4. TicksInTime' /\ XmitInTime'
  BY <1>2 DEF TicksInTime, XmitInTime, clockVars, txVars
<1>5. CASE IsCompleted(got)
  <2>1. /\ acks' = [acks EXCEPT ![m][got] = now]
        /\ delivered' = [delivered EXCEPT ![m] = @ + 1]
        /\ RecordReplay(m) /\ EraseRX({m})
    BY <1>5 DEF HandleDATA
  <2>2. FilteredOnce'
    BY <1>1, <1>2, <2>1
       DEF FilteredOnce, EraseRX, RecordReplay, Started, clockVars, txVars, Never
  <2>3. PartlyReceived'
    BY <1>2, <2>1 DEF PartlyReceived, EraseRX, txVars
  <2>4. \A k \in MsgIDs : delivered[k] # 0 => delivered'[k] # 0
    BY <2>1
  <2>5. FullAckMeansDelivered'
    <3>1. delivered'[m] # 0
      BY <1>1, <2>1
    <3>2. ASSUME NEW k \in MsgIDs, k # m PROVE acks'[k] = acks[k]
      BY <2>1, <3>2
    <3> QED
      BY Zenon, <2>4, <3>1, <3>2 DEF FullAckMeansDelivered
  <2>6. SuccessMeansDelivered'
    BY <1>2, <2>1, <2>4 DEF SuccessMeansDelivered, txVars
  <2> QED
    BY Zenon, <1>3, <1>4, <2>2, <2>3, <2>5, <2>6 DEF Rest
<1>6. CASE ~IsCompleted(got)
  <2>1. /\ rxAcks' = [rxAcks EXCEPT ![m] = got]
        /\ lastActive' = [lastActive EXCEPT ![m] = now]
        /\ UNCHANGED <<m_RXMsgs, m_ReplayFilter, delivered, acks>>
    BY <1>6 DEF HandleDATA
  <2>2. got # Frags
    BY <1>6 DEF IsCompleted
  <2>3. PartlyReceived'
    BY <1>1, <1>2, <2>1, <2>2 DEF PartlyReceived, Started, txVars
  <2>4. FilteredOnce' /\ FullAckMeansDelivered' /\ SuccessMeansDelivered'
    BY <1>2, <2>1
       DEF FilteredOnce, FullAckMeansDelivered, SuccessMeansDelivered,
           txVars, clockVars
  <2> QED
    BY Zenon, <1>3, <1>4, <2>3, <2>4 DEF Rest
<1> QED
  BY <1>5, <1>6

\* ACKS of a pending message carry less than the full bitmask.
LEMMA PumpRXStep == IInv /\ PumpRX => Rest'
<1> SUFFICES ASSUME IInv, PumpRX PROVE Rest'
  OBVIOUS
<1> USE DEF IInv, TypeOK, PumpRX, txVars, clockVars
<1>1. \A m \in MsgIDs : acks'[m][Frags] = acks[m][Frags]
  BY FragsNonEmpty DEF PartlyReceived
<1>2. FullAckMeansDelivered'
  BY <1>1 DEF FullAckMeansDelivered
<1>3. Started' /\ TicksInTime' /\ XmitInTime'
  BY DEF Started, TicksInTime, XmitInTime
<1>4. FilteredOnce' /\ PartlyReceived' /\ SuccessMeansDelivered'
  BY DEF FilteredOnce, PartlyReceived, SuccessMeansDelivered
<1> QED
  BY Zenon, <1>2, <1>3, <1>4 DEF Rest

\* A filter entry decays only when its message was sent a ReplayWindow ago.
LEMMA TickRXStep == IInv /\ TickRX => Rest'
<1> SUFFICES ASSUME IInv, TickRX PROVE Rest'
  OBVIOUS
<1> USE TimersAssumption DEF IInv, TypeOK, TickRX, EraseRX, txVars, netVars
<1>1. Started' /\ XmitInTime'
  BY DEF Started, XmitInTime
<1>2. TicksInTime'
  BY DEF TicksInTime, Ends
<1>3. FilteredOnce'
  BY DEF FilteredOnce, Decayed, Times, Never
<1>4. PartlyReceived'
  BY DEF PartlyReceived
<1>5. FullAckMeansDelivered' /\ SuccessMeansDelivered'
  BY DEF FullAckMeansDelivered, SuccessMeansDelivered
<1> QED
  BY Zenon, <1>1, <1>2, <1>3, <1>4, <1>5 DEF Rest

\* Closing or erasing a session only takes something away.
LEMMA LifetimeStep ==
    ASSUME IInv,
           EraseTX \/ EraseSessionRX \/ \E e \in Ends : Close(e)
    PROVE  Rest'
<1> USE DEF IInv, TypeOK, txVars, rxVars, netVars, clockVars
<1>1. CASE EraseTX
  <2>1. Started' /\ TicksInTime' /\ XmitInTime' /\ FilteredOnce'
    BY Zenon, <1>1 DEF EraseTX, Started, TicksInTime, XmitInTime, FilteredOnce, Ends
  <2>2. PartlyReceived' /\ FullAckMeansDelivered' /\ SuccessMeansDelivered'
    BY Zenon, <1>1 DEF EraseTX, PartlyReceived, FullAckMeansDelivered, SuccessMeansDelivered
  <2> QED
    BY Zenon, <2>1, <2>2 DEF Rest
<1>2. CASE EraseSessionRX
  <2>1. Started' /\ TicksInTime' /\ XmitInTime' /\ FilteredOnce'
    BY Zenon, <1>2 DEF EraseSessionRX, EraseRX, Started, TicksInTime, XmitInTime,
                FilteredOnce, Ends
  <2>2. PartlyReceived' /\ FullAckMeansDelivered' /\ SuccessMeansDelivered'
    BY Zenon, <1>2 DEF EraseSessionRX, EraseRX, PartlyReceived,
                FullAckMeansDelivered, SuccessMeansDelivered
  <2> QED
    BY Zenon, <2>1, <2>2 DEF Rest
<1>3. ASSUME NEW e \in Ends, Close(e) PROVE Rest'
  <2>1. Started' /\ TicksInTime' /\ XmitInTime' /\ FilteredOnce'
    BY Zenon, <1>3 DEF Close, Started, TicksInTime, XmitInTime, FilteredOnce, Ends
  <2>2. PartlyReceived' /\ FullAckMeansDelivered' /\ SuccessMeansDelivered'
    BY Zenon, <1>3 DEF Close, PartlyReceived, FullAckMeansDelivered, SuccessMeansDelivered
  <2> QED
    BY Zenon, <2>1, <2>2 DEF Rest
<1> QED
  BY <1>1, <1>2, <1>3

\* Time passes only as far as the next tick; a packet only disappears.
LEMMA AdvanceTimeStep == IInv /\ AdvanceTime => Rest'
<1> SUFFICES ASSUME IInv, AdvanceTime PROVE Rest'
  OBVIOUS
<1> USE TimersAssumption DEF IInv, TypeOK, AdvanceTime, txVars, rxVars
<1>1. \A m \in MsgIDs : xmit'[m] = Never \/ xmit'[m] = xmit[m]
  BY DEF Aged
<1>2. \A m \in MsgIDs :
         acks'[m][Frags] = Never \/ acks'[m][Frags] = acks[m][Frags]
  BY FragsNonEmpty DEF Aged
<1>3. Started' /\ XmitInTime'
  BY <1>1 DEF Started, XmitInTime
<1>4. TicksInTime'
  BY DEF TicksInTime, Ends
<1>5. FilteredOnce' /\ PartlyReceived'
  BY DEF FilteredOnce, PartlyReceived
<1>6. FullAckMeansDelivered' /\ SuccessMeansDelivered'
  BY <1>2 DEF FullAckMeansDelivered, SuccessMeansDelivered
<1> QED
  BY Zenon, <1>3, <1>4, <1>5, <1>6 DEF Rest

\* The steps that only resend data, ask for a message again, or do nothing.
LEMMA IdleStep ==
    ASSUME IInv,
           UNCHANGED <<now, lastTick, m_State, m_TXID, m_TXMsgs, startedAt,
                       outcome, m_RXMsgs, rxAcks, lastActive, m_ReplayFilter,
                       delivered, xmit, acks>>
    PROVE  Rest'
<1>1. Started' /\ TicksInTime' /\ XmitInTime' /\ FilteredOnce'
  BY DEF IInv, Started, TicksInTime, XmitInTime, FilteredOnce
<1>2. PartlyReceived' /\ FullAckMeansDelivered' /\ SuccessMeansDelivered'
  BY Zenon DEF IInv, PartlyReceived, FullAckMeansDelivered, SuccessMeansDelivered
<1> QED
  BY Zenon, <1>1, <1>2 DEF Rest

\* The inductive invariant is preserved by every step.
LEMMA NextIInv == IInv /\ [Next]_vars => IInv'
<1> SUFFICES ASSUME IInv, [Next]_vars PROVE IInv'
  OBVIOUS
<1>1. TypeOK'
  BY NextTypeOK DEF IInv
<1>2. Rest'
  <2>1. CASE SendMessageBuffer
    BY <2>1, SendStep
  <2>2. ASSUME NEW m \in MsgIDs, NEW bitmask \in SUBSET Frags,
               HandleACKS(m, bitmask)
        PROVE  Rest'
    BY <2>2, HandleACKSStep
  <2>3. ASSUME NEW m \in MsgIDs, HandleNACK(m) PROVE Rest'
    BY <2>3, HandleNACKStep
  <2>4. CASE PumpTX
    BY <2>4, IdleStep DEF PumpTX, rxVars, clockVars
  <2>5. CASE TickTX
    BY <2>5, TickTXStep
  <2>6. ASSUME NEW m \in MsgIDs, HandleXMIT(m) PROVE Rest'
    BY <2>6, HandleXMITStep
  <2>7. ASSUME NEW m \in MsgIDs, NEW f \in Frags, HandleUnknownDATA(m, f)
        PROVE  Rest'
    BY <2>7, IdleStep DEF HandleUnknownDATA, txVars, rxVars, clockVars
  <2>8. ASSUME NEW m \in MsgIDs, NEW f \in Frags, HandleDATA(m, f)
        PROVE  Rest'
    BY <2>8, HandleDATAStep
  <2>9. CASE PumpRX
    BY <2>9, PumpRXStep
  <2>10. CASE TickRX
    BY <2>10, TickRXStep
  <2>11. CASE EraseTX \/ EraseSessionRX \/ \E e \in Ends : Close(e)
    BY <2>11, LifetimeStep
  <2>12. CASE AdvanceTime
    BY <2>12, AdvanceTimeStep
  <2>13. CASE UNCHANGED vars
    BY <2>13, IdleStep DEF vars, txVars, rxVars, netVars, clockVars
  <2> QED
    BY <2>1, <2>2, <2>3, <2>4, <2>5, <2>6, <2>7, <2>8, <2>9, <2>10, <2>11,
       <2>12, <2>13 DEF Next
<1> QED
  BY <1>1, <1>2 DEF IInv, Rest

\* The inductive invariant holds of every state the protocol reaches.
LEMMA Invariance == Spec => []IInv
  BY InitIInv, NextIInv, PTL DEF Spec

-----------------------------------------------------------------------------
\* Every variable keeps its type, whatever packets arrive and in what order.
THEOREM TypeCorrect == Spec => []TypeOK
<1>1. IInv => TypeOK
  BY DEF IInv
<1> QED
  BY <1>1, Invariance, PTL

\* eDeliverySuccess is reported only for messages the remote's HandleMessage
\* got, for any number of messages and fragments and any loss, duplication
\* and reordering.
THEOREM DeliverySuccessIsTrue == Spec => []SuccessMeansDelivered
<1>1. IInv => SuccessMeansDelivered
  BY DEF IInv
<1> QED
  BY <1>1, Invariance, PTL

\* HandleDATA hands a message to HandleMessage at most once, as long as the
\* network delivers a packet within ReplayWindow - DeliveryTimeout less a tick.
THEOREM NoDuplicateDelivery == Spec => []AtMostOnce
<1>1. IInv => AtMostOnce
  <2> SUFFICES ASSUME IInv, NEW m \in MsgIDs PROVE delivered[m] <= 1
    BY DEF AtMostOnce
  <2>1. delivered[m] \in Nat /\ (delivered[m] = 0 \/ delivered[m] = 1)
    BY DEF IInv, TypeOK, FilteredOnce
  <2> QED
    BY <2>1
<1> QED
  BY <1>1, Invariance, PTL

\* A message stays pending at the sender for at most DeliveryTimeout and a tick.
THEOREM ResultInTime == Spec => []PendingBounded
<1>1. IInv => PendingBounded
  BY TimersAssumption DEF IInv, TypeOK, TicksInTime, PendingBounded, Ends
<1> QED
  BY <1>1, Invariance, PTL

\* The receiver's Tick drops a partly received message only when the sender's
\* DeliveryTimeout for it is over.
THEOREM ReceiverOutwaits == Spec => ReceiverOutwaitsSender
<1> DEFINE Step ==
      \A m \in m_RXMsgs \ m_RXMsgs' :
         \/ delivered'[m] > delivered[m]
         \/ m_State'["rx"] = "Erased"
         \/ TXTimedOut(m)
<1>1. ASSUME IInv, [Next]_vars PROVE Step
  <2> USE <1>1 DEF IInv, TypeOK
  <2>1. CASE UNCHANGED m_RXMsgs
    BY <2>1
  <2>2. ASSUME NEW m \in MsgIDs, HandleXMIT(m) PROVE Step
    BY <2>2 DEF HandleXMIT
  <2>3. ASSUME NEW m \in MsgIDs, NEW f \in Frags, HandleDATA(m, f) PROVE Step
    <3>1. ASSUME NEW k \in m_RXMsgs \ m_RXMsgs'
          PROVE  delivered'[k] > delivered[k]
      BY <2>3, <3>1 DEF HandleDATA, EraseRX
    <3> QED
      BY <3>1
  <2>4. CASE TickRX
    <3>1. ASSUME NEW m \in m_RXMsgs \ m_RXMsgs' PROVE TXTimedOut(m)
      <4>1. m \in MsgIDs /\ now - lastActive[m] > DeliveryTimeout
        BY <2>4, <3>1 DEF TickRX, EraseRX, RXTimedOut
      <4>2. startedAt[m] <= lastActive[m]
        BY <3>1, <4>1 DEF PartlyReceived
      <4> QED
        BY <4>1, <4>2, TimersAssumption DEF TXTimedOut
    <3> QED
      BY <3>1
  <2>5. CASE EraseSessionRX
    <3>1. m_State'["rx"] = "Erased"
      BY <2>5 DEF EraseSessionRX, Ends
    <3> QED
      BY <3>1
  <2>6. ASSUME ~(UNCHANGED m_RXMsgs), ~TickRX, ~EraseSessionRX,
               \A m \in MsgIDs : ~HandleXMIT(m),
               \A m \in MsgIDs, f \in Frags : ~HandleDATA(m, f)
        PROVE  FALSE
    BY Zenon, <2>6
       DEF Next, SendMessageBuffer, HandleACKS, HandleNACK, PumpTX, TickTX,
           HandleUnknownDATA, PumpRX, Close, EraseTX, AdvanceTime,
           vars, rxVars
  <2> QED
    BY Zenon, <2>1, <2>2, <2>3, <2>4, <2>5, <2>6
<1>2. ASSUME IInv, [Next]_vars PROVE [Step]_vars
  BY <1>1, <1>2
<1> QED
  BY <1>2, Invariance, PTL DEF Spec, ReceiverOutwaitsSender

=============================================================================
