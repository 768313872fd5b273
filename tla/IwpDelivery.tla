----------------------------- MODULE IwpDelivery -----------------------------
(***************************************************************************)
(* Reliable delivery of link messages over one established iwp session     *)
(* (llarp/iwp/session.cpp, llarp/iwp/message_buffer.cpp), in one           *)
(* direction: end "tx" sends, end "rx" receives.  A message is announced   *)
(* by XMIT, carried by one DATA packet per fragment, acknowledged by an    *)
(* ACKS bitmask and, when its XMIT was missed, asked for again by NACK.    *)
(* The packets travel over UDP: they may be lost, duplicated, reordered    *)
(* and delayed by at most MaxDelay.                                        *)
(***************************************************************************)
EXTENDS Integers

CONSTANTS
    MaxMsgs,          \* bound: messages handed to SendMessageBuffer
    NumFragments,     \* fragments of a message, m_Size / FragmentSize
    DeliveryTimeout,  \* Session::DeliveryTimeout
    ReplayWindow,     \* Session::ReplayWindow
    TXFlushInterval,  \* Session::TXFlushInterval
    ACKInterval,      \* the 1000 of InboundMessage::ShouldSendACKS
    TickInterval,     \* longest time between two ILinkLayer::Tick calls
    MaxDelay,         \* longest time a packet spends in the network
    StartTime,        \* the clock when the session is established
    MaxTime           \* bound: the clock stops here

ASSUME BoundsAssumption ==
    /\ MaxMsgs \in Nat /\ NumFragments \in 1..8
    /\ StartTime \in Nat /\ MaxTime \in Nat

ASSUME TimersAssumption ==
    /\ DeliveryTimeout \in Nat /\ ReplayWindow \in Nat
    /\ TXFlushInterval \in Nat /\ ACKInterval \in Nat
    /\ TickInterval \in Nat /\ MaxDelay \in Nat

(***************************************************************************)
(* The replay filter outlives every packet of a message: the sender stops  *)
(* at most DeliveryTimeout + TickInterval after the message was queued     *)
(* and its last packet is gone MaxDelay later.  With the constants of      *)
(* session.hpp (5000 ms, 7500 ms, ticks every 100 ms) this asks for a      *)
(* network delay below 2400 ms.                                            *)
(***************************************************************************)
ASSUME ReplayAssumption ==
    DeliveryTimeout + TickInterval + MaxDelay < ReplayWindow

MsgIDs == 0 .. (MaxMsgs - 1)
Frags == 0 .. (NumFragments - 1)
Ends == {"tx", "rx"}
Never == -1
Times == Nat \cup {Never}

VARIABLES
    now,             \* Now() of both link layers
    lastTick,        \* [Ends -> Nat] time of the last ILinkLayer::Tick
    m_State,         \* [Ends -> {"Ready", "Closed", "Erased"}]
    m_TXID,          \* next message id of the sender
    m_TXMsgs,        \* ids of the sender's pending OutboundMessages
    txAcks,          \* OutboundMessage::m_Acks
    lastFlush,       \* OutboundMessage::m_LastFlush
    startedAt,       \* OutboundMessage::m_StartedAt (kept after the erase)
    outcome,         \* what m_Completed was called with, per message
    m_RXMsgs,        \* ids of the receiver's pending InboundMessages
    rxAcks,          \* InboundMessage::m_Acks
    lastACK,         \* InboundMessage::m_LastACKSent
    lastActive,      \* InboundMessage::m_LastActiveAt
    m_ReplayFilter,  \* rxid -> time received, Never when absent
    delivered,       \* number of HandleMessage calls per message
    xmit, data, acks, nack  \* per packet: when it was last sent, or Never

txVars == <<m_TXID, m_TXMsgs, txAcks, lastFlush, startedAt, outcome>>
rxVars == <<m_RXMsgs, rxAcks, lastACK, lastActive, m_ReplayFilter, delivered>>
netVars == <<xmit, data, acks, nack>>
clockVars == <<now, lastTick>>
vars == <<clockVars, m_State, txVars, rxVars, netVars>>

Init ==
    /\ now = StartTime
    /\ lastTick = [e \in Ends |-> StartTime]
    /\ m_State = [e \in Ends |-> "Ready"]
    /\ m_TXID = 0
    /\ m_TXMsgs = {}
    /\ txAcks = [m \in MsgIDs |-> {}]
    /\ lastFlush = [m \in MsgIDs |-> 0]
    /\ startedAt = [m \in MsgIDs |-> 0]
    /\ outcome = [m \in MsgIDs |-> "none"]
    /\ m_RXMsgs = {}
    /\ rxAcks = [m \in MsgIDs |-> {}]
    /\ lastACK = [m \in MsgIDs |-> 0]
    /\ lastActive = [m \in MsgIDs |-> 0]
    /\ m_ReplayFilter = [m \in MsgIDs |-> Never]
    /\ delivered = [m \in MsgIDs |-> 0]
    /\ xmit = [m \in MsgIDs |-> Never]
    /\ data = [m \in MsgIDs |-> [f \in Frags |-> Never]]
    /\ acks = [m \in MsgIDs |-> [s \in SUBSET Frags |-> Never]]
    /\ nack = [m \in MsgIDs |-> Never]

-----------------------------------------------------------------------------
(* The network.  A packet can be received, any number of times, until it   *)
(* has been under way for MaxDelay; the last time an identical packet was  *)
(* sent is all that matters for that.                                      *)

Arrives(sentAt) == sentAt # Never /\ now <= sentAt + MaxDelay

\* LinkLayer::RecvFrom finds the session through m_AuthedAddrs, which
\* Session::Close removes the address from
Receives(e) == m_State[e] = "Ready"

-----------------------------------------------------------------------------
(* The sender                                                              *)

\* OutboundMessage::FlushUnAcked for the messages ms with the bitmasks ackOf
FlushUnAcked(ms, ackOf) ==
    /\ data' = [m \in MsgIDs |-> [f \in Frags |->
                   IF m \in ms /\ f \notin ackOf[m] THEN now ELSE data[m][f]]]
    /\ lastFlush' = [m \in MsgIDs |-> IF m \in ms THEN now ELSE lastFlush[m]]

\* Session::SendMessageBuffer.  ILinkLayer::SendTo reaches every session of
\* m_AuthedLinks, closed ones that are not erased yet included.
SendMessageBuffer ==
    /\ m_TXID < MaxMsgs
    /\ now + DeliveryTimeout + TickInterval < MaxTime
    /\ m_State["tx"] # "Erased"
    /\ m_TXID' = m_TXID + 1
    /\ m_TXMsgs' = m_TXMsgs \cup {m_TXID}
    /\ startedAt' = [startedAt EXCEPT ![m_TXID] = now]
    /\ xmit' = [xmit EXCEPT ![m_TXID] = now]
    /\ FlushUnAcked({m_TXID}, txAcks)
    /\ UNCHANGED <<clockVars, m_State, txAcks, outcome, rxVars, acks, nack>>

\* mutant: the loop stops one fragment short
IsTransmitted_Short(bitmask) == \A f \in Frags : f + 1 \in Frags => f \in bitmask

\* OutboundMessage::IsTransmitted
IsTransmitted(bitmask) == Frags \subseteq bitmask

\* mutant: the timed-out message is erased without a call of InformTimeout
Complete_Silent(ms, status) ==
    /\ outcome' = [m \in MsgIDs |-> IF m \in ms /\ status # "dropped"
                                   THEN status ELSE outcome[m]]
    /\ m_TXMsgs' = m_TXMsgs \ ms

\* m_Completed is called and the message leaves m_TXMsgs
Complete(ms, status) ==
    /\ outcome' = [m \in MsgIDs |-> IF m \in ms THEN status ELSE outcome[m]]
    /\ m_TXMsgs' = m_TXMsgs \ ms

\* Session::HandleACKS: the bitmask replaces the one known so far
HandleACKS(m, bitmask) ==
    /\ Receives("tx") /\ Arrives(acks[m][bitmask])
    /\ m \in m_TXMsgs
    /\ IF IsTransmitted(bitmask)
       THEN /\ Complete({m}, "success")
            /\ txAcks' = [txAcks EXCEPT ![m] = {}]
            /\ UNCHANGED <<lastFlush, data>>
       ELSE /\ txAcks' = [txAcks EXCEPT ![m] = bitmask]
            /\ FlushUnAcked({m}, txAcks')
            /\ UNCHANGED <<m_TXMsgs, outcome>>
    /\ UNCHANGED <<clockVars, m_State, m_TXID, startedAt, rxVars,
                   xmit, acks, nack>>

\* Session::HandleNACK: announce the message again
HandleNACK(m) ==
    /\ Receives("tx") /\ Arrives(nack[m])
    /\ m \in m_TXMsgs
    /\ xmit' = [xmit EXCEPT ![m] = now]
    /\ UNCHANGED <<clockVars, m_State, txVars, rxVars, data, acks, nack>>

\* OutboundMessage::ShouldFlush
ShouldFlush(m) == now - lastFlush[m] >= TXFlushInterval

\* Session::Pump, its m_TXMsgs half
PumpTX ==
    /\ m_State["tx"] = "Ready"
    /\ \E m \in m_TXMsgs : ShouldFlush(m)
    /\ FlushUnAcked({m \in m_TXMsgs : ShouldFlush(m)}, txAcks)
    /\ UNCHANGED <<clockVars, m_State, m_TXID, m_TXMsgs, txAcks, startedAt,
                   outcome, rxVars, xmit, acks, nack>>

\* mutant: the timeout counts from the last flush
TXTimedOut_SinceFlush(m) == now - lastFlush[m] > DeliveryTimeout

\* OutboundMessage::IsTimedOut
TXTimedOut(m) == now - startedAt[m] > DeliveryTimeout

\* Session::Tick of the sender: inform the waiters of what timed out
TickTX ==
    LET late == {m \in m_TXMsgs : TXTimedOut(m)}
    IN  /\ m_State["tx"] # "Erased" /\ lastTick["tx"] < now
        /\ lastTick' = [lastTick EXCEPT !["tx"] = now]
        /\ Complete(late, "dropped")
        /\ txAcks' = [m \in MsgIDs |-> IF m \in late THEN {} ELSE txAcks[m]]
        /\ UNCHANGED <<now, m_State, m_TXID, lastFlush, startedAt, rxVars,
                       netVars>>

-----------------------------------------------------------------------------
(* The receiver                                                            *)

\* Session::HandleXMIT, past its check for replays
HandleXMIT(m) ==
    /\ Receives("rx") /\ Arrives(xmit[m])
    /\ m_ReplayFilter[m] = Never
    /\ m \notin m_RXMsgs
    /\ m_RXMsgs' = m_RXMsgs \cup {m}
    /\ lastActive' = [lastActive EXCEPT ![m] = now]
    /\ UNCHANGED <<clockVars, m_State, txVars, rxAcks, lastACK,
                   m_ReplayFilter, delivered, netVars>>

\* the InboundMessages ms leave m_RXMsgs
EraseRX(ms) ==
    /\ m_RXMsgs' = m_RXMsgs \ ms
    /\ rxAcks' = [m \in MsgIDs |-> IF m \in ms THEN {} ELSE rxAcks[m]]
    /\ lastACK' = [m \in MsgIDs |-> IF m \in ms THEN 0 ELSE lastACK[m]]
    /\ lastActive' = [m \in MsgIDs |-> IF m \in ms THEN 0 ELSE lastActive[m]]

\* InboundMessage::IsCompleted
IsCompleted(bitmask) == Frags \subseteq bitmask

\* Session::HandleDATA on an unknown rxid
HandleUnknownDATA(m, f) ==
    /\ Receives("rx") /\ Arrives(data[m][f])
    /\ m \notin m_RXMsgs
    /\ nack' = [nack EXCEPT ![m] = now]
    /\ UNCHANGED <<clockVars, m_State, txVars, rxVars, xmit, data, acks>>

\* mutant: the filter stores the start of the window
RecordReplay_Start(m) ==
    m_ReplayFilter' = [m_ReplayFilter EXCEPT ![m] = now - ReplayWindow]

\* the rxid enters the replay filter
RecordReplay(m) == m_ReplayFilter' = [m_ReplayFilter EXCEPT ![m] = now]

\* Session::HandleDATA on a pending message.  Only the fragment that
\* completes it sends ACKS and hands it to the link message parser.
HandleDATA(m, f) ==
    LET got == rxAcks[m] \cup {f}
    IN  /\ Receives("rx") /\ Arrives(data[m][f])
        /\ m \in m_RXMsgs
        /\ IF IsCompleted(got)
           THEN /\ acks' = [acks EXCEPT ![m][got] = now]
                /\ delivered' = [delivered EXCEPT ![m] = @ + 1]
                /\ RecordReplay(m)
                /\ EraseRX({m})
           ELSE /\ rxAcks' = [rxAcks EXCEPT ![m] = got]
                /\ lastActive' = [lastActive EXCEPT ![m] = now]
                /\ UNCHANGED <<m_RXMsgs, lastACK, m_ReplayFilter, delivered,
                               acks>>
        /\ UNCHANGED <<clockVars, m_State, txVars, xmit, data, nack>>

\* InboundMessage::ShouldSendACKS
ShouldSendACKS(m) == now - lastACK[m] > ACKInterval \/ IsCompleted(rxAcks[m])

\* Session::Pump, its m_RXMsgs half
PumpRX ==
    LET due == {m \in m_RXMsgs : ShouldSendACKS(m)}
    IN  /\ m_State["rx"] = "Ready" /\ due # {}
        /\ acks' = [m \in MsgIDs |-> [s \in SUBSET Frags |->
                       IF m \in due /\ s = rxAcks[m] THEN now ELSE acks[m][s]]]
        /\ lastACK' = [m \in MsgIDs |-> IF m \in due THEN now ELSE lastACK[m]]
        /\ UNCHANGED <<clockVars, m_State, txVars, m_RXMsgs, rxAcks, lastActive,
                       m_ReplayFilter, delivered, xmit, data, nack>>

\* mutant: the timeout counts from the last ACKS
RXTimedOut_SinceACKS(m) == now - lastACK[m] > DeliveryTimeout

\* InboundMessage::IsTimedOut
RXTimedOut(m) == now - lastActive[m] > DeliveryTimeout

\* mutant: the filter decays after the delivery timeout
Decayed_Early(m) ==
    m_ReplayFilter[m] # Never /\ m_ReplayFilter[m] + DeliveryTimeout <= now

\* the entry of m in the replay filter has outlived ReplayWindow
Decayed(m) == m_ReplayFilter[m] # Never /\ m_ReplayFilter[m] + ReplayWindow <= now

\* Session::Tick of the receiver: drop what timed out, decay the filter
TickRX ==
    /\ m_State["rx"] # "Erased" /\ lastTick["rx"] < now
    /\ lastTick' = [lastTick EXCEPT !["rx"] = now]
    /\ EraseRX({m \in m_RXMsgs : RXTimedOut(m)})
    /\ m_ReplayFilter' = [m \in MsgIDs |->
                             IF Decayed(m) THEN Never ELSE m_ReplayFilter[m]]
    /\ UNCHANGED <<now, m_State, txVars, delivered, netVars>>

-----------------------------------------------------------------------------
(* Session lifetime and time                                               *)

\* Session::Close, called by the router or on a CLOS packet
Close(e) ==
    /\ m_State[e] = "Ready"
    /\ m_State' = [m_State EXCEPT ![e] = "Closed"]
    /\ UNCHANGED <<clockVars, txVars, rxVars, netVars>>

\* ILinkLayer::Pump on a session that timed out: it leaves m_AuthedLinks and is
\* destroyed with its messages
EraseTX ==
    /\ m_State["tx"] # "Erased"
    /\ m_State' = [m_State EXCEPT !["tx"] = "Erased"]
    /\ m_TXMsgs' = {}
    /\ UNCHANGED <<clockVars, m_TXID, txAcks, lastFlush, startedAt, outcome,
                   rxVars, netVars>>

EraseSessionRX ==
    /\ m_State["rx"] # "Erased"
    /\ m_State' = [m_State EXCEPT !["rx"] = "Erased"]
    /\ EraseRX(m_RXMsgs)
    /\ UNCHANGED <<clockVars, txVars, m_ReplayFilter, delivered, netVars>>

\* a packet under way for MaxDelay is gone
Aged(sentAt) == IF sentAt + MaxDelay <= now THEN Never ELSE sentAt

\* Time passes, but never more than TickInterval without a Tick of each end
AdvanceTime ==
    /\ now < MaxTime
    /\ \A e \in Ends : m_State[e] = "Erased" \/ now < lastTick[e] + TickInterval
    /\ now' = now + 1
    /\ xmit' = [m \in MsgIDs |-> Aged(xmit[m])]
    /\ data' = [m \in MsgIDs |-> [f \in Frags |-> Aged(data[m][f])]]
    /\ acks' = [m \in MsgIDs |-> [s \in SUBSET Frags |-> Aged(acks[m][s])]]
    /\ nack' = [m \in MsgIDs |-> Aged(nack[m])]
    /\ UNCHANGED <<lastTick, m_State, txVars, rxVars>>

-----------------------------------------------------------------------------
Next ==
    \/ SendMessageBuffer
    \/ \E m \in MsgIDs, bitmask \in SUBSET Frags : HandleACKS(m, bitmask)
    \/ \E m \in MsgIDs : HandleNACK(m)
    \/ PumpTX
    \/ TickTX
    \/ \E m \in MsgIDs : HandleXMIT(m)
    \/ \E m \in MsgIDs, f \in Frags : HandleUnknownDATA(m, f)
    \/ \E m \in MsgIDs, f \in Frags : HandleDATA(m, f)
    \/ PumpRX
    \/ TickRX
    \/ \E e \in Ends : Close(e)
    \/ EraseTX
    \/ EraseSessionRX
    \/ AdvanceTime

Spec == Init /\ [][Next]_vars

(***************************************************************************)
(* The clock advances and every OnTick schedules the next one, so both     *)
(* happen; nothing is assumed of the network or of the event loop's Pump.  *)
(***************************************************************************)
FairSpec ==
    /\ Spec
    /\ WF_vars(AdvanceTime) /\ WF_vars(TickTX) /\ WF_vars(TickRX)

-----------------------------------------------------------------------------
\* Types: every timer, bitmask and message set of both ends is in its range.
TypeOK ==
    /\ now \in Nat
    /\ lastTick \in [Ends -> Nat]
    /\ m_State \in [Ends -> {"Ready", "Closed", "Erased"}]
    /\ m_TXID \in 0..MaxMsgs
    /\ m_TXMsgs \in SUBSET MsgIDs
    /\ txAcks \in [MsgIDs -> SUBSET Frags]
    /\ lastFlush \in [MsgIDs -> Nat]
    /\ startedAt \in [MsgIDs -> Nat]
    /\ outcome \in [MsgIDs -> {"none", "success", "dropped"}]
    /\ m_RXMsgs \in SUBSET MsgIDs
    /\ rxAcks \in [MsgIDs -> SUBSET Frags]
    /\ lastACK \in [MsgIDs -> Nat]
    /\ lastActive \in [MsgIDs -> Nat]
    /\ m_ReplayFilter \in [MsgIDs -> Times]
    /\ delivered \in [MsgIDs -> Nat]
    /\ xmit \in [MsgIDs -> Times]
    /\ data \in [MsgIDs -> [Frags -> Times]]
    /\ acks \in [MsgIDs -> [SUBSET Frags -> Times]]
    /\ nack \in [MsgIDs -> Times]

\* A message whose CompletionHandler was called with eDeliverySuccess was
\* handed to the remote's HandleMessage, whatever ACKS packets of earlier
\* attempts, or of an entry the remote has since timed out, arrive late.
SuccessMeansDelivered ==
    \A m \in MsgIDs : outcome[m] = "success" => delivered[m] > 0

\* No message is handed to HandleMessage twice: m_ReplayFilter keeps a rxid
\* for as long as a retransmitted or duplicated XMIT of it can still arrive.
AtMostOnce == \A m \in MsgIDs : delivered[m] <= 1

\* The handler of a message is called within DeliveryTimeout and one tick of
\* SendMessageBuffer: no OutboundMessage is pending for longer.
PendingBounded ==
    \A m \in m_TXMsgs : now <= startedAt[m] + DeliveryTimeout + TickInterval

\* A message leaves m_RXMsgs when it is delivered, when its session is erased, or
\* when the sender's DeliveryTimeout for it is over: Session::Tick never drops one
\* that the sender may still complete without the fragments already acknowledged.
ReceiverOutwaitsSender ==
    [][\A m \in m_RXMsgs \ m_RXMsgs' :
          \/ delivered'[m] > delivered[m]
          \/ m_State'["rx"] = "Erased"
          \/ TXTimedOut(m)]_vars

\* Every message handed to SendMessageBuffer gets its result, unless the link
\* layer erases the session first (a destroyed session informs nobody).
EventuallyInformed ==
    \A m \in MsgIDs :
       m < m_TXID ~> (outcome[m] # "none" \/ m_State["tx"] = "Erased")

=============================================================================
