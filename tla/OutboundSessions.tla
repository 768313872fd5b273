-------------------------- MODULE OutboundSessions --------------------------
(***************************************************************************)
(* How a router gets a link message to a remote router it may have no      *)
(* session with: OutboundMessageHandler, OutboundSessionMaker and          *)
(* RCLookupHandler (llarp/router) over the link manager.  The main thread  *)
(* runs every handler, timer and queued logic job, one at a time; VerifyRC *)
(* runs on a worker and interleaves with it at every lock boundary.        *)
(***************************************************************************)
EXTENDS Integers, FiniteSets

CONSTANTS
    Routers,              \* remote routers
    Msgs,                 \* bound: messages handed to QueueMessage
    MaxSessions,          \* bound: link sessions created, either direction
    MaxCalls,             \* bound: CreateSessionTo calls made without callback
    maxConnectedRouters,  \* OutboundSessionMaker::maxConnectedRouters
    permitInbound         \* iwp::LinkLayer::permitInbound

ASSUME OutboundAssumption ==
    /\ IsFiniteSet(Routers) /\ IsFiniteSet(Msgs)
    /\ MaxSessions \in Nat /\ MaxCalls \in Nat /\ maxConnectedRouters \in Nat
    /\ permitInbound \in BOOLEAN

Sessions == 1 .. MaxSessions
NoSession == 0
NoRouter == "none"
SessionResult == {"Establish", "Timeout", "RouterNotFound", "InvalidRouter",
                  "NoLink"}
Idle == [at |-> "idle"]

VARIABLES
    outboundMessageQueue,  \* [Routers -> SUBSET Msgs], no entry when empty
    sentOn,                \* [Msgs -> session whose m_TXMsgs has it]
    reported,              \* [Msgs -> Nat] calls of DoCallback
    accepted,              \* messages handed to QueueMessage
    pendingSessions,       \* "none", "null" (no RC yet) or "link"
    pendingCallbacks,      \* [Routers -> Nat] OnSessionResult callbacks
    rcPending,             \* RCLookupHandler::pendingCallbacks: -1 or a count
    lookups,               \* [Routers -> Nat] DHT lookups under way
    establishJobs,         \* [Routers -> Nat] DoEstablish jobs of the logic
    resultJobs,            \* [Routers -> [SessionResult -> Nat]] of the logic
    timeoutJobs,           \* [Routers -> Nat] deferred HandleTimeout calls
    main,                  \* where the main thread is within CreateSessionTo
    verifying,             \* [Routers -> Nat] VerifyRC jobs of the workers
    erasing,               \* [Routers -> Nat] workers inside FinalizeRequest,
                           \* between its two critical sections
    sRouter, sState,       \* link sessions: remote; pending, authed or gone
    calls,                 \* CreateSessionTo calls made without callback
    crashed,               \* DoEstablish dereferenced a null PendingSession
    deadEnd                \* [Routers -> why nothing will finalize the request],
                           \* a history variable

msgVars == <<outboundMessageQueue, sentOn, reported, accepted>>
makerVars == <<pendingSessions, pendingCallbacks, deadEnd>>
rcVars == <<rcPending, lookups>>
jobVars == <<establishJobs, resultJobs, timeoutJobs>>
workerVars == <<verifying, erasing>>
linkVars == <<sRouter, sState>>
vars == <<msgVars, makerVars, rcVars, jobVars, workerVars, linkVars, main,
          calls, crashed>>

Init ==
    /\ outboundMessageQueue = [r \in Routers |-> {}]
    /\ sentOn = [m \in Msgs |-> NoSession]
    /\ reported = [m \in Msgs |-> 0]
    /\ accepted = {}
    /\ pendingSessions = [r \in Routers |-> "none"]
    /\ pendingCallbacks = [r \in Routers |-> 0]
    /\ rcPending = [r \in Routers |-> -1]
    /\ lookups = [r \in Routers |-> 0]
    /\ establishJobs = [r \in Routers |-> 0]
    /\ resultJobs = [r \in Routers |-> [t \in SessionResult |-> 0]]
    /\ timeoutJobs = [r \in Routers |-> 0]
    /\ main = Idle
    /\ verifying = [r \in Routers |-> 0]
    /\ erasing = [r \in Routers |-> 0]
    /\ sRouter = [s \in Sessions |-> NoRouter]
    /\ sState = [s \in Sessions |-> "unused"]
    /\ calls = 0
    /\ crashed = FALSE
    /\ deadEnd = [r \in Routers |-> "no"]

-----------------------------------------------------------------------------
(* The link manager                                                        *)

AuthedWith(r) == {s \in Sessions : sState[s] = "authed" /\ sRouter[s] = r}
HasSessionTo(r) == AuthedWith(r) # {}

\* LinkManager::NumberOfConnectedRouters
NumberOfConnectedRouters == Cardinality({r \in Routers : HasSessionTo(r)})

\* ILinkLayer::SendTo hands each message to a session with r; which one (the
\* code takes the one with the lowest backlog) is left open
SendTo(r, ms) ==
    \E pick \in [ms -> AuthedWith(r)] :
       sentOn' = [m \in Msgs |-> IF m \in ms THEN pick[m] ELSE sentOn[m]]

\* the next link session, made with r
NewSession(r, state) ==
    \E s \in Sessions :
       /\ sState[s] = "unused" /\ \A o \in 1 .. (s - 1) : sState[o] # "unused"
       /\ sState' = [sState EXCEPT ![s] = state]
       /\ sRouter' = [sRouter EXCEPT ![s] = r]

-----------------------------------------------------------------------------
(* OutboundSessionMaker                                                    *)

\* mutant: the callbacks are copied out of pendingCallbacks, not moved
TakeCallbacks_Copied(r, type) ==
    /\ resultJobs' = [resultJobs EXCEPT ![r][type] = @ + pendingCallbacks[r]]
    /\ UNCHANGED pendingCallbacks

\* FinalizeRequest, first critical section: the callbacks become logic jobs
TakeCallbacks(r, type) ==
    /\ resultJobs' = [resultJobs EXCEPT ![r][type] = @ + pendingCallbacks[r]]
    /\ pendingCallbacks' = [pendingCallbacks EXCEPT ![r] = 0]

\* FinalizeRequest on the main thread: both critical sections.  Between them
\* only a worker's own FinalizeRequest can run, which commutes.
FinalizeRequest(r, type) ==
    /\ TakeCallbacks(r, type)
    /\ pendingSessions' = [pendingSessions EXCEPT ![r] = "none"]
    /\ deadEnd' = [deadEnd EXCEPT ![r] = "no"]

\* ShouldConnectTo of a router that is pending: numPending stays 0
ShouldConnectTo(r) ==
    /\ ~HasSessionTo(r)
    /\ NumberOfConnectedRouters < maxConnectedRouters

\* GotRouterContact called n times for the same RC, of a pending router
GotRouterContact(r, n, haslink) ==
    IF haslink
    THEN /\ pendingSessions' = [pendingSessions EXCEPT ![r] = "link"]
         /\ establishJobs' = [establishJobs EXCEPT ![r] =
                                 IF ShouldConnectTo(r) THEN @ + n ELSE @]
         /\ deadEnd' = [deadEnd EXCEPT ![r] =
                           IF ShouldConnectTo(r) THEN "no" ELSE "NotConnecting"]
         /\ UNCHANGED <<pendingCallbacks, resultJobs>>
    ELSE FinalizeRequest(r, "NoLink") /\ UNCHANGED establishJobs

\* OnRouterContactResult, called by n callbacks of one lookup
OnRouterContactResult(r, n, result, haslink) ==
    IF n <= 0 \/ pendingSessions[r] = "none"
    THEN UNCHANGED <<makerVars, establishJobs, resultJobs>>
    ELSE CASE result = "Success" -> GotRouterContact(r, n, haslink)
           [] result = "BadRC" ->
                /\ deadEnd' = [deadEnd EXCEPT ![r] = "BadRC"]
                /\ UNCHANGED <<pendingSessions, pendingCallbacks,
                               establishJobs, resultJobs>>
           [] OTHER -> FinalizeRequest(r, result) /\ UNCHANGED establishJobs

\* OutboundMessageHandler::QueueMessage.  With a session the message is sent;
\* without, it waits, and the first to wait asks for a session: CreateSessionTo
\* registers OnSessionResult and goes on at CheckPending.
QueueMessage(m, r) ==
    /\ main = Idle /\ m \notin accepted
    /\ accepted' = accepted \cup {m}
    /\ IF HasSessionTo(r)
       THEN /\ SendTo(r, {m})
            /\ UNCHANGED <<outboundMessageQueue, pendingCallbacks, main>>
       ELSE /\ outboundMessageQueue' = [outboundMessageQueue EXCEPT ![r] = @ \cup {m}]
            /\ IF outboundMessageQueue[r] = {}
               THEN /\ pendingCallbacks' = [pendingCallbacks EXCEPT ![r] = @ + 1]
                    /\ main' = [at |-> "check", router |-> r]
               ELSE UNCHANGED <<pendingCallbacks, main>>
            /\ UNCHANGED sentOn
    /\ UNCHANGED <<reported, pendingSessions, deadEnd, rcVars, jobVars,
                   workerVars, linkVars, calls, crashed>>

\* LinkManager::CheckPersistingSessions calls CreateSessionTo(router, nullptr)
CheckPersistingSession(r) ==
    /\ main = Idle /\ calls < MaxCalls /\ ~HasSessionTo(r)
    /\ calls' = calls + 1
    /\ main' = [at |-> "check", router |-> r]
    /\ UNCHANGED <<msgVars, makerVars, rcVars, jobVars, workerVars, linkVars,
                   crashed>>

\* Router::TryConnectAsync and ConnectToRandomRouters call
\* CreateSessionTo(rc, nullptr), which goes to GotRouterContact at once.  A
\* worker that erases the new entry before that only makes DoEstablish find
\* nothing, as it also does when it erases the entry afterwards.
CreateSessionToRC(r, haslink) ==
    /\ main = Idle /\ calls < MaxCalls
    /\ calls' = calls + 1
    /\ GotRouterContact(r, 1, haslink)
    /\ UNCHANGED <<msgVars, rcVars, timeoutJobs, workerVars, linkVars, main,
                   crashed>>

\* CreateSessionTo: HavePendingSessionTo, else CreatePendingSession
CheckPending ==
    /\ main.at = "check"
    /\ LET r == main.router
       IN  IF pendingSessions[r] # "none"
           THEN main' = Idle /\ UNCHANGED <<pendingSessions, deadEnd>>
           ELSE /\ pendingSessions' = [pendingSessions EXCEPT ![r] = "null"]
                /\ deadEnd' = [deadEnd EXCEPT ![r] = "no"]
                /\ main' = [at |-> "lookup", router |-> r]
    /\ UNCHANGED <<msgVars, pendingCallbacks, rcVars, jobVars,
                   workerVars, linkVars, calls, crashed>>

-----------------------------------------------------------------------------
(* RCLookupHandler                                                         *)

\* mutant: a result pops one callback, whether or not there is an entry
RCFinalizeRequest_PopOne(r, own, result, haslink) ==
    /\ OnRouterContactResult(r, own + (IF rcPending[r] < 0 THEN 0 ELSE 1),
                             result, haslink)
    /\ rcPending' = [rcPending EXCEPT ![r] = @ - 1]

\* FinalizeRequest: the waiting callbacks, and the caller's own, get the result
RCFinalizeRequest(r, own, result, haslink) ==
    /\ OnRouterContactResult(r, own + (IF rcPending[r] < 0 THEN 0 ELSE rcPending[r]),
                             result, haslink)
    /\ rcPending' = [rcPending EXCEPT ![r] = -1]

\* GetRC, called by CreateSessionTo, when the nodedb has the RC
GetRCFromNodeDB(haslink) ==
    /\ main.at = "lookup"
    /\ main' = Idle
    /\ RCFinalizeRequest(main.router, 1, "Success", haslink)
    /\ UNCHANGED <<msgVars, lookups, timeoutJobs, workerVars, linkVars, calls,
                   crashed>>

\* GetRC, called by CreateSessionTo, when it has not: join the lookup under
\* way or start one
GetRCByLookup ==
    /\ main.at = "lookup"
    /\ main' = Idle
    /\ LET r == main.router
       IN  /\ rcPending' = [rcPending EXCEPT ![r] = IF @ < 0 THEN 1 ELSE @ + 1]
           /\ lookups' = [lookups EXCEPT ![r] = IF rcPending[r] < 0 THEN @ + 1 ELSE @]
    /\ UNCHANGED <<msgVars, makerVars, jobVars, workerVars, linkVars, calls,
                   crashed>>

\* GetRC, called by CreateSessionTo, when dht_context has no peer to ask
GetRCNobodyToAsk ==
    /\ main.at = "lookup" /\ rcPending[main.router] < 0
    /\ main' = Idle
    /\ RCFinalizeRequest(main.router, 1, "RouterNotFound", FALSE)
    /\ UNCHANGED <<msgVars, lookups, timeoutJobs, workerVars, linkVars, calls,
                   crashed>>

\* GetRC, called for others than the session maker (Router::LookupRouter and the
\* bootstrap), when the nodedb has the RC: the callbacks that wait get it too
LookupKnownRouter(r, haslink) ==
    /\ main = Idle /\ calls < MaxCalls
    /\ calls' = calls + 1
    /\ RCFinalizeRequest(r, 0, "Success", haslink)
    /\ UNCHANGED <<msgVars, lookups, timeoutJobs, workerVars, linkVars, main,
                   crashed>>

\* and when it starts a lookup.  One that joins the lookup under way, or finds
\* nobody to ask, concerns its own callback only
LookupRouter(r) ==
    /\ main = Idle /\ calls < MaxCalls /\ rcPending[r] < 0
    /\ calls' = calls + 1
    /\ rcPending' = [rcPending EXCEPT ![r] = 0]
    /\ lookups' = [lookups EXCEPT ![r] = @ + 1]
    /\ UNCHANGED <<msgVars, makerVars, jobVars, workerVars, linkVars, main,
                   crashed>>

\* HandleDHTLookupResult: nothing found, a router that is not allowed, an RC
\* that CheckRC refuses, or an RC
HandleDHTLookupResult(r, result, haslink) ==
    /\ main = Idle /\ lookups[r] > 0
    /\ lookups' = [lookups EXCEPT ![r] = @ - 1]
    /\ RCFinalizeRequest(r, 0, result, haslink)
    /\ UNCHANGED <<msgVars, timeoutJobs, workerVars, linkVars, main, calls,
                   crashed>>

-----------------------------------------------------------------------------
(* Logic jobs                                                              *)

\* mutant: a refused TryEstablishTo is not reported
DoEstablish_Silent(r, established) ==
    /\ main = Idle /\ establishJobs[r] > 0
    /\ establishJobs' = [establishJobs EXCEPT ![r] = @ - 1]
    /\ IF pendingSessions[r] = "link" /\ established
       THEN NewSession(r, "pending")
       ELSE UNCHANGED linkVars
    /\ UNCHANGED <<makerVars, msgVars, rcVars, resultJobs, timeoutJobs, workerVars,
                   main, calls, crashed>>

\* DoEstablish.  TryEstablishTo adds a pending link session (unless it has too
\* many); an entry that was made anew, and has no RC yet, is a null pointer.
DoEstablish(r, established) ==
    /\ main = Idle /\ establishJobs[r] > 0
    /\ establishJobs' = [establishJobs EXCEPT ![r] = @ - 1]
    /\ CASE pendingSessions[r] = "none" ->
              UNCHANGED <<makerVars, resultJobs, linkVars, crashed>>
         [] pendingSessions[r] = "null" ->
              crashed' = TRUE /\ UNCHANGED <<makerVars, resultJobs, linkVars>>
         [] pendingSessions[r] = "link" /\ established ->
              NewSession(r, "pending") /\ UNCHANGED <<makerVars, resultJobs, crashed>>
         [] pendingSessions[r] = "link" /\ ~established ->
              FinalizeRequest(r, "NoLink") /\ UNCHANGED <<linkVars, crashed>>
    /\ UNCHANGED <<msgVars, rcVars, timeoutJobs, workerVars, main, calls>>

\* OutboundMessageHandler::OnSessionResult and FinalizeRequest: every waiting
\* message is sent, or its callback is called.  Without a session any more,
\* LinkManager::SendTo completes the message as dropped.
OnSessionResult(r, type) ==
    LET waiting == outboundMessageQueue[r]
    IN  /\ main = Idle /\ resultJobs[r][type] > 0
        /\ resultJobs' = [resultJobs EXCEPT ![r][type] = @ - 1]
        /\ outboundMessageQueue' = [outboundMessageQueue EXCEPT ![r] = {}]
        /\ IF type = "Establish" /\ HasSessionTo(r)
           THEN SendTo(r, waiting) /\ UNCHANGED reported
           ELSE /\ reported' = [m \in Msgs |-> IF m \in waiting THEN reported[m] + 1
                                               ELSE reported[m]]
                /\ UNCHANGED sentOn
        /\ UNCHANGED <<accepted, makerVars, rcVars, establishJobs, timeoutJobs,
                       workerVars, linkVars, main, calls, crashed>>

\* OnConnectTimeout, called by the job ILinkLayer::Pump queued
OnConnectTimeout(r) ==
    /\ main = Idle /\ timeoutJobs[r] > 0
    /\ timeoutJobs' = [timeoutJobs EXCEPT ![r] = @ - 1]
    /\ FinalizeRequest(r, "Timeout")
    /\ UNCHANGED <<msgVars, rcVars, establishJobs, workerVars, linkVars, main,
                   calls, crashed>>

-----------------------------------------------------------------------------
(* Link sessions.  OnSessionEstablished is called for both directions.     *)

OnSessionEstablished(r, allowed) ==
    IF allowed
    THEN /\ verifying' = [verifying EXCEPT ![r] = @ + 1]
         /\ UNCHANGED <<makerVars, resultJobs>>
    ELSE FinalizeRequest(r, "InvalidRouter") /\ UNCHANGED verifying

OutboundEstablished(s, allowed) ==
    /\ main = Idle /\ sState[s] = "pending"
    /\ sState' = [sState EXCEPT ![s] = "authed"]
    /\ OnSessionEstablished(sRouter[s], allowed)
    /\ UNCHANGED <<msgVars, rcVars, establishJobs, timeoutJobs, erasing, sRouter,
                   main, calls, crashed>>

InboundEstablished(r, allowed) ==
    /\ main = Idle /\ permitInbound
    /\ NewSession(r, "authed")
    /\ OnSessionEstablished(r, allowed)
    /\ UNCHANGED <<msgVars, rcVars, establishJobs, timeoutJobs, erasing,
                   main, calls, crashed>>

\* mutant: the session is dropped without HandleTimeout
PendingTimedOut_Silent(s) ==
    /\ main = Idle /\ sState[s] = "pending"
    /\ sState' = [sState EXCEPT ![s] = "gone"]
    /\ UNCHANGED <<msgVars, makerVars, rcVars, jobVars, workerVars, sRouter, main,
                   calls, crashed>>

\* ILinkLayer::Pump on a pending session that timed out defers HandleTimeout
PendingTimedOut(s) ==
    /\ main = Idle /\ sState[s] = "pending"
    /\ sState' = [sState EXCEPT ![s] = "gone"]
    /\ timeoutJobs' = [timeoutJobs EXCEPT ![sRouter[s]] = @ + 1]
    /\ UNCHANGED <<msgVars, makerVars, rcVars, establishJobs, resultJobs,
                   workerVars, sRouter, main, calls, crashed>>

\* ILinkLayer::Pump on an established session that timed out: its messages are
\* destroyed with it
SessionTimedOut(s) ==
    /\ main = Idle /\ sState[s] = "authed"
    /\ sState' = [sState EXCEPT ![s] = "gone"]
    /\ UNCHANGED <<msgVars, makerVars, rcVars, jobVars, workerVars, sRouter,
                   main, calls, crashed>>

\* mutant: the completion handler is not cleared when it is called
MessageCompleted_Again(m) ==
    /\ main = Idle /\ sentOn[m] # NoSession /\ sState[sentOn[m]] = "authed"
    /\ reported[m] < 2
    /\ reported' = [reported EXCEPT ![m] = @ + 1]
    /\ UNCHANGED <<sentOn, outboundMessageQueue, accepted, makerVars, rcVars, jobVars,
                   workerVars, linkVars, main, calls, crashed>>

\* The session completes a message: Send's handler calls DoCallback
MessageCompleted(m) ==
    /\ main = Idle /\ sentOn[m] # NoSession /\ sState[sentOn[m]] = "authed"
    /\ sentOn' = [sentOn EXCEPT ![m] = NoSession]
    /\ reported' = [reported EXCEPT ![m] = @ + 1]
    /\ UNCHANGED <<outboundMessageQueue, accepted, makerVars, rcVars, jobVars,
                   workerVars, linkVars, main, calls, crashed>>

-----------------------------------------------------------------------------
(* The worker: VerifyRC, which ends in FinalizeRequest                     *)

\* VerifyRC and FinalizeRequest up to the end of its first critical section
VerifyRC(r, type) ==
    /\ verifying[r] > 0
    /\ verifying' = [verifying EXCEPT ![r] = @ - 1]
    /\ erasing' = [erasing EXCEPT ![r] = @ + 1]
    /\ TakeCallbacks(r, type)
    /\ UNCHANGED <<msgVars, pendingSessions, deadEnd, rcVars, establishJobs,
                   timeoutJobs, linkVars, main, calls, crashed>>

\* FinalizeRequest, second critical section.  A callback registered since the
\* first loses the pending session it relied on.
ErasePending(r) ==
    /\ erasing[r] > 0
    /\ erasing' = [erasing EXCEPT ![r] = @ - 1]
    /\ pendingSessions' = [pendingSessions EXCEPT ![r] = "none"]
    /\ deadEnd' = [deadEnd EXCEPT ![r] =
                      IF pendingCallbacks[r] > 0 THEN "Raced" ELSE "no"]
    /\ UNCHANGED <<msgVars, pendingCallbacks, rcVars, jobVars, verifying,
                   linkVars, main, calls, crashed>>

-----------------------------------------------------------------------------
LookupResult == {"Success", "InvalidRouter", "RouterNotFound", "BadRC"}

MainNext ==
    \/ \E m \in Msgs, r \in Routers : QueueMessage(m, r)
    \/ \E r \in Routers : CheckPersistingSession(r)
    \/ \E r \in Routers, haslink \in BOOLEAN : CreateSessionToRC(r, haslink)
    \/ CheckPending
    \/ \E haslink \in BOOLEAN : GetRCFromNodeDB(haslink)
    \/ GetRCByLookup
    \/ GetRCNobodyToAsk
    \/ \E r \in Routers, haslink \in BOOLEAN : LookupKnownRouter(r, haslink)
    \/ \E r \in Routers : LookupRouter(r)
    \/ \E r \in Routers, result \in LookupResult, haslink \in BOOLEAN :
          HandleDHTLookupResult(r, result, haslink)
    \/ \E r \in Routers, established \in BOOLEAN : DoEstablish(r, established)
    \/ \E r \in Routers, type \in SessionResult : OnSessionResult(r, type)
    \/ \E r \in Routers : OnConnectTimeout(r)
    \/ \E s \in Sessions, allowed \in BOOLEAN : OutboundEstablished(s, allowed)
    \/ \E r \in Routers, allowed \in BOOLEAN : InboundEstablished(r, allowed)
    \/ \E s \in Sessions : PendingTimedOut(s)
    \/ \E s \in Sessions : SessionTimedOut(s)
    \/ \E m \in Msgs : MessageCompleted(m)

WorkerNext ==
    \E r \in Routers :
       \/ \E type \in {"Establish", "InvalidRouter"} : VerifyRC(r, type)
       \/ ErasePending(r)

Next == ~crashed /\ (MainNext \/ WorkerNext)

Spec == Init /\ [][Next]_vars

(***************************************************************************)
(* The main thread keeps running its jobs and timers, a worker its jobs;   *)
(* the DHT answers a lookup or times it out, a pending link session is     *)
(* established or times out, a session completes its messages.             *)
(***************************************************************************)
FairSpec ==
    /\ Spec
    /\ WF_vars(~crashed /\ (CheckPending \/ GetRCByLookup
                              \/ \E h \in BOOLEAN : GetRCFromNodeDB(h)))
    /\ \A r \in Routers :
          /\ WF_vars(~crashed /\ \E t \in {"Establish", "InvalidRouter"} : VerifyRC(r, t))
          /\ WF_vars(~crashed /\ ErasePending(r))
          /\ SF_vars(~crashed /\ \E t \in SessionResult : OnSessionResult(r, t))
          /\ SF_vars(~crashed /\ OnConnectTimeout(r))
          /\ SF_vars(~crashed /\ \E b \in BOOLEAN : DoEstablish(r, b))
          /\ SF_vars(~crashed /\ \E res \in LookupResult, h \in BOOLEAN :
                        HandleDHTLookupResult(r, res, h))
    /\ \A s \in Sessions : SF_vars(~crashed /\ PendingTimedOut(s))

-----------------------------------------------------------------------------
\* Types: no count of jobs, callbacks or lookups is negative, an RC lookup has an
\* entry or none (-1), and a link session that was made knows its router.
TypeOK ==
    /\ outboundMessageQueue \in [Routers -> SUBSET Msgs]
    /\ sentOn \in [Msgs -> Sessions \cup {NoSession}]
    /\ reported \in [Msgs -> Nat]
    /\ accepted \in SUBSET Msgs
    /\ pendingSessions \in [Routers -> {"none", "null", "link"}]
    /\ pendingCallbacks \in [Routers -> Nat]
    /\ rcPending \in [Routers -> Nat \cup {-1}]
    /\ lookups \in [Routers -> Nat]
    /\ establishJobs \in [Routers -> Nat]
    /\ resultJobs \in [Routers -> [SessionResult -> Nat]]
    /\ timeoutJobs \in [Routers -> Nat]
    /\ main \in {Idle} \cup [at : {"check", "lookup"}, router : Routers]
    /\ verifying \in [Routers -> Nat]
    /\ erasing \in [Routers -> Nat]
    /\ sRouter \in [Sessions -> Routers \cup {NoRouter}]
    /\ sState \in [Sessions -> {"unused", "pending", "authed", "gone"}]
    /\ \A s \in Sessions : sState[s] # "unused" => sRouter[s] \in Routers
    /\ calls \in Nat
    /\ crashed \in BOOLEAN
    /\ deadEnd \in [Routers -> {"no", "BadRC", "NotConnecting", "Raced"}]

Waiters(r) == pendingCallbacks[r] + resultJobs[r]["Establish"]
                + resultJobs[r]["Timeout"] + resultJobs[r]["RouterNotFound"]
                + resultJobs[r]["InvalidRouter"] + resultJobs[r]["NoLink"]

\* The queue of a router has exactly one OnSessionResult outstanding while
\* messages wait in it, and none otherwise, whatever the main thread and the
\* workers finalize: QueueMessage asks for a session when it creates the queue
\* only, and nobody else would drain it.
ExactlyOneWaiter ==
    \A r \in Routers :
       Waiters(r) = IF outboundMessageQueue[r] = {} THEN 0 ELSE 1

Waits(m) == \E r \in Routers : m \in outboundMessageQueue[r]

\* A message handed to QueueMessage is in one place: it waits for a session, or
\* was given to a session that has not completed it, or its SendStatusHandler
\* was called once.  Nothing is dropped silently on the way to a session and
\* nothing is both sent and reported.  (A session that times out destroys its
\* messages without calling their handlers: they stay on it for ever.)
MessageAccounted ==
    \A m \in accepted :
       /\ \A r, q \in Routers :
             m \in outboundMessageQueue[r] /\ m \in outboundMessageQueue[q] => r = q
       /\ \/ Waits(m) /\ sentOn[m] = NoSession /\ reported[m] = 0
          \/ ~Waits(m) /\ sentOn[m] # NoSession /\ reported[m] = 0
          \/ ~Waits(m) /\ sentOn[m] = NoSession /\ reported[m] = 1

\* Something is under way that ends in FinalizeRequest for r
Attended(r) ==
    \/ main # Idle /\ main.router = r
    \/ verifying[r] > 0 \/ timeoutJobs[r] > 0
    \/ \E s \in Sessions : sState[s] = "pending" /\ sRouter[s] = r
    \/ pendingSessions[r] # "none" /\ establishJobs[r] > 0
    \/ pendingSessions[r] = "null" /\ rcPending[r] > 0 /\ lookups[r] > 0

\* Waiting messages are abandoned only by one of the three code paths that
\* leave a request without anything to finalize it: an RC that CheckRC
\* refuses, a router ShouldConnectTo refuses, and a worker erasing the pending
\* session of a request made between FinalizeRequest's critical sections.
AbandonedOnlyAtDeadEnds ==
    \A r \in Routers :
       pendingCallbacks[r] > 0 =>
          Attended(r) \/ erasing[r] > 0 \/ deadEnd[r] # "no"

\* Outside those paths, a message queued for a router leaves the queue; unless
\* the process ends before: a DoEstablish job left over from an attempt that
\* was finalized meanwhile finds the pending session of the next attempt, which
\* is a null pointer until its RC is there, and dereferences it.
QueueDrains ==
    \A r \in Routers :
       outboundMessageQueue[r] # {} ~>
          (outboundMessageQueue[r] = {} \/ deadEnd[r] # "no" \/ crashed)
=============================================================================
