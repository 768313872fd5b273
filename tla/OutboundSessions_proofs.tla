----------------------- MODULE OutboundSessions_proofs -----------------------
(***************************************************************************)
(* For any routers, messages and bounds: the queue of a router always has  *)
(* the one OnSessionResult that will drain it, every message handed to     *)
(* QueueMessage is in one place, and a request for a session is left with  *)
(* nothing to end it only on three paths of the code.                      *)
(***************************************************************************)
EXTENDS OutboundSessions, TLAPS

\* A message that was not handed to QueueMessage is nowhere
NotYetAccepted ==
    \A m \in Msgs \ accepted :
       ~Waits(m) /\ sentOn[m] = NoSession /\ reported[m] = 0

\* The inductive invariant
IInv == TypeOK /\ ExactlyOneWaiter /\ NotYetAccepted /\ MessageAccounted

-----------------------------------------------------------------------------
\* The initial state, with no message and no request, satisfies the invariant.
LEMMA InitIInv == Init => IInv
  <1> SUFFICES ASSUME Init PROVE IInv
    OBVIOUS
  <1> USE OutboundAssumption DEF Init
  <1>1. TypeOK
    BY Zenon DEF TypeOK, Idle, NoSession, NoRouter, Sessions, SessionResult
  <1>2. ExactlyOneWaiter
    BY DEF ExactlyOneWaiter, Waiters, SessionResult
  <1>3. NotYetAccepted /\ MessageAccounted
    BY DEF NotYetAccepted, MessageAccounted, Waits
  <1>. QED
    BY <1>1, <1>2, <1>3 DEF IInv

(***************************************************************************)
(* Actions that leave the messages alone and only move callbacks from      *)
(* pendingCallbacks to the logic: MoveCallbacks says so, WaitersKept and   *)
(* MessagesKept that such a step keeps the last three conjuncts.           *)
(***************************************************************************)
MoveCallbacks ==
    \/ UNCHANGED <<pendingCallbacks, resultJobs>>
    \/ \E r \in Routers, type \in SessionResult : TakeCallbacks(r, type)

\* Moving callbacks from pendingCallbacks to the logic loses and adds no waiter.
LEMMA WaitersKept ==
    ASSUME TypeOK, ExactlyOneWaiter, MoveCallbacks, UNCHANGED outboundMessageQueue
    PROVE  ExactlyOneWaiter'
  <1>1. CASE UNCHANGED <<pendingCallbacks, resultJobs>>
    BY <1>1 DEF ExactlyOneWaiter, Waiters
  <1>2. CASE \E r \in Routers, type \in SessionResult : TakeCallbacks(r, type)
    <2>1. PICK r \in Routers, type \in SessionResult : TakeCallbacks(r, type)
      BY <1>2
    <2>2. SUFFICES ASSUME NEW q \in Routers PROVE Waiters(q)' = Waiters(q)
      BY DEF ExactlyOneWaiter
    <2>3. /\ pendingCallbacks[q] \in Nat /\ \A t \in SessionResult : resultJobs[q][t] \in Nat
          /\ resultJobs[r] \in [SessionResult -> Nat]
          /\ resultJobs \in [Routers -> [SessionResult -> Nat]]
      BY DEF TypeOK
    <2>4. CASE q # r
      BY <2>1, <2>3, <2>4 DEF Waiters, TakeCallbacks, TypeOK
    <2>5. CASE q = r
      <3>1. /\ pendingCallbacks'[q] = 0
            /\ resultJobs'[q] = [resultJobs[q] EXCEPT ![type] = @ + pendingCallbacks[q]]
        BY <2>1, <2>3, <2>5 DEF TakeCallbacks, TypeOK
      <3>2. resultJobs'[q][type] = resultJobs[q][type] + pendingCallbacks[q]
        BY <3>1, <2>3, <2>5
      <3>3. \A t \in SessionResult \ {type} : resultJobs'[q][t] = resultJobs[q][t]
        BY <3>1, <2>3, <2>5
      <3>. QED
        BY <3>1, <3>2, <3>3, <2>3, <2>1 DEF Waiters, SessionResult
    <2>. QED
      BY <2>4, <2>5
  <1>. QED
    BY <1>1, <1>2 DEF MoveCallbacks

\* A step that leaves the message handler alone keeps every message accounted.
LEMMA MessagesKept ==
    ASSUME NotYetAccepted, MessageAccounted, UNCHANGED msgVars
    PROVE  (NotYetAccepted /\ MessageAccounted)'
  BY DEF NotYetAccepted, MessageAccounted, Waits, msgVars


\* The types of the state the session maker's own functions write
MakerTypes ==
    /\ pendingSessions \in [Routers -> {"none", "null", "link"}]
    /\ pendingCallbacks \in [Routers -> Nat]
    /\ establishJobs \in [Routers -> Nat]
    /\ resultJobs \in [Routers -> [SessionResult -> Nat]]
    /\ deadEnd \in [Routers -> {"no", "BadRC", "NotConnecting", "Raced"}]

\* The first critical section of FinalizeRequest keeps the maker's types.
LEMMA TakeCallbacksTypes ==
    ASSUME MakerTypes, NEW r \in Routers, NEW type \in SessionResult,
           TakeCallbacks(r, type)
    PROVE  /\ pendingCallbacks' \in [Routers -> Nat]
           /\ resultJobs' \in [Routers -> [SessionResult -> Nat]]
  <1>1. resultJobs[r] \in [SessionResult -> Nat] /\ pendingCallbacks[r] \in Nat
    BY DEF MakerTypes
  <1>2. [resultJobs[r] EXCEPT ![type] = @ + pendingCallbacks[r]] \in [SessionResult -> Nat]
    BY <1>1
  <1>3. resultJobs' = [resultJobs EXCEPT ![r] =
                         [resultJobs[r] EXCEPT ![type] = @ + pendingCallbacks[r]]]
    BY <1>1 DEF TakeCallbacks, MakerTypes
  <1>4. resultJobs' \in [Routers -> [SessionResult -> Nat]]
    BY <1>2, <1>3 DEF MakerTypes
  <1>. QED
    BY <1>4 DEF TakeCallbacks, MakerTypes

\* FinalizeRequest keeps the maker's types and only moves callbacks.
LEMMA FinalizeRequestKeeps ==
    ASSUME MakerTypes, NEW r \in Routers, NEW type \in SessionResult,
           FinalizeRequest(r, type), UNCHANGED establishJobs
    PROVE  MakerTypes' /\ MoveCallbacks
  <1>1. TakeCallbacks(r, type)
    BY DEF FinalizeRequest
  <1>2. /\ pendingCallbacks' \in [Routers -> Nat]
        /\ resultJobs' \in [Routers -> [SessionResult -> Nat]]
    BY <1>1, TakeCallbacksTypes
  <1>3. /\ pendingSessions' \in [Routers -> {"none", "null", "link"}]
        /\ deadEnd' \in [Routers -> {"no", "BadRC", "NotConnecting", "Raced"}]
    BY DEF FinalizeRequest, MakerTypes
  <1>. QED
    BY <1>1, <1>2, <1>3 DEF MakerTypes, MoveCallbacks

\* So does GotRouterContact, with a link layer for the RC or without.
LEMMA GotRouterContactKeeps ==
    ASSUME MakerTypes, NEW r \in Routers, NEW n \in Nat, NEW haslink \in BOOLEAN,
           GotRouterContact(r, n, haslink)
    PROVE  MakerTypes' /\ MoveCallbacks
  <1>1. CASE haslink
    <2>1. establishJobs' \in [Routers -> Nat]
      BY <1>1 DEF GotRouterContact, MakerTypes
    <2>2. /\ pendingSessions' \in [Routers -> {"none", "null", "link"}]
          /\ deadEnd' \in [Routers -> {"no", "BadRC", "NotConnecting", "Raced"}]
      BY Zenon, <1>1 DEF GotRouterContact, MakerTypes
    <2>. QED
      BY <1>1, <2>1, <2>2 DEF GotRouterContact, MakerTypes, MoveCallbacks
  <1>2. CASE ~haslink
    BY <1>2, FinalizeRequestKeeps DEF GotRouterContact, SessionResult
  <1>. QED
    BY <1>1, <1>2

\* So does OnRouterContactResult, for every result of a lookup.
LEMMA OnRouterContactResultKeeps ==
    ASSUME MakerTypes, NEW r \in Routers, NEW n \in Nat, NEW haslink \in BOOLEAN,
           NEW result \in LookupResult, OnRouterContactResult(r, n, result, haslink)
    PROVE  MakerTypes' /\ MoveCallbacks
  <1>1. CASE n <= 0 \/ pendingSessions[r] = "none"
    BY <1>1 DEF OnRouterContactResult, makerVars, MakerTypes, MoveCallbacks
  <1>2. CASE ~(n <= 0 \/ pendingSessions[r] = "none")
    <2>1. CASE result = "Success"
      BY <1>2, <2>1, GotRouterContactKeeps DEF OnRouterContactResult
    <2>2. CASE result = "BadRC"
      BY <1>2, <2>2 DEF OnRouterContactResult, MakerTypes, MoveCallbacks
    <2>3. CASE result \in {"InvalidRouter", "RouterNotFound"}
      <3>1. FinalizeRequest(r, result) /\ UNCHANGED establishJobs
        BY <1>2, <2>3 DEF OnRouterContactResult
      <3>. QED
        BY <2>3, <3>1, FinalizeRequestKeeps DEF SessionResult
    <2>. QED
      BY <2>1, <2>2, <2>3 DEF LookupResult
  <1>. QED
    BY <1>1, <1>2

\* So does the lookup handler's FinalizeRequest, which calls it.
LEMMA RCFinalizeRequestKeeps ==
    ASSUME TypeOK, NEW r \in Routers, NEW own \in Nat, NEW haslink \in BOOLEAN,
           NEW result \in LookupResult, RCFinalizeRequest(r, own, result, haslink)
    PROVE  MakerTypes' /\ MoveCallbacks /\ rcPending' \in [Routers -> Nat \cup {-1}]
  <1>1. own + (IF rcPending[r] < 0 THEN 0 ELSE rcPending[r]) \in Nat
    <2>1. rcPending[r] \in Nat \cup {-1}
      BY Zenon DEF TypeOK
    <2>. QED
      BY <2>1
  <1>2. MakerTypes
    BY DEF TypeOK, MakerTypes
  <1>3. MakerTypes' /\ MoveCallbacks
    BY <1>1, <1>2, OnRouterContactResultKeeps DEF RCFinalizeRequest
  <1>. QED
    BY <1>3 DEF RCFinalizeRequest, TypeOK

-----------------------------------------------------------------------------
(* The actions, type by type.  Quiet: what every action but three does.    *)

Quiet == TypeOK' /\ MoveCallbacks /\ UNCHANGED msgVars

\* Within CreateSessionTo the main thread works on a router.
LEMMA MainIsAt ==
    ASSUME TypeOK, main # Idle
    PROVE  main.router \in Routers
  BY DEF TypeOK

\* The types of the link sessions
LinkTypes ==
    /\ sRouter \in [Sessions -> Routers \cup {NoRouter}]
    /\ sState \in [Sessions -> {"unused", "pending", "authed", "gone"}]
    /\ \A s \in Sessions : sState[s] # "unused" => sRouter[s] \in Routers

\* A new link session keeps the types of the sessions.
LEMMA NewSessionTypes ==
    ASSUME LinkTypes, NEW r \in Routers, NEW state \in {"pending", "authed"},
           NewSession(r, state)
    PROVE  LinkTypes'
  BY DEF LinkTypes, NewSession

\* The session maker's steps keep the types and only move callbacks.
LEMMA SessionMakerQuiet ==
    ASSUME TypeOK,
           \/ \E r \in Routers : CheckPersistingSession(r)
           \/ \E r \in Routers, haslink \in BOOLEAN : CreateSessionToRC(r, haslink)
           \/ CheckPending
           \/ \E r \in Routers, established \in BOOLEAN : DoEstablish(r, established)
           \/ \E r \in Routers : OnConnectTimeout(r)
    PROVE  Quiet
  <1>0. MakerTypes
    BY DEF TypeOK, MakerTypes
  <1>1. ASSUME NEW r \in Routers, CheckPersistingSession(r) PROVE Quiet
    <2>1. main' \in {Idle} \cup [at : {"check", "lookup"}, router : Routers]
      BY <1>1 DEF CheckPersistingSession
    <2>2. calls' \in Nat
      BY <1>1 DEF CheckPersistingSession, TypeOK
    <2>. QED
      BY Zenon, <1>1, <2>1, <2>2 DEF CheckPersistingSession, TypeOK, Quiet, MoveCallbacks,
         makerVars, rcVars, jobVars, workerVars, linkVars, msgVars
  <1>2. ASSUME NEW r \in Routers, NEW haslink \in BOOLEAN, CreateSessionToRC(r, haslink)
        PROVE  Quiet
    <2>1. MakerTypes' /\ MoveCallbacks
      BY <1>0, <1>2, GotRouterContactKeeps DEF CreateSessionToRC
    <2>2. calls' \in Nat
      BY <1>2 DEF CreateSessionToRC, TypeOK
    <2>. QED
      BY Zenon, <1>2, <2>1, <2>2 DEF CreateSessionToRC, TypeOK, MakerTypes, Quiet,
         rcVars, workerVars, linkVars, msgVars
  <1>3. ASSUME CheckPending PROVE Quiet
    <2>1. main.router \in Routers
      BY <1>3, MainIsAt DEF CheckPending, Idle
    <2>2. main' \in {Idle} \cup [at : {"check", "lookup"}, router : Routers]
      BY <1>3, <2>1 DEF CheckPending
    <2>3. /\ pendingSessions' \in [Routers -> {"none", "null", "link"}]
          /\ deadEnd' \in [Routers -> {"no", "BadRC", "NotConnecting", "Raced"}]
      <3>1. CASE pendingSessions[main.router] # "none"
        BY Zenon, <1>3, <3>1 DEF CheckPending, TypeOK
      <3>2. CASE pendingSessions[main.router] = "none"
        <4>1. /\ pendingSessions' = [pendingSessions EXCEPT ![main.router] = "null"]
              /\ deadEnd' = [deadEnd EXCEPT ![main.router] = "no"]
          BY Zenon, <1>3, <3>2 DEF CheckPending
        <4>2. /\ pendingSessions \in [Routers -> {"none", "null", "link"}]
              /\ deadEnd \in [Routers -> {"no", "BadRC", "NotConnecting", "Raced"}]
          BY Zenon DEF TypeOK
        <4>. QED
          BY <2>1, <4>1, <4>2
      <3>. QED
        BY <3>1, <3>2
    <2>. QED
      BY Zenon, <1>3, <2>2, <2>3 DEF CheckPending, TypeOK, Quiet, MoveCallbacks,
         rcVars, jobVars, workerVars, linkVars, msgVars
  <1>4. ASSUME NEW r \in Routers, NEW established \in BOOLEAN, DoEstablish(r, established)
        PROVE  Quiet
    <2>1. establishJobs' \in [Routers -> Nat]
      BY <1>4 DEF DoEstablish, TypeOK
    <2>2. /\ MoveCallbacks
          /\ pendingSessions' \in [Routers -> {"none", "null", "link"}]
          /\ pendingCallbacks' \in [Routers -> Nat]
          /\ resultJobs' \in [Routers -> [SessionResult -> Nat]]
          /\ deadEnd' \in [Routers -> {"no", "BadRC", "NotConnecting", "Raced"}]
      <3>1. CASE FinalizeRequest(r, "NoLink")
        BY <1>0, <3>1, TakeCallbacksTypes
           DEF FinalizeRequest, MakerTypes, MoveCallbacks, SessionResult
      <3>2. CASE UNCHANGED <<makerVars, resultJobs>>
        BY <1>0, <3>2 DEF makerVars, MakerTypes, MoveCallbacks
      <3>3. CASE pendingSessions[r] = "none"
        BY <1>4, <3>2, <3>3 DEF DoEstablish
      <3>4. CASE pendingSessions[r] = "null"
        BY <1>4, <3>2, <3>4 DEF DoEstablish
      <3>5. CASE pendingSessions[r] = "link" /\ established
        BY <1>4, <3>2, <3>5 DEF DoEstablish
      <3>6. CASE pendingSessions[r] = "link" /\ ~established
        BY <1>4, <3>1, <3>6 DEF DoEstablish
      <3>. QED
        BY <1>0, <1>4, <3>3, <3>4, <3>5, <3>6 DEF MakerTypes
    <2>3. LinkTypes'
      BY Zenon, <1>4, NewSessionTypes DEF DoEstablish, LinkTypes, TypeOK, linkVars
    <2>4. crashed' \in BOOLEAN
      BY Zenon, <1>4 DEF DoEstablish, TypeOK
    <2>. QED
      BY Zenon, <1>4, <2>1, <2>2, <2>3, <2>4 DEF DoEstablish, TypeOK, LinkTypes, Quiet,
         rcVars, workerVars, msgVars
  <1>5. ASSUME NEW r \in Routers, OnConnectTimeout(r) PROVE Quiet
    <2>1. MakerTypes' /\ MoveCallbacks
      BY <1>0, <1>5, FinalizeRequestKeeps DEF OnConnectTimeout, SessionResult
    <2>2. timeoutJobs' \in [Routers -> Nat]
      BY <1>5 DEF OnConnectTimeout, TypeOK
    <2>. QED
      BY Zenon, <1>5, <2>1, <2>2 DEF OnConnectTimeout, TypeOK, MakerTypes, Quiet,
         rcVars, workerVars, linkVars, msgVars
  <1>. QED
    BY <1>1, <1>2, <1>3, <1>4, <1>5

\* So do the steps of the RC lookup handler.
LEMMA RCLookupQuiet ==
    ASSUME TypeOK,
           \/ \E haslink \in BOOLEAN : GetRCFromNodeDB(haslink)
           \/ GetRCByLookup
           \/ GetRCNobodyToAsk
           \/ \E r \in Routers, haslink \in BOOLEAN : LookupKnownRouter(r, haslink)
           \/ \E r \in Routers : LookupRouter(r)
           \/ \E r \in Routers, result \in LookupResult, haslink \in BOOLEAN :
                 HandleDHTLookupResult(r, result, haslink)
    PROVE  Quiet
  <1>1. ASSUME NEW haslink \in BOOLEAN, GetRCFromNodeDB(haslink) PROVE Quiet
    <2>1. main.router \in Routers
      BY <1>1, MainIsAt DEF GetRCFromNodeDB, Idle
    <2>2. MakerTypes' /\ MoveCallbacks /\ rcPending' \in [Routers -> Nat \cup {-1}]
      BY <1>1, <2>1, RCFinalizeRequestKeeps DEF GetRCFromNodeDB, LookupResult
    <2>. QED
      BY Zenon, <1>1, <2>2 DEF GetRCFromNodeDB, TypeOK, MakerTypes, Quiet, workerVars,
         linkVars, msgVars
  <1>2. ASSUME GetRCByLookup PROVE Quiet
    <2>1. main.router \in Routers
      BY <1>2, MainIsAt DEF GetRCByLookup, Idle
    <2>2. rcPending' \in [Routers -> Nat \cup {-1}] /\ lookups' \in [Routers -> Nat]
      <3>1. /\ rcPending[main.router] \in Nat \cup {-1} /\ lookups[main.router] \in Nat
            /\ rcPending \in [Routers -> Nat \cup {-1}] /\ lookups \in [Routers -> Nat]
        BY <2>1 DEF TypeOK
      <3>2. CASE rcPending[main.router] < 0
        BY <1>2, <2>1, <3>1, <3>2 DEF GetRCByLookup
      <3>3. CASE ~(rcPending[main.router] < 0)
        BY <1>2, <2>1, <3>1, <3>3 DEF GetRCByLookup
      <3>. QED
        BY <3>2, <3>3
    <2>. QED
      BY Zenon, <1>2, <2>2 DEF GetRCByLookup, TypeOK, Quiet, MoveCallbacks, makerVars,
         jobVars, workerVars, linkVars, msgVars
  <1>3. ASSUME GetRCNobodyToAsk PROVE Quiet
    <2>1. main.router \in Routers
      BY <1>3, MainIsAt DEF GetRCNobodyToAsk, Idle
    <2>2. MakerTypes' /\ MoveCallbacks /\ rcPending' \in [Routers -> Nat \cup {-1}]
      BY Zenon, <1>3, <2>1, RCFinalizeRequestKeeps DEF GetRCNobodyToAsk, LookupResult
    <2>. QED
      BY Zenon, <1>3, <2>2 DEF GetRCNobodyToAsk, TypeOK, MakerTypes, Quiet, workerVars,
         linkVars, msgVars
  <1>4. ASSUME NEW r \in Routers, LookupRouter(r) PROVE Quiet
    <2>1. rcPending' \in [Routers -> Nat \cup {-1}] /\ lookups' \in [Routers -> Nat]
      BY <1>4 DEF LookupRouter, TypeOK
    <2>2. calls' \in Nat
      BY <1>4 DEF LookupRouter, TypeOK
    <2>. QED
      BY Zenon, <1>4, <2>1, <2>2 DEF LookupRouter, TypeOK, Quiet, MoveCallbacks, makerVars,
         jobVars, workerVars, linkVars, msgVars
  <1>5. ASSUME NEW r \in Routers, NEW result \in LookupResult, NEW haslink \in BOOLEAN,
               HandleDHTLookupResult(r, result, haslink)
        PROVE  Quiet
    <2>1. MakerTypes' /\ MoveCallbacks /\ rcPending' \in [Routers -> Nat \cup {-1}]
      BY <1>5, RCFinalizeRequestKeeps DEF HandleDHTLookupResult
    <2>2. lookups' \in [Routers -> Nat]
      BY <1>5 DEF HandleDHTLookupResult, TypeOK
    <2>. QED
      BY Zenon, <1>5, <2>1, <2>2 DEF HandleDHTLookupResult, TypeOK, MakerTypes, Quiet,
         workerVars, linkVars, msgVars
  <1>6. ASSUME NEW r \in Routers, NEW haslink \in BOOLEAN, LookupKnownRouter(r, haslink)
        PROVE  Quiet
    <2>1. MakerTypes' /\ MoveCallbacks /\ rcPending' \in [Routers -> Nat \cup {-1}]
      BY <1>6, RCFinalizeRequestKeeps DEF LookupKnownRouter, LookupResult
    <2>2. calls' \in Nat
      BY <1>6 DEF LookupKnownRouter, TypeOK
    <2>. QED
      BY Zenon, <1>6, <2>1, <2>2 DEF LookupKnownRouter, TypeOK, MakerTypes, Quiet,
         workerVars, linkVars, msgVars
  <1>. QED
    BY <1>1, <1>2, <1>3, <1>4, <1>5, <1>6

\* OnSessionEstablished keeps the types and only moves callbacks.
LEMMA OnSessionEstablishedKeeps ==
    ASSUME MakerTypes, NEW r \in Routers, NEW allowed \in BOOLEAN,
           verifying \in [Routers -> Nat], OnSessionEstablished(r, allowed),
           UNCHANGED establishJobs
    PROVE  MakerTypes' /\ MoveCallbacks /\ verifying' \in [Routers -> Nat]
  <1>1. CASE allowed
    <2>1. verifying' = [verifying EXCEPT ![r] = @ + 1] /\ UNCHANGED <<makerVars, resultJobs>>
      BY <1>1 DEF OnSessionEstablished
    <2>2. verifying' \in [Routers -> Nat]
      BY <2>1
    <2>. QED
      BY <2>1, <2>2 DEF MakerTypes, MoveCallbacks, makerVars
  <1>2. CASE ~allowed
    BY <1>2, FinalizeRequestKeeps DEF OnSessionEstablished, SessionResult
  <1>. QED
    BY <1>1, <1>2

\* The link sessions' steps keep the types and only move callbacks.
LEMMA LinkQuiet ==
    ASSUME TypeOK,
           \/ \E s \in Sessions, allowed \in BOOLEAN : OutboundEstablished(s, allowed)
           \/ \E r \in Routers, allowed \in BOOLEAN : InboundEstablished(r, allowed)
           \/ \E s \in Sessions : PendingTimedOut(s)
           \/ \E s \in Sessions : SessionTimedOut(s)
    PROVE  Quiet
  <1>0. MakerTypes /\ LinkTypes
    BY DEF TypeOK, MakerTypes, LinkTypes
  <1>1. ASSUME NEW s \in Sessions, NEW allowed \in BOOLEAN, OutboundEstablished(s, allowed)
        PROVE  Quiet
    <2>1. sRouter[s] \in Routers
      BY <1>1, <1>0 DEF OutboundEstablished, LinkTypes
    <2>2. MakerTypes' /\ MoveCallbacks /\ verifying' \in [Routers -> Nat]
      BY <1>0, <1>1, <2>1, OnSessionEstablishedKeeps DEF OutboundEstablished, TypeOK
    <2>3. LinkTypes'
      BY <1>0, <1>1, <2>1 DEF OutboundEstablished, LinkTypes
    <2>. QED
      BY Zenon, <1>1, <2>2, <2>3 DEF OutboundEstablished, TypeOK, MakerTypes, LinkTypes, Quiet,
         rcVars, msgVars
  <1>2. ASSUME NEW r \in Routers, NEW allowed \in BOOLEAN, InboundEstablished(r, allowed)
        PROVE  Quiet
    <2>1. MakerTypes' /\ MoveCallbacks /\ verifying' \in [Routers -> Nat]
      BY <1>0, <1>2, OnSessionEstablishedKeeps DEF InboundEstablished, TypeOK
    <2>2. LinkTypes'
      BY <1>0, <1>2, NewSessionTypes DEF InboundEstablished
    <2>. QED
      BY Zenon, <1>2, <2>1, <2>2 DEF InboundEstablished, TypeOK, MakerTypes, LinkTypes, Quiet,
         rcVars, msgVars
  <1>3. ASSUME NEW s \in Sessions, PendingTimedOut(s) PROVE Quiet
    <2>1. LinkTypes'
      BY <1>0, <1>3 DEF PendingTimedOut, LinkTypes
    <2>2. timeoutJobs' \in [Routers -> Nat]
      BY <1>3 DEF PendingTimedOut, TypeOK
    <2>. QED
      BY Zenon, <1>3, <2>1, <2>2 DEF PendingTimedOut, TypeOK, LinkTypes, Quiet, MoveCallbacks,
         makerVars, rcVars, workerVars, msgVars
  <1>4. ASSUME NEW s \in Sessions, SessionTimedOut(s) PROVE Quiet
    <2>1. LinkTypes'
      BY <1>0, <1>4 DEF SessionTimedOut, LinkTypes
    <2>. QED
      BY Zenon, <1>4, <2>1 DEF SessionTimedOut, TypeOK, LinkTypes, Quiet, MoveCallbacks,
         makerVars, rcVars, jobVars, workerVars, msgVars
  <1>. QED
    BY <1>1, <1>2, <1>3, <1>4

\* So do the two critical sections of FinalizeRequest on a worker.
LEMMA WorkerQuiet ==
    ASSUME TypeOK, WorkerNext
    PROVE  Quiet
  <1>0. MakerTypes
    BY DEF TypeOK, MakerTypes
  <1>1. ASSUME NEW r \in Routers, NEW type \in {"Establish", "InvalidRouter"},
               VerifyRC(r, type)
        PROVE  Quiet
    <2>1. /\ pendingCallbacks' \in [Routers -> Nat]
          /\ resultJobs' \in [Routers -> [SessionResult -> Nat]]
      BY <1>0, <1>1, TakeCallbacksTypes DEF VerifyRC, SessionResult
    <2>2. MoveCallbacks
      BY <1>1 DEF VerifyRC, MoveCallbacks, SessionResult
    <2>3. verifying' \in [Routers -> Nat] /\ erasing' \in [Routers -> Nat]
      BY <1>1 DEF VerifyRC, TypeOK
    <2>. QED
      BY Zenon, <1>1, <2>1, <2>2, <2>3 DEF VerifyRC, TypeOK, Quiet, rcVars, linkVars, msgVars
  <1>2. ASSUME NEW r \in Routers, ErasePending(r) PROVE Quiet
    <2>1. /\ pendingSessions' \in [Routers -> {"none", "null", "link"}]
          /\ deadEnd' \in [Routers -> {"no", "BadRC", "NotConnecting", "Raced"}]
          /\ erasing' \in [Routers -> Nat]
      BY <1>2 DEF ErasePending, TypeOK
    <2>. QED
      BY Zenon, <1>2, <2>1 DEF ErasePending, TypeOK, Quiet, MoveCallbacks, rcVars, jobVars,
         linkVars, msgVars
  <1>. QED
    BY <1>1, <1>2 DEF WorkerNext

-----------------------------------------------------------------------------
(* The three actions that move messages                                    *)

\* SendTo puts each message on a session that was made, and leaves the others.
LEMMA SendToTypes ==
    ASSUME TypeOK, NEW r \in Routers, NEW ms \in SUBSET Msgs, SendTo(r, ms)
    PROVE  /\ sentOn' \in [Msgs -> Sessions \cup {NoSession}]
           /\ \A m \in Msgs \ ms : sentOn'[m] = sentOn[m]
           /\ \A m \in ms : sentOn'[m] # NoSession
  <1>1. PICK pick \in [ms -> AuthedWith(r)] :
           sentOn' = [m \in Msgs |-> IF m \in ms THEN pick[m] ELSE sentOn[m]]
    BY DEF SendTo
  <1>2. \A m \in ms : pick[m] \in Sessions /\ pick[m] # NoSession
    BY OutboundAssumption DEF AuthedWith, Sessions, NoSession
  <1>3. \A m \in Msgs : sentOn'[m] = IF m \in ms THEN pick[m] ELSE sentOn[m]
    BY <1>1
  <1>4. sentOn' \in [Msgs -> Sessions \cup {NoSession}]
    <2>1. \A m \in Msgs : sentOn[m] \in Sessions \cup {NoSession}
      BY DEF TypeOK
    <2>. QED
      BY <1>1, <1>2, <2>1
  <1>. QED
    BY <1>2, <1>3, <1>4

\* QueueMessage adds a waiter exactly when it creates the queue.
LEMMA QueueMessageKeeps ==
    ASSUME IInv, NEW m \in Msgs, NEW r \in Routers, QueueMessage(m, r)
    PROVE  IInv'
  <1> USE DEF IInv
  <1>0. m \notin accepted /\ accepted' = accepted \cup {m} /\ UNCHANGED reported
    BY DEF QueueMessage
  <1>00. ~Waits(m) /\ sentOn[m] = NoSession /\ reported[m] = 0
    BY <1>0 DEF NotYetAccepted
  <1>1. CASE HasSessionTo(r)
    <2>1. SendTo(r, {m}) /\ UNCHANGED <<outboundMessageQueue, pendingCallbacks, main>>
      BY <1>1 DEF QueueMessage
    <2>2. /\ sentOn' \in [Msgs -> Sessions \cup {NoSession}]
          /\ \A x \in Msgs \ {m} : sentOn'[x] = sentOn[x]
          /\ sentOn'[m] # NoSession
      BY Zenon, <2>1, SendToTypes
    <2>3. TypeOK'
      BY Zenon, <1>0, <2>1, <2>2
         DEF QueueMessage, TypeOK, rcVars, jobVars, workerVars, linkVars
    <2>4. ExactlyOneWaiter'
      BY Zenon, <2>1 DEF QueueMessage, ExactlyOneWaiter, Waiters, jobVars
    <2>5. NotYetAccepted' /\ MessageAccounted'
      BY <1>0, <1>00, <2>1, <2>2 DEF NotYetAccepted, MessageAccounted, Waits, TypeOK
    <2>. QED
      BY <2>3, <2>4, <2>5
  <1>2. CASE ~HasSessionTo(r)
    <2>1. /\ outboundMessageQueue' = [outboundMessageQueue EXCEPT ![r] = @ \cup {m}]
          /\ UNCHANGED sentOn
      BY <1>2 DEF QueueMessage
    <2>2. outboundMessageQueue' \in [Routers -> SUBSET Msgs]
      BY <2>1 DEF TypeOK
    <2>3. \A q \in Routers : outboundMessageQueue'[q] =
             IF q = r THEN outboundMessageQueue[r] \cup {m} ELSE outboundMessageQueue[q]
      BY Zenon, <2>1 DEF TypeOK
    <2>4. pendingCallbacks' \in [Routers -> Nat] /\ UNCHANGED resultJobs
      BY <1>2 DEF QueueMessage, TypeOK, jobVars
    <2>5. main' \in {Idle} \cup [at : {"check", "lookup"}, router : Routers]
      BY <1>2 DEF QueueMessage, TypeOK
    <2>6. TypeOK'
      BY Zenon, <1>0, <2>1, <2>2, <2>4, <2>5
         DEF QueueMessage, TypeOK, rcVars, jobVars, workerVars, linkVars
    <2>7. ExactlyOneWaiter'
      <3>1. SUFFICES ASSUME NEW q \in Routers
                     PROVE  Waiters(q)' = IF outboundMessageQueue'[q] = {} THEN 0 ELSE 1
        BY Zenon DEF ExactlyOneWaiter
      <3>2. /\ pendingCallbacks[q] \in Nat /\ \A t \in SessionResult : resultJobs[q][t] \in Nat
            /\ Waiters(q) = IF outboundMessageQueue[q] = {} THEN 0 ELSE 1
        BY DEF TypeOK, ExactlyOneWaiter
      <3>3. CASE q = r /\ outboundMessageQueue[r] = {}
        <4>1. pendingCallbacks'[q] = pendingCallbacks[q] + 1
          BY <1>2, <3>3 DEF QueueMessage, TypeOK
        <4>2. outboundMessageQueue'[q] # {}
          BY Zenon, <2>3, <3>3
        <4>. QED
          BY <2>4, <3>2, <3>3, <4>1, <4>2 DEF Waiters, SessionResult
      <3>4. CASE ~(q = r /\ outboundMessageQueue[r] = {})
        <4>1. pendingCallbacks'[q] = pendingCallbacks[q]
          BY <1>2, <3>4 DEF QueueMessage, TypeOK
        <4>2. outboundMessageQueue'[q] = {} <=> outboundMessageQueue[q] = {}
          BY Zenon, <2>3, <3>4
        <4>. QED
          BY Zenon, <2>4, <3>2, <4>1, <4>2 DEF Waiters
      <3>. QED
        BY <3>3, <3>4
    <2>8. \A x \in Msgs \ {m} : Waits(x)' <=> Waits(x)
      BY Zenon, <2>3 DEF Waits
    <2>9. Waits(m)'
      BY Zenon, <2>3 DEF Waits
    <2>10. NotYetAccepted'
      BY Zenon, <1>0, <2>1, <2>8 DEF NotYetAccepted
    <2>11. MessageAccounted'
      <3>1. \A r1, q \in Routers : \A x \in accepted' :
               x \in outboundMessageQueue'[r1] /\ x \in outboundMessageQueue'[q] => r1 = q
        BY <1>0, <1>00, <2>3 DEF MessageAccounted, Waits
      <3>. QED
        BY <1>0, <1>00, <2>1, <2>8, <2>9, <3>1 DEF MessageAccounted, TypeOK
    <2>. QED
      BY <2>6, <2>7, <2>10, <2>11
  <1>. QED
    BY <1>1, <1>2

\* A completed message moves from its session to its callback.
LEMMA MessageCompletedKeeps ==
    ASSUME IInv, NEW m \in Msgs, MessageCompleted(m)
    PROVE  IInv'
  <1> USE DEF IInv
  <1>1. m \in accepted
    BY DEF MessageCompleted, NotYetAccepted
  <1>2. TypeOK'
    <2>1. sentOn' \in [Msgs -> Sessions \cup {NoSession}] /\ reported' \in [Msgs -> Nat]
      BY DEF MessageCompleted, TypeOK
    <2>. QED
      BY Zenon, <2>1 DEF MessageCompleted, TypeOK, makerVars, rcVars, jobVars, workerVars, linkVars
  <1>3. ExactlyOneWaiter'
    BY Zenon DEF MessageCompleted, ExactlyOneWaiter, Waiters, makerVars, jobVars
  <1>4. \A x \in Msgs : Waits(x)' <=> Waits(x)
    BY Zenon DEF MessageCompleted, Waits
  <1>5. /\ \A x \in Msgs \ {m} : sentOn'[x] = sentOn[x] /\ reported'[x] = reported[x]
        /\ sentOn'[m] = NoSession /\ reported'[m] = reported[m] + 1
        /\ UNCHANGED <<accepted, outboundMessageQueue>> /\ sentOn[m] # NoSession
    BY DEF MessageCompleted, TypeOK
  <1>6. NotYetAccepted'
    BY Zenon, <1>1, <1>4, <1>5 DEF NotYetAccepted
  <1>7. MessageAccounted'
    <2>1. SUFFICES ASSUME NEW x \in accepted
                   PROVE  \/ Waits(x)' /\ sentOn'[x] = NoSession /\ reported'[x] = 0
                          \/ ~Waits(x)' /\ sentOn'[x] # NoSession /\ reported'[x] = 0
                          \/ ~Waits(x)' /\ sentOn'[x] = NoSession /\ reported'[x] = 1
      BY Zenon, <1>5 DEF MessageAccounted
    <2>2. x \in Msgs
      BY DEF TypeOK
    <2>3. CASE x = m
      BY <1>1, <1>4, <1>5, <2>2, <2>3 DEF MessageAccounted
    <2>4. CASE x # m
      BY Zenon, <1>4, <1>5, <2>2, <2>4 DEF MessageAccounted
    <2>. QED
      BY Zenon, <2>3, <2>4
  <1>. QED
    BY <1>2, <1>3, <1>6, <1>7

\* OnSessionResult consumes the one waiter and empties the queue with it.
LEMMA OnSessionResultKeeps ==
    ASSUME IInv, NEW r \in Routers, NEW type \in SessionResult, OnSessionResult(r, type)
    PROVE  IInv'
  <1> USE DEF IInv
  <1> DEFINE waiting == outboundMessageQueue[r]
  <1>0. waiting \in SUBSET Msgs
    BY DEF TypeOK
  <1>1. /\ outboundMessageQueue' = [outboundMessageQueue EXCEPT ![r] = {}]
        /\ UNCHANGED accepted
    BY DEF OnSessionResult
  <1>2. /\ outboundMessageQueue' \in [Routers -> SUBSET Msgs]
        /\ \A q \in Routers : outboundMessageQueue'[q] =
              IF q = r THEN {} ELSE outboundMessageQueue[q]
    BY Zenon, <1>1 DEF TypeOK
  <1>3. /\ resultJobs[r][type] > 0
        /\ resultJobs' = [resultJobs EXCEPT ![r] = [resultJobs[r] EXCEPT ![type] = @ - 1]]
        /\ UNCHANGED pendingCallbacks
    BY Zenon DEF OnSessionResult, TypeOK, makerVars
  <1>4. \A q \in Routers : resultJobs[q] \in [SessionResult -> Nat] /\ pendingCallbacks[q] \in Nat
    BY Zenon DEF TypeOK
  <1>5. resultJobs' \in [Routers -> [SessionResult -> Nat]]
    <2>1. [resultJobs[r] EXCEPT ![type] = @ - 1] \in [SessionResult -> Nat]
      BY <1>3, <1>4
    <2>. QED
      BY Zenon, <1>3, <2>1 DEF TypeOK
  <1>6. ExactlyOneWaiter'
    <2>1. SUFFICES ASSUME NEW q \in Routers
                   PROVE  Waiters(q)' = IF outboundMessageQueue'[q] = {} THEN 0 ELSE 1
      BY Zenon DEF ExactlyOneWaiter
    <2>2. Waiters(q) = IF outboundMessageQueue[q] = {} THEN 0 ELSE 1
      BY DEF ExactlyOneWaiter
    <2>3. CASE q # r
      <3>1. resultJobs'[q] = resultJobs[q] /\ outboundMessageQueue'[q] = outboundMessageQueue[q]
        BY <1>2, <1>3, <2>3 DEF TypeOK
      <3>. QED
        BY Zenon, <1>3, <2>2, <3>1 DEF Waiters
    <2>4. CASE q = r
      <3>1. resultJobs'[r] = [resultJobs[r] EXCEPT ![type] = @ - 1]
        BY Zenon, <1>3 DEF TypeOK
      <3>2. /\ resultJobs'[r][type] = resultJobs[r][type] - 1
            /\ \A t \in SessionResult \ {type} : resultJobs'[r][t] = resultJobs[r][t]
        BY Zenon, <1>4, <3>1
      <3>3. \A t \in SessionResult : resultJobs[r][t] \in Nat
        BY Zenon, <1>4
      <3>4. Waiters(r)' = Waiters(r) - 1
        BY <1>3, <1>4, <3>2, <3>3 DEF Waiters, SessionResult
      <3>5. Waiters(r) >= 1
        BY <1>3, <1>4, <3>3 DEF Waiters, SessionResult
      <3>. QED
        BY <1>2, <2>2, <2>4, <3>4, <3>5
    <2>. QED
      BY Zenon, <2>3, <2>4
  <1>7. \A x \in waiting : /\ Waits(x) /\ ~Waits(x)' /\ x \in accepted
                           /\ sentOn[x] = NoSession /\ reported[x] = 0
    <2>1. SUFFICES ASSUME NEW x \in waiting
                   PROVE  /\ Waits(x) /\ ~Waits(x)' /\ x \in accepted
                          /\ sentOn[x] = NoSession /\ reported[x] = 0
      OBVIOUS
    <2>2. Waits(x) /\ x \in Msgs
      BY <1>0 DEF Waits
    <2>3. x \in accepted
      BY <2>2 DEF NotYetAccepted
    <2>4. sentOn[x] = NoSession /\ reported[x] = 0
      BY <2>2, <2>3 DEF MessageAccounted
    <2>5. ~Waits(x)'
      BY Zenon, <1>2, <2>3 DEF MessageAccounted, Waits
    <2>. QED
      BY Zenon, <2>2, <2>3, <2>4, <2>5
  <1>8. \A x \in Msgs \ waiting : Waits(x)' <=> Waits(x)
    BY <1>2 DEF Waits
  <1>9. /\ sentOn' \in [Msgs -> Sessions \cup {NoSession}] /\ reported' \in [Msgs -> Nat]
        /\ \A x \in Msgs \ waiting : sentOn'[x] = sentOn[x] /\ reported'[x] = reported[x]
        /\ \A x \in waiting : \/ sentOn'[x] # NoSession /\ reported'[x] = 0
                              \/ sentOn'[x] = NoSession /\ reported'[x] = 1
    <2>1. CASE type = "Establish" /\ HasSessionTo(r)
      <3>1. SendTo(r, waiting) /\ UNCHANGED reported
        BY <2>1 DEF OnSessionResult
      <3>2. /\ sentOn' \in [Msgs -> Sessions \cup {NoSession}]
            /\ \A x \in Msgs \ waiting : sentOn'[x] = sentOn[x]
            /\ \A x \in waiting : sentOn'[x] # NoSession
        BY Zenon, <1>0, <3>1, SendToTypes
      <3>. QED
        BY Zenon, <1>0, <1>7, <3>1, <3>2 DEF TypeOK
    <2>2. CASE ~(type = "Establish" /\ HasSessionTo(r))
      <3>1. /\ reported' = [x \in Msgs |-> IF x \in waiting THEN reported[x] + 1
                                           ELSE reported[x]]
            /\ UNCHANGED sentOn
        BY Zenon, <2>2 DEF OnSessionResult
      <3>2. \A x \in Msgs : reported[x] \in Nat
        BY Zenon DEF TypeOK
      <3>3. reported' \in [Msgs -> Nat]
        BY <3>1, <3>2
      <3>4. sentOn' \in [Msgs -> Sessions \cup {NoSession}]
        BY Zenon, <3>1 DEF TypeOK
      <3>. QED
        BY <1>0, <1>7, <3>1, <3>2, <3>3, <3>4
    <2>. QED
      BY Zenon, <2>1, <2>2
  <1>10. TypeOK'
    BY Zenon, <1>1, <1>2, <1>5, <1>9 DEF OnSessionResult, TypeOK, makerVars, rcVars,
       workerVars, linkVars
  <1>11. NotYetAccepted'
    BY Zenon, <1>1, <1>7, <1>8, <1>9 DEF NotYetAccepted
  <1>12. MessageAccounted'
    <2>1. SUFFICES ASSUME NEW x \in accepted
                   PROVE  /\ \A p, q \in Routers :
                                x \in outboundMessageQueue'[p] /\ x \in outboundMessageQueue'[q]
                                  => p = q
                          /\ \/ Waits(x)' /\ sentOn'[x] = NoSession /\ reported'[x] = 0
                             \/ ~Waits(x)' /\ sentOn'[x] # NoSession /\ reported'[x] = 0
                             \/ ~Waits(x)' /\ sentOn'[x] = NoSession /\ reported'[x] = 1
      BY Zenon, <1>1 DEF MessageAccounted
    <2>2. x \in Msgs
      BY DEF TypeOK
    <2>3. \A p, q \in Routers :
             x \in outboundMessageQueue'[p] /\ x \in outboundMessageQueue'[q] => p = q
      BY Zenon, <1>2 DEF MessageAccounted
    <2>4. CASE x \in waiting
      BY Zenon, <1>7, <1>9, <2>3, <2>4
    <2>5. CASE x \notin waiting
      BY <1>8, <1>9, <2>2, <2>3, <2>5 DEF MessageAccounted
    <2>. QED
      BY Zenon, <2>4, <2>5
  <1>. QED
    BY <1>6, <1>10, <1>11, <1>12

-----------------------------------------------------------------------------
\* Every step of Next keeps the inductive invariant.
LEMMA NextIInv == IInv /\ [Next]_vars => IInv'
  <1> SUFFICES ASSUME IInv, [Next]_vars PROVE IInv'
    OBVIOUS
  <1>1. ASSUME Quiet PROVE IInv'
    <2>1. TypeOK' /\ MoveCallbacks /\ UNCHANGED msgVars
      BY <1>1 DEF Quiet
    <2>2. ExactlyOneWaiter'
      BY <2>1, WaitersKept DEF IInv, msgVars
    <2>. QED
      BY <2>1, <2>2, MessagesKept DEF IInv
  <1>2. CASE UNCHANGED vars
    <2>1. TypeOK'
      BY Zenon, <1>2 DEF vars, msgVars, makerVars, rcVars, jobVars, workerVars,
         linkVars, IInv, TypeOK
    <2>2. ExactlyOneWaiter' /\ NotYetAccepted' /\ MessageAccounted'
      BY Zenon, <1>2 DEF vars, msgVars, makerVars, jobVars, IInv, ExactlyOneWaiter,
         Waiters, NotYetAccepted, MessageAccounted, Waits
    <2>. QED
      BY Zenon, <2>1, <2>2 DEF IInv
  <1>3. CASE WorkerNext
    BY <1>1, <1>3, WorkerQuiet DEF IInv
  <1>4. CASE MainNext
    <2>1. ASSUME NEW m \in Msgs, NEW r \in Routers, QueueMessage(m, r) PROVE IInv'
      BY <2>1, QueueMessageKeeps
    <2>2. ASSUME NEW r \in Routers, NEW type \in SessionResult, OnSessionResult(r, type)
          PROVE  IInv'
      BY <2>2, OnSessionResultKeeps
    <2>3. ASSUME NEW m \in Msgs, MessageCompleted(m) PROVE IInv'
      BY <2>3, MessageCompletedKeeps
    <2>. QED
      BY Zenon, <1>1, <1>4, <2>1, <2>2, <2>3, SessionMakerQuiet, RCLookupQuiet, LinkQuiet
         DEF MainNext, IInv
  <1>. QED
    BY <1>2, <1>3, <1>4 DEF Next

\* The inductive invariant holds in every reachable state.
THEOREM Invariance == Spec => []IInv
  BY InitIInv, NextIInv, PTL DEF Spec

\* The state of the three handlers keeps its type, and a link session that was
\* made has a router, along every behaviour.
THEOREM TypeCorrect == Spec => []TypeOK
  <1>1. IInv => TypeOK
    BY DEF IInv
  <1>. QED
    BY <1>1, Invariance, PTL

\* Whatever order the main thread's jobs, the timeouts and the workers' VerifyRC
\* run in, a queue of messages keeps exactly one OnSessionResult to drain it.
THEOREM OneWaiterPerQueue == Spec => []ExactlyOneWaiter
  <1>1. IInv => ExactlyOneWaiter
    BY DEF IInv
  <1>. QED
    BY <1>1, Invariance, PTL

\* No message handed to QueueMessage is lost before a link session has it, and
\* none is sent or reported twice.
THEOREM EveryMessageAccounted == Spec => []MessageAccounted
  <1>1. IInv => MessageAccounted
    BY DEF IInv
  <1>. QED
    BY <1>1, Invariance, PTL

-----------------------------------------------------------------------------
(***************************************************************************)
(* Requests are attended.  AbandonedOnlyAtDeadEnds speaks of routers with  *)
(* a callback; a callback may be added to a request that is under way, so  *)
(* the inductive invariant speaks of every pending session, and says what  *)
(* drives it: an entry without RC is driven by the lookup, one with an RC  *)
(* by its DoEstablish job.                                                 *)
(***************************************************************************)
MainAt(r, label) == main.at = label /\ main.router = r
LinkPending(r) == \E s \in Sessions : sState[s] = "pending" /\ sRouter[s] = r

\* The request ends without its lookup and its DoEstablish, or is a dead end
Ending(r) ==
    \/ verifying[r] > 0 \/ timeoutJobs[r] > 0 \/ erasing[r] > 0
    \/ LinkPending(r)
    \/ deadEnd[r] # "no"

Driven(r) ==
    /\ pendingSessions[r] = "null" => Ending(r) \/ MainAt(r, "lookup") \/ rcPending[r] > 0
    /\ pendingSessions[r] = "link" => Ending(r) \/ establishJobs[r] > 0
    /\ pendingSessions[r] = "none" /\ pendingCallbacks[r] > 0 =>
          deadEnd[r] # "no" \/ MainAt(r, "check")

LookupRuns(r) == rcPending[r] >= 0 => lookups[r] > 0

RequestsDriven == \A r \in Routers : Driven(r) /\ LookupRuns(r)

\* Driven requests are what AbandonedOnlyAtDeadEnds asks for.
LEMMA DrivenIsAttended ==
    ASSUME TypeOK, RequestsDriven
    PROVE  AbandonedOnlyAtDeadEnds
  <1>1. SUFFICES ASSUME NEW r \in Routers, pendingCallbacks[r] > 0
                 PROVE  Attended(r) \/ erasing[r] > 0 \/ deadEnd[r] # "no"
    BY DEF AbandonedOnlyAtDeadEnds
  <1>2. Driven(r) /\ LookupRuns(r)
    BY DEF RequestsDriven
  <1>3. pendingSessions[r] \in {"none", "null", "link"} /\ rcPending[r] \in Nat \cup {-1}
    BY DEF TypeOK
  <1>4. ASSUME NEW label \in {"check", "lookup"}, MainAt(r, label) PROVE Attended(r)
    BY <1>4 DEF MainAt, Attended, Idle
  <1>5. Ending(r) => Attended(r) \/ erasing[r] > 0 \/ deadEnd[r] # "no"
    BY Zenon DEF Ending, LinkPending, Attended
  <1>6. rcPending[r] > 0 => lookups[r] > 0
    BY <1>2, <1>3 DEF LookupRuns
  <1>7. CASE pendingSessions[r] = "null"
    BY <1>2, <1>4, <1>5, <1>6, <1>7 DEF Driven, Attended
  <1>8. CASE pendingSessions[r] = "link"
    BY <1>2, <1>5, <1>8 DEF Driven, Attended
  <1>9. CASE pendingSessions[r] = "none"
    BY <1>1, <1>2, <1>4, <1>9 DEF Driven
  <1>. QED
    BY <1>3, <1>7, <1>8, <1>9

\* What a step does to the session maker's state of one router: nothing; it ends the
\* request; it gives the entry its RC; it leaves the entry at a dead end
MakerSame(r) ==
    /\ pendingSessions'[r] = pendingSessions[r] /\ pendingCallbacks'[r] = pendingCallbacks[r]
    /\ deadEnd'[r] = deadEnd[r] /\ establishJobs'[r] = establishJobs[r]
MakerDone(r) == pendingSessions'[r] = "none" /\ pendingCallbacks'[r] = 0
MakerLinked(r) ==
    pendingSessions'[r] = "link" /\ (establishJobs'[r] > 0 \/ deadEnd'[r] # "no")
MakerBad(r) == pendingSessions'[r] \in {"null", "link"} /\ deadEnd'[r] # "no"
MakerMoves(r) == MakerDone(r) \/ MakerLinked(r) \/ MakerBad(r)

\* What drives a request but the session maker's state is left alone
DriversSame(r) ==
    /\ verifying'[r] = verifying[r] /\ timeoutJobs'[r] = timeoutJobs[r]
    /\ erasing'[r] = erasing[r] /\ (LinkPending(r) => LinkPending(r)')
MainSame(r) ==
    /\ MainAt(r, "check") => MainAt(r, "check")'
    /\ MainAt(r, "lookup") => MainAt(r, "lookup")'

\* A request that the session maker moved is driven, whatever drove it before.
LEMMA MovedIsDriven ==
    ASSUME NEW r \in Routers, MakerMoves(r)
    PROVE  Driven(r)'
  <1>1. CASE MakerDone(r)
    BY <1>1 DEF MakerDone, Driven
  <1>2. CASE MakerLinked(r)
    BY <1>2 DEF MakerLinked, Driven, Ending
  <1>3. CASE MakerBad(r)
    BY <1>3 DEF MakerBad, Driven, Ending
  <1>. QED
    BY <1>1, <1>2, <1>3 DEF MakerMoves

\* A step that leaves a router's request alone keeps it driven.
LEMMA SameIsDriven ==
    ASSUME NEW r \in Routers, Driven(r), MakerSame(r), DriversSame(r), MainSame(r),
           rcPending'[r] = rcPending[r]
    PROVE  Driven(r)'
  BY Zenon DEF Driven, MakerSame, DriversSame, MainSame, Ending

\* FinalizeRequest ends the request of its router and no other.
LEMMA FinalizeRequestMoves ==
    ASSUME MakerTypes, NEW r \in Routers, NEW type \in SessionResult,
           FinalizeRequest(r, type), UNCHANGED establishJobs
    PROVE  MakerMoves(r) /\ \A q \in Routers \ {r} : MakerSame(q)
  BY DEF MakerTypes, FinalizeRequest, TakeCallbacks, MakerMoves, MakerDone, MakerSame

\* GotRouterContact ends the request, or leaves it with a job or at a dead end.
LEMMA GotRouterContactMoves ==
    ASSUME MakerTypes, NEW r \in Routers, NEW n \in Nat \ {0}, NEW haslink \in BOOLEAN,
           GotRouterContact(r, n, haslink)
    PROVE  MakerMoves(r) /\ \A q \in Routers \ {r} : MakerSame(q)
  <1>1. CASE haslink
    <2>1. /\ pendingSessions' = [pendingSessions EXCEPT ![r] = "link"]
          /\ establishJobs' = [establishJobs EXCEPT ![r] =
                                 IF ShouldConnectTo(r) THEN @ + n ELSE @]
          /\ deadEnd' = [deadEnd EXCEPT ![r] =
                           IF ShouldConnectTo(r) THEN "no" ELSE "NotConnecting"]
          /\ UNCHANGED pendingCallbacks
      BY Zenon, <1>1 DEF GotRouterContact
    <2>2. \A q \in Routers \ {r} : MakerSame(q)
      BY Zenon, <2>1 DEF MakerTypes, MakerSame
    <2>3. pendingSessions'[r] = "link" /\ establishJobs[r] \in Nat
      BY <2>1 DEF MakerTypes
    <2>4. CASE ShouldConnectTo(r)
      <3>1. establishJobs'[r] = establishJobs[r] + n
        BY Zenon, <2>1, <2>4 DEF MakerTypes
      <3>. QED
        BY <2>2, <2>3, <3>1 DEF MakerMoves, MakerLinked
    <2>5. CASE ~ShouldConnectTo(r)
      <3>1. deadEnd'[r] = "NotConnecting"
        BY Zenon, <2>1, <2>5 DEF MakerTypes
      <3>. QED
        BY <2>2, <2>3, <3>1 DEF MakerMoves, MakerLinked
    <2>. QED
      BY <2>4, <2>5
  <1>2. CASE ~haslink
    BY <1>2, FinalizeRequestMoves DEF GotRouterContact, SessionResult
  <1>. QED
    BY <1>1, <1>2

\* A lookup's result moves the request, if a callback of the maker waits for it.
LEMMA RCFinalizeRequestMoves ==
    ASSUME TypeOK, NEW r \in Routers, NEW own \in {0, 1}, NEW result \in LookupResult,
           NEW haslink \in BOOLEAN, RCFinalizeRequest(r, own, result, haslink)
    PROVE  /\ \A q \in Routers \ {r} : MakerSame(q) /\ rcPending'[q] = rcPending[q]
           /\ rcPending'[r] = -1
           /\ \/ MakerMoves(r)
              \/ MakerSame(r) /\ (pendingSessions[r] = "none" \/ (own = 0 /\ rcPending[r] <= 0))
  <1> DEFINE n == own + (IF rcPending[r] < 0 THEN 0 ELSE rcPending[r])
  <1>0. MakerTypes /\ rcPending[r] \in Nat \cup {-1}
    BY DEF TypeOK, MakerTypes
  <1>1. n \in Nat /\ (n = 0 => (own = 0 /\ rcPending[r] <= 0))
    BY <1>0
  <1>2. OnRouterContactResult(r, n, result, haslink)
    BY DEF RCFinalizeRequest
  <1>3. /\ rcPending'[r] = -1
        /\ \A q \in Routers \ {r} : rcPending'[q] = rcPending[q]
    BY DEF RCFinalizeRequest, TypeOK
  <1> HIDE DEF n
  <1>4. CASE n = 0 \/ pendingSessions[r] = "none"
    <2>1. UNCHANGED <<makerVars, establishJobs, resultJobs>>
      BY <1>1, <1>2, <1>4 DEF OnRouterContactResult
    <2>2. \A q \in Routers : MakerSame(q)
      BY <2>1 DEF makerVars, MakerSame
    <2>. QED
      BY <1>1, <1>3, <1>4, <2>2
  <1>5. CASE ~(n = 0 \/ pendingSessions[r] = "none")
    <2>0. n \in Nat \ {0} /\ ~(n <= 0 \/ pendingSessions[r] = "none")
      BY <1>1, <1>5
    <2>1. MakerMoves(r) /\ \A q \in Routers \ {r} : MakerSame(q)
      <3>1. CASE result = "Success"
        <4>1. GotRouterContact(r, n, haslink)
          BY Zenon, <1>2, <2>0, <3>1 DEF OnRouterContactResult
        <4>. QED
          BY <1>0, <2>0, <4>1, GotRouterContactMoves
      <3>2. CASE result = "BadRC"
        <4>1. /\ deadEnd' = [deadEnd EXCEPT ![r] = "BadRC"]
              /\ UNCHANGED <<pendingSessions, pendingCallbacks, establishJobs>>
          BY <1>2, <2>0, <3>2 DEF OnRouterContactResult
        <4>2. pendingSessions[r] \in {"null", "link"}
          BY <1>0, <2>0 DEF MakerTypes
        <4>. QED
          BY <1>0, <4>1, <4>2 DEF MakerTypes, MakerMoves, MakerBad, MakerSame
      <3>3. CASE result \in {"InvalidRouter", "RouterNotFound"}
        <4>1. FinalizeRequest(r, result) /\ UNCHANGED establishJobs
          BY <1>2, <2>0, <3>3 DEF OnRouterContactResult
        <4>. QED
          BY <1>0, <3>3, <4>1, FinalizeRequestMoves DEF SessionResult
      <3>. QED
        BY <3>1, <3>2, <3>3 DEF LookupResult
    <2>. QED
      BY <1>3, <2>1
  <1>. QED
    BY <1>4, <1>5

\* Unchanged variables leave a router's drivers alone.
LEMMA UnchangedDrivers ==
    ASSUME UNCHANGED <<timeoutJobs, workerVars, linkVars>>, NEW r \in Routers
    PROVE  DriversSame(r)
  BY Zenon DEF workerVars, linkVars, DriversSame, LinkPending

\* So does a main thread that stays, or that works for another router.
LEMMA UnchangedMain ==
    ASSUME NEW r \in Routers, UNCHANGED main \/ main = Idle \/ (main.router # r)
    PROVE  MainSame(r)
  BY DEF MainSame, MainAt, Idle

\* The session maker's steps keep every request driven.
LEMMA SessionMakerDrives ==
    ASSUME TypeOK, RequestsDriven,
           \/ \E r \in Routers : CheckPersistingSession(r)
           \/ \E r \in Routers, haslink \in BOOLEAN : CreateSessionToRC(r, haslink)
           \/ CheckPending
           \/ \E r \in Routers, established \in BOOLEAN : DoEstablish(r, established)
           \/ \E r \in Routers : OnConnectTimeout(r)
    PROVE  RequestsDriven'
  <1>0. MakerTypes
    BY DEF TypeOK, MakerTypes
  <1>00. SUFFICES ASSUME NEW q \in Routers PROVE Driven(q)' /\ LookupRuns(q)'
    BY Zenon DEF RequestsDriven
  <1>01. Driven(q) /\ LookupRuns(q)
    BY Zenon DEF RequestsDriven
  <1>02. UNCHANGED rcVars => rcPending'[q] = rcPending[q] /\ LookupRuns(q)'
    BY <1>01, Zenon DEF rcVars, LookupRuns
  <1>03. \A p \in Routers : pendingSessions[p] \in {"none", "null", "link"}
    BY Zenon DEF TypeOK
  <1>1. ASSUME NEW r \in Routers, CheckPersistingSession(r)
        PROVE  Driven(q)' /\ LookupRuns(q)'
    <2>1. /\ main = Idle /\ UNCHANGED rcVars /\ UNCHANGED makerVars /\ UNCHANGED jobVars
          /\ UNCHANGED <<timeoutJobs, workerVars, linkVars>>
      BY <1>1 DEF CheckPersistingSession, jobVars
    <2>2. MakerSame(q)
      BY <2>1, Zenon DEF makerVars, jobVars, MakerSame
    <2>. QED
      BY <1>01, <1>02, <2>1, <2>2, UnchangedDrivers, UnchangedMain, SameIsDriven, Zenon
  <1>2. ASSUME NEW r \in Routers, NEW haslink \in BOOLEAN, CreateSessionToRC(r, haslink)
        PROVE  Driven(q)' /\ LookupRuns(q)'
    <2>1. /\ main = Idle /\ UNCHANGED rcVars /\ UNCHANGED <<timeoutJobs, workerVars, linkVars>>
          /\ GotRouterContact(r, 1, haslink)
      BY <1>2 DEF CreateSessionToRC
    <2>2. MakerMoves(r) /\ \A p \in Routers \ {r} : MakerSame(p)
      BY <1>0, <2>1, GotRouterContactMoves
    <2>. QED
      BY <1>01, <1>02, <2>1, <2>2, UnchangedDrivers, UnchangedMain, SameIsDriven,
         MovedIsDriven, Zenon
  <1>3. ASSUME CheckPending PROVE Driven(q)' /\ LookupRuns(q)'
    <2> DEFINE r == main.router
    <2>1. r \in Routers /\ main.at = "check"
      BY <1>3, MainIsAt DEF CheckPending, Idle
    <2>2. /\ UNCHANGED rcVars /\ UNCHANGED <<timeoutJobs, workerVars, linkVars>>
          /\ UNCHANGED <<pendingCallbacks, establishJobs>>
      BY <1>3 DEF CheckPending, jobVars
    <2>3. CASE q # r
      <3>1. MakerSame(q)
        BY <1>0, <1>3, <2>1, <2>2, <2>3 DEF CheckPending, MakerTypes, MakerSame
      <3>. QED
        BY <1>01, <1>02, <2>2, <2>3, <3>1, UnchangedDrivers, UnchangedMain, SameIsDriven, Zenon
    <2>4. CASE q = r /\ pendingSessions[r] # "none"
      <3>1. UNCHANGED <<pendingSessions, deadEnd>>
        BY <1>3, <2>4, Zenon DEF CheckPending
      <3>2. DriversSame(q)
        BY <2>2, UnchangedDrivers
      <3>3. ~MainAt(q, "lookup")
        BY <2>1 DEF MainAt
      <3>4. Ending(q) => Ending(q)'
        BY <3>1, <3>2, Zenon DEF DriversSame, Ending
      <3>. QED
        BY <1>01, <1>02, <2>2, <2>4, <3>1, <3>3, <3>4, Zenon DEF Driven
    <2>5. CASE q = r /\ pendingSessions[r] = "none"
      <3>1. /\ pendingSessions' = [pendingSessions EXCEPT ![r] = "null"]
            /\ main' = [at |-> "lookup", router |-> r]
        BY <1>3, <2>5, Zenon DEF CheckPending
      <3>2. MainAt(q, "lookup")'
        BY <2>5, <3>1 DEF MainAt
      <3>3. pendingSessions'[q] = "null"
        BY <1>0, <2>1, <2>5, <3>1 DEF MakerTypes
      <3>. QED
        BY <1>02, <2>2, <3>2, <3>3 DEF Driven
    <2>. QED
      BY <2>3, <2>4, <2>5
  <1>4. ASSUME NEW r \in Routers, NEW established \in BOOLEAN, DoEstablish(r, established)
        PROVE  Driven(q)' /\ LookupRuns(q)'
    <2>1. /\ main = Idle /\ UNCHANGED rcVars /\ UNCHANGED <<timeoutJobs, workerVars>>
          /\ establishJobs' = [establishJobs EXCEPT ![r] = @ - 1]
      BY <1>4 DEF DoEstablish
    <2>2. LinkPending(q) => LinkPending(q)'
      <3>1. UNCHANGED linkVars \/ NewSession(r, "pending")
        BY <1>4, <1>03, Zenon DEF DoEstablish
      <3>. QED
        BY <3>1 DEF LinkPending, NewSession, linkVars, TypeOK
    <2>3. DriversSame(q) /\ MainSame(q)
      BY <2>1, <2>2, UnchangedMain, Zenon DEF DriversSame, workerVars
    <2>4. CASE q # r
      <3>1. establishJobs'[q] = establishJobs[q]
        BY <1>0, <2>1, <2>4 DEF MakerTypes
      <3>2. /\ pendingSessions'[q] = pendingSessions[q] /\ pendingCallbacks'[q] = pendingCallbacks[q]
            /\ deadEnd'[q] = deadEnd[q]
        <4>1. UNCHANGED makerVars \/ FinalizeRequest(r, "NoLink")
          BY <1>4, <1>03, Zenon DEF DoEstablish
        <4>. QED
          BY <1>0, <2>4, <4>1 DEF makerVars, FinalizeRequest, TakeCallbacks, MakerTypes
      <3>. QED
        BY <1>01, <1>02, <2>1, <2>3, <3>1, <3>2, SameIsDriven, Zenon DEF MakerSame
    <2>5. CASE q = r
      <3>1. CASE pendingSessions[r] \in {"none", "null"}
        <4>1. UNCHANGED makerVars
          BY <1>4, <3>1, Zenon DEF DoEstablish
        <4>2. Ending(q) => Ending(q)'
          BY <2>3, <4>1, Zenon DEF DriversSame, Ending, makerVars
        <4>3. pendingSessions[q] # "link"
          BY <2>5, <3>1
        <4>. QED
          BY <1>01, <1>02, <2>1, <2>3, <4>1, <4>2, <4>3, Zenon DEF Driven, MainSame, makerVars
      <3>2. CASE pendingSessions[r] = "link" /\ established
        <4>1. UNCHANGED makerVars /\ NewSession(r, "pending")
          BY <1>4, <3>2 DEF DoEstablish
        <4>2. LinkPending(q)'
          BY <2>5, <4>1 DEF LinkPending, NewSession, TypeOK
        <4>3. pendingSessions'[q] = "link"
          BY <2>5, <3>2, <4>1 DEF makerVars
        <4>. QED
          BY <1>02, <2>1, <4>2, <4>3 DEF Driven, Ending
      <3>3. CASE pendingSessions[r] = "link" /\ ~established
        <4>1. FinalizeRequest(r, "NoLink")
          BY <1>4, <3>3 DEF DoEstablish
        <4>2. MakerMoves(q)
          BY <1>0, <2>5, <4>1 DEF MakerTypes, FinalizeRequest, TakeCallbacks, MakerMoves, MakerDone
        <4>. QED
          BY <1>02, <2>1, <4>2, MovedIsDriven
      <3>. QED
        BY <1>0, <3>1, <3>2, <3>3 DEF MakerTypes
    <2>. QED
      BY <2>4, <2>5
  <1>5. ASSUME NEW r \in Routers, OnConnectTimeout(r) PROVE Driven(q)' /\ LookupRuns(q)'
    <2>1. /\ main = Idle /\ UNCHANGED rcVars /\ UNCHANGED <<workerVars, linkVars, establishJobs>>
          /\ timeoutJobs' = [timeoutJobs EXCEPT ![r] = @ - 1]
          /\ FinalizeRequest(r, "Timeout")
      BY <1>5 DEF OnConnectTimeout
    <2>2. MakerMoves(r) /\ \A p \in Routers \ {r} : MakerSame(p)
      BY <1>0, <2>1, FinalizeRequestMoves DEF SessionResult
    <2>3. CASE q = r
      BY <1>02, <2>1, <2>2, <2>3, MovedIsDriven
    <2>4. CASE q # r
      <3>1. timeoutJobs'[q] = timeoutJobs[q]
        BY <2>1, <2>4 DEF TypeOK
      <3>2. DriversSame(q)
        BY <2>1, <3>1, Zenon DEF DriversSame, workerVars, linkVars, LinkPending
      <3>. QED
        BY <1>01, <1>02, <2>1, <2>2, <2>4, <3>2, UnchangedMain, SameIsDriven, Zenon
    <2>. QED
      BY <2>3, <2>4
  <1>. QED
    BY <1>1, <1>2, <1>3, <1>4, <1>5

\* So do the steps of the RC lookup handler: a lookup that ends tells the maker.
LEMMA RCLookupDrives ==
    ASSUME TypeOK, RequestsDriven,
           \/ \E haslink \in BOOLEAN : GetRCFromNodeDB(haslink)
           \/ GetRCByLookup
           \/ GetRCNobodyToAsk
           \/ \E r \in Routers, haslink \in BOOLEAN : LookupKnownRouter(r, haslink)
           \/ \E r \in Routers : LookupRouter(r)
           \/ \E r \in Routers, result \in LookupResult, haslink \in BOOLEAN :
                 HandleDHTLookupResult(r, result, haslink)
    PROVE  RequestsDriven'
  <1>00. SUFFICES ASSUME NEW q \in Routers PROVE Driven(q)' /\ LookupRuns(q)'
    BY Zenon DEF RequestsDriven
  <1>01. /\ Driven(q) /\ LookupRuns(q)
         /\ rcPending \in [Routers -> Nat \cup {-1}] /\ lookups \in [Routers -> Nat]
    BY DEF RequestsDriven, TypeOK
  <1>1. ASSUME NEW result \in LookupResult, NEW haslink \in BOOLEAN, main.at = "lookup",
               RCFinalizeRequest(main.router, 1, result, haslink),
               UNCHANGED lookups, UNCHANGED <<timeoutJobs, workerVars, linkVars>>
        PROVE  Driven(q)' /\ LookupRuns(q)'
    <2> DEFINE r == main.router
    <2>1. r \in Routers /\ rcPending[r] >= -1
      BY <1>1, <1>01, MainIsAt DEF Idle
    <2>2. /\ \A p \in Routers \ {r} : MakerSame(p) /\ rcPending'[p] = rcPending[p]
          /\ rcPending'[r] = -1
          /\ \/ MakerMoves(r)
             \/ MakerSame(r) /\ pendingSessions[r] = "none"
      BY <1>1, <2>1, RCFinalizeRequestMoves
    <2>3. DriversSame(q)
      BY <1>1, UnchangedDrivers
    <2>4. CASE q # r
      BY <1>01, <1>1, <2>2, <2>3, <2>4, UnchangedMain, SameIsDriven, Zenon DEF LookupRuns
    <2>5. CASE q = r
      <3>1. LookupRuns(q)'
        BY <2>2, <2>5 DEF LookupRuns
      <3>2. CASE MakerMoves(r)
        BY <2>5, <3>1, <3>2, MovedIsDriven
      <3>3. CASE MakerSame(r) /\ pendingSessions[r] = "none"
        <4>1. ~MainAt(q, "check")
          BY <1>1 DEF MainAt
        <4>. QED
          BY <1>01, <2>5, <3>1, <3>3, <4>1 DEF Driven, MakerSame
      <3>. QED
        BY <2>2, <3>1, <3>2, <3>3
    <2>. QED
      BY <2>4, <2>5
  <1>2. ASSUME GetRCByLookup PROVE Driven(q)' /\ LookupRuns(q)'
    <2> DEFINE r == main.router
    <2>1. r \in Routers /\ main.at = "lookup"
      BY <1>2, MainIsAt DEF GetRCByLookup, Idle
    <2>2. /\ UNCHANGED makerVars /\ UNCHANGED jobVars
          /\ UNCHANGED <<timeoutJobs, workerVars, linkVars>>
          /\ rcPending' = [rcPending EXCEPT ![r] = IF @ < 0 THEN 1 ELSE @ + 1]
          /\ lookups' = [lookups EXCEPT ![r] = IF rcPending[r] < 0 THEN @ + 1 ELSE @]
      BY <1>2 DEF GetRCByLookup, jobVars
    <2>3. MakerSame(q) /\ DriversSame(q)
      BY <2>2, UnchangedDrivers, Zenon DEF makerVars, jobVars, MakerSame
    <2>4. CASE q # r
      <3>1. rcPending'[q] = rcPending[q] /\ lookups'[q] = lookups[q]
        BY <1>01, <2>1, <2>2, <2>4
      <3>. QED
        BY <1>01, <2>3, <2>4, <3>1, UnchangedMain, SameIsDriven, Zenon DEF LookupRuns
    <2>5. CASE q = r
      <3>1. rcPending'[q] > 0 /\ lookups'[q] > 0
        BY <1>01, <2>1, <2>2, <2>5 DEF LookupRuns
      <3>2. ~MainAt(q, "check")
        BY <2>1 DEF MainAt
      <3>3. Ending(q) => Ending(q)'
        BY <2>3, Zenon DEF DriversSame, MakerSame, Ending
      <3>. QED
        BY <1>01, <2>3, <3>1, <3>2, <3>3 DEF Driven, MakerSame, LookupRuns
    <2>. QED
      BY <2>4, <2>5
  <1>3. ASSUME NEW r \in Routers, LookupRouter(r) PROVE Driven(q)' /\ LookupRuns(q)'
    <2>1. /\ UNCHANGED makerVars /\ UNCHANGED jobVars /\ UNCHANGED main
          /\ UNCHANGED <<timeoutJobs, workerVars, linkVars>>
          /\ rcPending[r] < 0 /\ rcPending' = [rcPending EXCEPT ![r] = 0]
          /\ lookups' = [lookups EXCEPT ![r] = @ + 1]
      BY <1>3 DEF LookupRouter, jobVars
    <2>2. MakerSame(q) /\ DriversSame(q) /\ MainSame(q)
      BY <2>1, UnchangedDrivers, UnchangedMain, Zenon DEF makerVars, jobVars, MakerSame
    <2>3. CASE q # r
      <3>1. rcPending'[q] = rcPending[q] /\ lookups'[q] = lookups[q]
        BY <1>01, <2>1, <2>3
      <3>. QED
        BY <1>01, <2>2, <3>1, SameIsDriven, Zenon DEF LookupRuns
    <2>4. CASE q = r
      <3>1. lookups'[q] > 0 /\ ~(rcPending[q] > 0)
        BY <1>01, <2>1, <2>4
      <3>2. Ending(q) => Ending(q)'
        BY <2>2, Zenon DEF DriversSame, MakerSame, Ending
      <3>. QED
        BY <1>01, <2>2, <3>1, <3>2, Zenon DEF Driven, MakerSame, MainSame, LookupRuns
    <2>. QED
      BY <2>3, <2>4
  <1>4. ASSUME NEW r \in Routers, NEW result \in LookupResult, NEW haslink \in BOOLEAN,
               main = Idle, UNCHANGED main, UNCHANGED <<timeoutJobs, workerVars, linkVars>>,
               lookups' = lookups \/ lookups' = [lookups EXCEPT ![r] = @ - 1],
               RCFinalizeRequest(r, 0, result, haslink)
        PROVE  Driven(q)' /\ LookupRuns(q)'
    <2>1. /\ main = Idle /\ UNCHANGED main /\ UNCHANGED <<timeoutJobs, workerVars, linkVars>>
          /\ lookups' = lookups \/ lookups' = [lookups EXCEPT ![r] = @ - 1]
          /\ RCFinalizeRequest(r, 0, result, haslink)
      BY <1>4
    <2>2. /\ \A p \in Routers \ {r} : MakerSame(p) /\ rcPending'[p] = rcPending[p]
          /\ rcPending'[r] = -1
          /\ \/ MakerMoves(r)
             \/ MakerSame(r) /\ (pendingSessions[r] = "none" \/ rcPending[r] <= 0)
      BY <2>1, RCFinalizeRequestMoves
    <2>3. DriversSame(q) /\ MainSame(q)
      BY <2>1, UnchangedDrivers, UnchangedMain
    <2>4. CASE q # r
      <3>1. lookups'[q] = lookups[q]
        BY <1>01, <2>1, <2>4
      <3>. QED
        BY <1>01, <2>2, <2>3, <2>4, <3>1, SameIsDriven, Zenon DEF LookupRuns
    <2>5. CASE q = r
      <3>1. LookupRuns(q)'
        BY <2>2, <2>5 DEF LookupRuns
      <3>2. CASE MakerMoves(r)
        BY <2>5, <3>1, <3>2, MovedIsDriven
      <3>3. CASE MakerSame(r) /\ (pendingSessions[r] = "none" \/ rcPending[r] <= 0)
        <4>1. pendingSessions[q] = "none" \/ ~(rcPending[q] > 0)
          BY <1>01, <2>5, <3>3
        <4>2. Ending(q) => Ending(q)'
          BY <2>3, <2>5, <3>3, Zenon DEF DriversSame, MakerSame, Ending
        <4>3. MakerSame(q)
          BY <2>5, <3>3
        <4>. QED
          BY <1>01, <2>3, <3>1, <4>1, <4>2, <4>3 DEF Driven, MakerSame, MainSame
      <3>. QED
        BY <2>2, <3>2, <3>3
    <2>. QED
      BY <2>4, <2>5
  <1>5. ASSUME NEW haslink \in BOOLEAN, GetRCFromNodeDB(haslink)
        PROVE  Driven(q)' /\ LookupRuns(q)'
    BY <1>1, <1>5 DEF GetRCFromNodeDB, LookupResult
  <1>6. ASSUME GetRCNobodyToAsk PROVE Driven(q)' /\ LookupRuns(q)'
    BY <1>1, <1>6, Zenon DEF GetRCNobodyToAsk, LookupResult
  <1>7. ASSUME NEW r \in Routers, NEW result \in LookupResult, NEW haslink \in BOOLEAN,
               HandleDHTLookupResult(r, result, haslink)
        PROVE  Driven(q)' /\ LookupRuns(q)'
    BY <1>4, <1>7, Zenon DEF HandleDHTLookupResult
  <1>8. ASSUME NEW r \in Routers, NEW haslink \in BOOLEAN, LookupKnownRouter(r, haslink)
        PROVE  Driven(q)' /\ LookupRuns(q)'
    <2>1. "Success" \in LookupResult
      BY DEF LookupResult
    <2>. QED
      BY <1>4, <1>8, <2>1, Zenon DEF LookupKnownRouter
  <1>. QED
    BY <1>2, <1>3, <1>5, <1>6, <1>7, <1>8

\* So do the steps of the link sessions: one that ends without VerifyRC defers
\* HandleTimeout or finalizes the request.
LEMMA LinkDrives ==
    ASSUME TypeOK, RequestsDriven,
           \/ \E s \in Sessions, allowed \in BOOLEAN : OutboundEstablished(s, allowed)
           \/ \E r \in Routers, allowed \in BOOLEAN : InboundEstablished(r, allowed)
           \/ \E s \in Sessions : PendingTimedOut(s)
           \/ \E s \in Sessions : SessionTimedOut(s)
    PROVE  RequestsDriven'
  <1>0. MakerTypes
    BY DEF TypeOK, MakerTypes
  <1>00. SUFFICES ASSUME NEW q \in Routers PROVE Driven(q)' /\ LookupRuns(q)'
    BY Zenon DEF RequestsDriven
  <1>01. Driven(q) /\ LookupRuns(q)
    BY Zenon DEF RequestsDriven
  <1>02. UNCHANGED rcVars => rcPending'[q] = rcPending[q] /\ LookupRuns(q)'
    BY <1>01, Zenon DEF rcVars, LookupRuns
  <1>03. \A s \in Sessions : sState[s] # "unused" => sRouter[s] \in Routers
    BY DEF TypeOK
  <1>1. ASSUME NEW r \in Routers, NEW allowed \in BOOLEAN, OnSessionEstablished(r, allowed),
               main = Idle, UNCHANGED rcVars, UNCHANGED <<establishJobs, timeoutJobs, erasing>>,
               q # r => (LinkPending(q) => LinkPending(q)')
        PROVE  Driven(q)' /\ LookupRuns(q)'
    <2>1. CASE allowed
      <3>1. verifying' = [verifying EXCEPT ![r] = @ + 1] /\ UNCHANGED <<makerVars, resultJobs>>
        BY <1>1, <2>1 DEF OnSessionEstablished
      <3>2. MakerSame(q)
        BY <1>1, <3>1, Zenon DEF makerVars, MakerSame
      <3>3. CASE q = r
        <4>1. verifying'[q] > 0
          BY <3>1, <3>3 DEF TypeOK
        <4>2. Ending(q)'
          BY <4>1 DEF Ending
        <4>3. ~MainAt(q, "check")
          BY <1>1 DEF MainAt, Idle
        <4>. QED
          BY <1>01, <1>02, <1>1, <3>2, <4>2, <4>3, Zenon DEF Driven, MakerSame
      <3>4. CASE q # r
        <4>1. verifying'[q] = verifying[q]
          BY <3>1, <3>4 DEF TypeOK
        <4>2. DriversSame(q)
          BY <1>1, <3>4, <4>1, Zenon DEF DriversSame
        <4>. QED
          BY <1>01, <1>02, <1>1, <3>2, <4>2, UnchangedMain, SameIsDriven, Zenon
      <3>. QED
        BY <3>3, <3>4
    <2>2. CASE ~allowed
      <3>1. FinalizeRequest(r, "InvalidRouter") /\ UNCHANGED verifying
        BY <1>1, <2>2 DEF OnSessionEstablished
      <3>2. MakerMoves(r) /\ \A p \in Routers \ {r} : MakerSame(p)
        BY <1>0, <1>1, <3>1, FinalizeRequestMoves DEF SessionResult
      <3>3. CASE q = r
        BY <1>02, <1>1, <3>2, <3>3, MovedIsDriven
      <3>4. CASE q # r
        <4>1. DriversSame(q)
          BY <1>1, <3>1, <3>4, Zenon DEF DriversSame
        <4>. QED
          BY <1>01, <1>02, <1>1, <3>2, <3>4, <4>1, UnchangedMain, SameIsDriven, Zenon
      <3>. QED
        BY <3>3, <3>4
    <2>. QED
      BY <2>1, <2>2
  <1>2. ASSUME NEW s \in Sessions, NEW allowed \in BOOLEAN, OutboundEstablished(s, allowed)
        PROVE  Driven(q)' /\ LookupRuns(q)'
    <2>1. sRouter[s] \in Routers
      BY <1>2, <1>03 DEF OutboundEstablished
    <2>2. q # sRouter[s] => (LinkPending(q) => LinkPending(q)')
      BY <1>2 DEF OutboundEstablished, LinkPending, TypeOK
    <2>. QED
      BY <1>1, <1>2, <2>1, <2>2 DEF OutboundEstablished
  <1>3. ASSUME NEW r \in Routers, NEW allowed \in BOOLEAN, InboundEstablished(r, allowed)
        PROVE  Driven(q)' /\ LookupRuns(q)'
    <2>1. LinkPending(q) => LinkPending(q)'
      BY <1>3 DEF InboundEstablished, NewSession, LinkPending, TypeOK
    <2>. QED
      BY <1>1, <1>3, <2>1 DEF InboundEstablished
  <1>4. ASSUME NEW s \in Sessions, PendingTimedOut(s) PROVE Driven(q)' /\ LookupRuns(q)'
    <2> DEFINE r == sRouter[s]
    <2>1. /\ r \in Routers /\ UNCHANGED rcVars /\ main = Idle /\ UNCHANGED main
          /\ UNCHANGED makerVars /\ UNCHANGED <<establishJobs, workerVars>>
          /\ timeoutJobs' = [timeoutJobs EXCEPT ![r] = @ + 1]
      BY <1>4, <1>03 DEF PendingTimedOut
    <2>2. MakerSame(q) /\ MainSame(q)
      BY <2>1, UnchangedMain, Zenon DEF makerVars, MakerSame
    <2>3. CASE q = r
      <3>1. timeoutJobs'[q] > 0
        BY <2>1, <2>3 DEF TypeOK
      <3>2. Ending(q)'
        BY <3>1 DEF Ending
      <3>. QED
        BY <1>01, <1>02, <2>1, <2>2, <3>2, Zenon DEF Driven, MakerSame, MainSame
    <2>4. CASE q # r
      <3>1. timeoutJobs'[q] = timeoutJobs[q]
        BY <2>1, <2>4 DEF TypeOK
      <3>2. LinkPending(q) => LinkPending(q)'
        BY <1>4, <2>4 DEF PendingTimedOut, LinkPending, TypeOK
      <3>3. DriversSame(q)
        BY <2>1, <3>1, <3>2, Zenon DEF DriversSame, workerVars
      <3>. QED
        BY <1>01, <1>02, <2>1, <2>2, <3>3, SameIsDriven, Zenon
    <2>. QED
      BY <2>3, <2>4
  <1>5. ASSUME NEW s \in Sessions, SessionTimedOut(s) PROVE Driven(q)' /\ LookupRuns(q)'
    <2>1. /\ UNCHANGED rcVars /\ UNCHANGED main /\ UNCHANGED makerVars
          /\ UNCHANGED <<jobVars, workerVars>>
      BY <1>5 DEF SessionTimedOut
    <2>2. LinkPending(q) => LinkPending(q)'
      BY <1>5 DEF SessionTimedOut, LinkPending, TypeOK
    <2>3. MakerSame(q) /\ MainSame(q) /\ DriversSame(q)
      BY <2>1, <2>2, UnchangedMain, Zenon
         DEF makerVars, jobVars, workerVars, MakerSame, DriversSame
    <2>. QED
      BY <1>01, <1>02, <2>1, <2>3, SameIsDriven, Zenon
  <1>. QED
    BY <1>2, <1>3, <1>4, <1>5

\* So do the workers: a request that loses its callbacks to VerifyRC is about to be
\* erased, and one that is erased with a callback is the dead end Raced.
LEMMA WorkerDrives ==
    ASSUME TypeOK, RequestsDriven, WorkerNext
    PROVE  RequestsDriven'
  <1>00. SUFFICES ASSUME NEW q \in Routers PROVE Driven(q)' /\ LookupRuns(q)'
    BY Zenon DEF RequestsDriven
  <1>01. Driven(q) /\ LookupRuns(q)
    BY Zenon DEF RequestsDriven
  <1>02. UNCHANGED rcVars => rcPending'[q] = rcPending[q] /\ LookupRuns(q)'
    BY <1>01, Zenon DEF rcVars, LookupRuns
  <1>1. ASSUME NEW r \in Routers, NEW type \in {"Establish", "InvalidRouter"},
               VerifyRC(r, type)
        PROVE  Driven(q)' /\ LookupRuns(q)'
    <2>1. /\ UNCHANGED rcVars /\ UNCHANGED main /\ UNCHANGED linkVars
          /\ UNCHANGED <<pendingSessions, deadEnd, establishJobs, timeoutJobs>>
          /\ verifying' = [verifying EXCEPT ![r] = @ - 1]
          /\ erasing' = [erasing EXCEPT ![r] = @ + 1]
          /\ pendingCallbacks' = [pendingCallbacks EXCEPT ![r] = 0]
      BY <1>1 DEF VerifyRC, TakeCallbacks
    <2>2. CASE q = r
      <3>1. erasing'[q] > 0 /\ pendingCallbacks'[q] = 0
        BY <2>1, <2>2 DEF TypeOK
      <3>. QED
        BY <1>02, <2>1, <3>1 DEF Driven, Ending
    <2>3. CASE q # r
      <3>1. /\ erasing'[q] = erasing[q] /\ verifying'[q] = verifying[q]
            /\ pendingCallbacks'[q] = pendingCallbacks[q]
        BY <2>1, <2>3 DEF TypeOK
      <3>2. DriversSame(q) /\ MakerSame(q) /\ MainSame(q)
        BY <2>1, <3>1, UnchangedMain, Zenon DEF DriversSame, MakerSame, LinkPending, linkVars
      <3>. QED
        BY <1>01, <1>02, <2>1, <3>2, SameIsDriven, Zenon
    <2>. QED
      BY <2>2, <2>3
  <1>2. ASSUME NEW r \in Routers, ErasePending(r) PROVE Driven(q)' /\ LookupRuns(q)'
    <2>1. /\ UNCHANGED rcVars /\ UNCHANGED main /\ UNCHANGED linkVars
          /\ UNCHANGED <<pendingCallbacks, jobVars, verifying>>
          /\ erasing' = [erasing EXCEPT ![r] = @ - 1]
          /\ pendingSessions' = [pendingSessions EXCEPT ![r] = "none"]
          /\ deadEnd' = [deadEnd EXCEPT ![r] = IF pendingCallbacks[r] > 0 THEN "Raced" ELSE "no"]
      BY <1>2 DEF ErasePending
    <2>2. CASE q = r
      <3>1. pendingSessions'[q] = "none" /\ (pendingCallbacks'[q] > 0 => deadEnd'[q] = "Raced")
        BY <2>1, <2>2, Zenon DEF TypeOK
      <3>. QED
        BY <1>02, <2>1, <3>1 DEF Driven
    <2>3. CASE q # r
      <3>1. /\ erasing'[q] = erasing[q] /\ pendingSessions'[q] = pendingSessions[q]
            /\ deadEnd'[q] = deadEnd[q]
        BY <2>1, <2>3, Zenon DEF TypeOK
      <3>2. DriversSame(q) /\ MakerSame(q) /\ MainSame(q)
        BY <2>1, <3>1, UnchangedMain, Zenon
           DEF DriversSame, MakerSame, LinkPending, linkVars, jobVars
      <3>. QED
        BY <1>01, <1>02, <2>1, <3>2, SameIsDriven, Zenon
    <2>. QED
      BY <2>2, <2>3
  <1>. QED
    BY <1>1, <1>2 DEF WorkerNext

\* So do the steps that move messages: the callback that QueueMessage registers is
\* that of the CreateSessionTo the main thread is in.
LEMMA MessagesDrive ==
    ASSUME TypeOK, RequestsDriven,
           \/ \E m \in Msgs, r \in Routers : QueueMessage(m, r)
           \/ \E r \in Routers, type \in SessionResult : OnSessionResult(r, type)
           \/ \E m \in Msgs : MessageCompleted(m)
    PROVE  RequestsDriven'
  <1>00. SUFFICES ASSUME NEW q \in Routers PROVE Driven(q)' /\ LookupRuns(q)'
    BY Zenon DEF RequestsDriven
  <1>01. Driven(q) /\ LookupRuns(q)
    BY Zenon DEF RequestsDriven
  <1>02. UNCHANGED rcVars => rcPending'[q] = rcPending[q] /\ LookupRuns(q)'
    BY <1>01, Zenon DEF rcVars, LookupRuns
  <1>1. ASSUME UNCHANGED rcVars, UNCHANGED main, UNCHANGED makerVars, UNCHANGED establishJobs,
               UNCHANGED <<timeoutJobs, workerVars, linkVars>>
        PROVE  Driven(q)' /\ LookupRuns(q)'
    <2>1. MakerSame(q)
      BY <1>1, Zenon DEF makerVars, MakerSame
    <2>. QED
      BY <1>01, <1>02, <1>1, <2>1, UnchangedDrivers, UnchangedMain, SameIsDriven, Zenon
  <1>2. ASSUME NEW m \in Msgs, NEW r \in Routers, QueueMessage(m, r)
        PROVE  Driven(q)' /\ LookupRuns(q)'
    <2>1. /\ main = Idle /\ UNCHANGED rcVars /\ UNCHANGED <<timeoutJobs, workerVars, linkVars>>
          /\ UNCHANGED <<pendingSessions, deadEnd, establishJobs>>
      BY <1>2 DEF QueueMessage, jobVars
    <2>2. CASE UNCHANGED <<pendingCallbacks, main>>
      BY <1>1, <2>1, <2>2 DEF makerVars
    <2>3. CASE /\ pendingCallbacks' = [pendingCallbacks EXCEPT ![r] = @ + 1]
               /\ main' = [at |-> "check", router |-> r]
      <3>1. DriversSame(q)
        BY <2>1, UnchangedDrivers
      <3>2. CASE q # r
        <4>1. pendingCallbacks'[q] = pendingCallbacks[q]
          BY <2>3, <3>2 DEF TypeOK
        <4>2. MakerSame(q)
          BY <2>1, <4>1 DEF MakerSame
        <4>. QED
          BY <1>01, <1>02, <2>1, <3>1, <4>2, UnchangedMain, SameIsDriven, Zenon
      <3>3. CASE q = r
        <4>1. MainAt(q, "check")'
          BY <2>3, <3>3 DEF MainAt
        <4>2. ~MainAt(q, "lookup")
          BY <2>1 DEF MainAt, Idle
        <4>3. Ending(q) => Ending(q)'
          BY <2>1, <3>1, Zenon DEF DriversSame, Ending
        <4>. QED
          BY <1>01, <1>02, <2>1, <4>1, <4>2, <4>3, Zenon DEF Driven
      <3>. QED
        BY <3>2, <3>3
    <2>. QED
      BY <1>2, <2>2, <2>3, Zenon DEF QueueMessage
  <1>3. ASSUME NEW r \in Routers, NEW type \in SessionResult, OnSessionResult(r, type)
        PROVE  Driven(q)' /\ LookupRuns(q)'
    BY <1>1, <1>3 DEF OnSessionResult
  <1>4. ASSUME NEW m \in Msgs, MessageCompleted(m) PROVE Driven(q)' /\ LookupRuns(q)'
    BY <1>1, <1>4 DEF MessageCompleted, jobVars
  <1>. QED
    BY <1>2, <1>3, <1>4

\* Waiting messages are abandoned only by the three code paths that leave a request
\* with nothing to finalize it: BadRC (OnRouterContactResult), NotConnecting
\* (GotRouterContact) and Raced (FinalizeRequest on a worker).
THEOREM AbandonedOnlyThere == Spec => []AbandonedOnlyAtDeadEnds
  <1>1. Init => RequestsDriven
    BY DEF Init, RequestsDriven, Driven, LookupRuns
  <1>2. TypeOK /\ RequestsDriven /\ [Next]_vars => RequestsDriven'
    <2>1. SUFFICES ASSUME TypeOK, RequestsDriven, [Next]_vars PROVE RequestsDriven'
      OBVIOUS
    <2>2. CASE UNCHANGED vars
      BY Zenon, <2>1, <2>2 DEF vars, makerVars, rcVars, jobVars, workerVars, linkVars,
         RequestsDriven, Driven, LookupRuns, Ending, LinkPending, MainAt
    <2>3. CASE MainNext
      BY Zenon, <2>1, <2>3, SessionMakerDrives, RCLookupDrives, LinkDrives, MessagesDrive
         DEF MainNext
    <2>. QED
      BY <2>1, <2>2, <2>3, WorkerDrives DEF Next
  <1>3. TypeOK /\ RequestsDriven => AbandonedOnlyAtDeadEnds
    BY DrivenIsAttended
  <1>. QED
    BY <1>1, <1>2, <1>3, TypeCorrect, PTL DEF Spec
=============================================================================
