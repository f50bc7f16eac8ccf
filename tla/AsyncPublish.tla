---------------------------- MODULE AsyncPublish ----------------------------
(***************************************************************************)
(* Publishing on an AsyncSession (src/async_support.rs).                   *)
(*                                                                         *)
(* Application threads call publish and publish_with_ack concurrently      *)
(* while the context thread of the C library delivers the broker's         *)
(* answers to the on_event closure.  They share the map of oneshot senders *)
(* (ack_senders) under one mutex and the session (inner) under another;    *)
(* the inner mutex is held through the C library's blocking send, which    *)
(* returns only when the publisher window has room, and the window only    *)
(* gets room when the context thread makes progress.                       *)
(*                                                                         *)
(* A call is its own thread of control: the calls one thread makes one     *)
(* after the other are among the interleavings.                            *)
(***************************************************************************)
EXTENDS Naturals, FiniteSets

CONSTANTS
    Calls,          \* the publish calls of a run
    NoCall,         \* no call: nobody owns a lock, an event about no message
    Window,         \* publisher window: guaranteed messages sent, not answered
    TagMayFail,     \* solClient_msg_setCorrelationTag may find no memory
    SendMayFail     \* solClient_session_sendMsg may return an error

ASSUME CallsAssumption == NoCall \notin Calls
ASSUME WindowAssumption == Window \in Nat \ {0}
ASSUME FlagsAssumption == TagMayFail \in BOOLEAN /\ SendMayFail \in BOOLEAN

VARIABLES
    pc,             \* pc[c]: where call c is
    tracked,        \* tracked[c]: publish_with_ack, not publish
    guaranteed,     \* guaranteed[c]: PERSISTENT or NON_PERSISTENT, not DIRECT
    corrId,         \* corrId[c]: the id fetch_add returned to the call
    tag,            \* tag[c]: the correlation tag its message carries
    result,         \* result[c]: what the C send returned
    rx,             \* rx[c]: the call's oneshot receiver
    nextCorrId,     \* AsyncSession.next_corr_id
    ackSenders,     \* the calls whose sender is in the map, keyed by corrId
    mapLocked,      \* the on_event closure holds the ack_senders mutex
    innerLock,      \* the call that holds the session mutex
    handle,         \* the AsyncSession is alive
    flow,           \* an OwnedAsyncFlow with an Arc of the session is alive
    inflight,       \* messages in the publisher window
    answer,         \* answer[c]: the broker's decision about c's message
    ctxPc,          \* where the context thread is in static_on_event
    ctxCall,        \* the call whose message the delivered event is about
    corrPtr,        \* thread-local CURRENT_EVENT_CORR_PTR
    taken,          \* the sender the closure took out of the map
    forwarded       \* calls whose answer was sent to the event channel

pubVars == <<pc, tracked, guaranteed, corrId, tag, result, nextCorrId, innerLock>>
mapVars == <<rx, ackSenders, mapLocked>>
lifeVars == <<handle, flow>>
brokerVars == <<inflight, answer>>
ctxVars == <<ctxPc, ctxCall, corrPtr, taken, forwarded>>
vars == <<pubVars, mapVars, lifeVars, brokerVars, ctxVars>>

-----------------------------------------------------------------------------
NoTag == 0          \* a null correlation_p; ids start at 1
Answers == {"ack", "reject"}
Unanswered == "none"
Steps == {"idle", "fetch", "tag", "insert", "lock", "send", "unlock", "remove", "done"}
RxStates == {"none", "waiting", "ok", "rejected", "closed", "dropped"}
CtxSteps == {"idle", "closure", "resolve", "forward", "return"}

TypeOK ==
    /\ pc \in [Calls -> Steps]
    /\ tracked \in [Calls -> BOOLEAN]
    /\ guaranteed \in [Calls -> BOOLEAN]
    /\ corrId \in [Calls -> Nat]
    /\ tag \in [Calls -> Nat]
    /\ result \in [Calls -> {"none", "ok", "err"}]
    /\ rx \in [Calls -> RxStates]
    /\ nextCorrId \in Nat \ {0}
    /\ ackSenders \in SUBSET Calls
    /\ mapLocked \in BOOLEAN
    /\ innerLock \in Calls \cup {NoCall}
    /\ handle \in BOOLEAN
    /\ flow \in BOOLEAN
    /\ inflight \in SUBSET Calls
    /\ answer \in [Calls -> Answers \cup {Unanswered}]
    /\ ctxPc \in CtxSteps
    /\ ctxCall \in Calls \cup {NoCall}
    /\ corrPtr \in Nat
    /\ taken \in SUBSET Calls
    /\ forwarded \in SUBSET (Calls \cup {NoCall})

Init ==
    /\ pc = [c \in Calls |-> "idle"]
    /\ tracked = [c \in Calls |-> FALSE]
    /\ guaranteed = [c \in Calls |-> FALSE]
    /\ corrId = [c \in Calls |-> NoTag]
    /\ tag = [c \in Calls |-> NoTag]
    /\ result = [c \in Calls |-> "none"]
    /\ rx = [c \in Calls |-> "none"]
    /\ nextCorrId = 1
    /\ ackSenders = {}
    /\ mapLocked = FALSE
    /\ innerLock = NoCall
    /\ handle = TRUE
    /\ flow \in BOOLEAN
    /\ inflight = {}
    /\ answer = [c \in Calls |-> Unanswered]
    /\ ctxPc = "idle"
    /\ ctxCall = NoCall
    /\ corrPtr = NoTag
    /\ taken = {}
    /\ forwarded = {}

\* The C session lives while an Arc of it does.
SessionAlive == handle \/ flow

\* The senders the map holds under an id.
Lookup(id) == {c \in ackSenders : corrId[c] = id}

Goto(c, step) == pc' = [pc EXCEPT ![c] = step]

\* What is delivered to the caller of a promise.
Outcome(a) == IF a = "ack" THEN "ok" ELSE "rejected"

-----------------------------------------------------------------------------
(* The publishing side.  publish_with_ack runs every step; publish starts  *)
(* at the session mutex.                                                   *)

\* An application thread enters publish_with_ack (t) or publish with a message
\* whose delivery mode is guaranteed (g) or DIRECT.
Begin(c, t, g) ==
    /\ handle
    /\ pc[c] = "idle"
    /\ Goto(c, IF t THEN "fetch" ELSE "lock")
    /\ tracked' = [tracked EXCEPT ![c] = t]
    /\ guaranteed' = [guaranteed EXCEPT ![c] = g]
    /\ UNCHANGED <<corrId, tag, result, nextCorrId, innerLock>>
    /\ UNCHANGED <<mapVars, lifeVars, brokerVars, ctxVars>>

\* Variant of FetchId: the counter is read but not advanced.
FetchIdShared(c) ==
    /\ pc[c] = "fetch"
    /\ corrId' = [corrId EXCEPT ![c] = nextCorrId]
    /\ Goto(c, "tag")
    /\ UNCHANGED <<tracked, guaranteed, tag, result, nextCorrId, innerLock>>
    /\ UNCHANGED <<mapVars, lifeVars, brokerVars, ctxVars>>

\* next_corr_id.fetch_add(1): a read and an increment in one step.
FetchId(c) ==
    /\ pc[c] = "fetch"
    /\ corrId' = [corrId EXCEPT ![c] = nextCorrId]
    /\ nextCorrId' = nextCorrId + 1
    /\ Goto(c, "tag")
    /\ UNCHANGED <<tracked, guaranteed, tag, result, innerLock>>
    /\ UNCHANGED <<mapVars, lifeVars, brokerVars, ctxVars>>

\* set_correlation_tag copies the id into the message; its return code is not
\* looked at, so a copy that failed leaves the message without a tag.
SetTag(c) ==
    /\ pc[c] = "tag"
    /\ \E t \in {corrId[c]} \cup (IF TagMayFail THEN {NoTag} ELSE {}) :
          tag' = [tag EXCEPT ![c] = t]
    /\ Goto(c, "insert")
    /\ UNCHANGED <<tracked, guaranteed, corrId, result, nextCorrId, innerLock>>
    /\ UNCHANGED <<mapVars, lifeVars, brokerVars, ctxVars>>

\* Create the channel and put its sender in the map.  HashMap::insert drops a
\* sender that was there under the same id, which closes its receiver.
InsertSender(c) ==
    /\ pc[c] = "insert"
    /\ ~mapLocked
    /\ LET replaced == Lookup(corrId[c])
       IN  /\ ackSenders' = (ackSenders \ replaced) \cup {c}
           /\ rx' = [d \in Calls |->
                       IF d = c THEN "waiting"
                       ELSE IF d \in replaced /\ rx[d] = "waiting" THEN "closed"
                       ELSE rx[d]]
    /\ Goto(c, "lock")
    /\ UNCHANGED <<tracked, guaranteed, corrId, tag, result, nextCorrId, innerLock>>
    /\ UNCHANGED <<mapLocked, lifeVars, brokerVars, ctxVars>>

\* publish: take the session mutex.
LockInner(c) ==
    /\ pc[c] = "lock"
    /\ innerLock = NoCall
    /\ innerLock' = c
    /\ Goto(c, "send")
    /\ UNCHANGED <<tracked, guaranteed, corrId, tag, result, nextCorrId>>
    /\ UNCHANGED <<mapVars, lifeVars, brokerVars, ctxVars>>

\* The C library accepts the message.  A guaranteed message waits for room in
\* the publisher window, with the session mutex held.
SendOk(c) ==
    /\ pc[c] = "send"
    /\ guaranteed[c] => Cardinality(inflight) < Window
    /\ inflight' = IF guaranteed[c] THEN inflight \cup {c} ELSE inflight
    /\ result' = [result EXCEPT ![c] = "ok"]
    /\ Goto(c, "unlock")
    /\ UNCHANGED <<tracked, guaranteed, corrId, tag, nextCorrId, innerLock>>
    /\ UNCHANGED <<mapVars, lifeVars, answer, ctxVars>>

\* The C library refuses the message (or times out waiting for the window).
SendErr(c) ==
    /\ SendMayFail
    /\ pc[c] = "send"
    /\ result' = [result EXCEPT ![c] = "err"]
    /\ Goto(c, "unlock")
    /\ UNCHANGED <<tracked, guaranteed, corrId, tag, nextCorrId, innerLock>>
    /\ UNCHANGED <<mapVars, lifeVars, brokerVars, ctxVars>>

\* publish returns and the mutex guard is dropped; only then does
\* publish_with_ack look at the result.
UnlockInner(c) ==
    /\ pc[c] = "unlock"
    /\ innerLock' = NoCall
    /\ Goto(c, IF tracked[c] /\ result[c] = "err" THEN "remove" ELSE "done")
    /\ UNCHANGED <<tracked, guaranteed, corrId, tag, result, nextCorrId>>
    /\ UNCHANGED <<mapVars, lifeVars, brokerVars, ctxVars>>

\* Variant of RemoveSender: the error is returned, the sender forgotten.
RemoveSenderForgotten(c) ==
    /\ pc[c] = "remove"
    /\ rx' = [rx EXCEPT ![c] = "dropped"]
    /\ Goto(c, "done")
    /\ UNCHANGED <<tracked, guaranteed, corrId, tag, result, nextCorrId, innerLock>>
    /\ UNCHANGED <<ackSenders, mapLocked, lifeVars, brokerVars, ctxVars>>

\* A failed publish takes its sender back and returns the error: the receiver
\* goes with the call.
RemoveSender(c) ==
    /\ pc[c] = "remove"
    /\ ~mapLocked
    /\ ackSenders' = ackSenders \ Lookup(corrId[c])
    /\ rx' = [rx EXCEPT ![c] = "dropped"]
    /\ Goto(c, "done")
    /\ UNCHANGED <<tracked, guaranteed, corrId, tag, result, nextCorrId, innerLock>>
    /\ UNCHANGED <<mapLocked, lifeVars, brokerVars, ctxVars>>

\* Variant of DropReceiver: a caller that gives up takes its sender along.
DropReceiverAndSender(c) ==
    /\ pc[c] = "done"
    /\ rx[c] = "waiting"
    /\ ~mapLocked
    /\ rx' = [rx EXCEPT ![c] = "dropped"]
    /\ ackSenders' = ackSenders \ {c}
    /\ UNCHANGED <<pubVars, mapLocked, lifeVars, brokerVars, ctxVars>>

\* The application stops waiting (a timeout around the receiver).
DropReceiver(c) ==
    /\ pc[c] = "done"
    /\ rx[c] = "waiting"
    /\ rx' = [rx EXCEPT ![c] = "dropped"]
    /\ UNCHANGED <<pubVars, ackSenders, mapLocked, lifeVars, brokerVars, ctxVars>>

Publisher(c) ==
    \/ FetchId(c)
    \/ SetTag(c)
    \/ InsertSender(c)
    \/ LockInner(c)
    \/ SendOk(c)
    \/ UnlockInner(c)
    \/ RemoveSender(c)

-----------------------------------------------------------------------------
(* The broker and the C library's context thread.                          *)

\* The broker acknowledges or rejects a guaranteed message, in any order.
BrokerAnswers(c, a) ==
    /\ c \in inflight
    /\ answer[c] = Unanswered
    /\ answer' = [answer EXCEPT ![c] = a]
    /\ UNCHANGED <<pubVars, mapVars, lifeVars, inflight, ctxVars>>

\* Variant of AnswerEvent: the thread-local is not set.
AnswerEventUnset(c) ==
    /\ SessionAlive
    /\ ctxPc = "idle"
    /\ c \in inflight
    /\ answer[c] \in Answers
    /\ ctxPc' = "closure"
    /\ ctxCall' = c
    /\ UNCHANGED <<pubVars, mapVars, lifeVars, brokerVars, corrPtr, taken, forwarded>>

\* static_on_event for an ACKNOWLEDGEMENT or REJECTED_MSG_ERROR event: publish
\* the event's correlation pointer to the closure through the thread-local.
AnswerEvent(c) ==
    /\ SessionAlive
    /\ ctxPc = "idle"
    /\ c \in inflight
    /\ answer[c] \in Answers
    /\ ctxPc' = "closure"
    /\ ctxCall' = c
    /\ corrPtr' = tag[c]
    /\ UNCHANGED <<pubVars, mapVars, lifeVars, brokerVars, taken, forwarded>>

\* static_on_event for every other event the crate knows.
OtherEvent ==
    /\ SessionAlive
    /\ ctxPc = "idle"
    /\ ctxPc' = "closure"
    /\ ctxCall' = NoCall
    /\ corrPtr' = NoTag
    /\ UNCHANGED <<pubVars, mapVars, lifeVars, brokerVars, taken, forwarded>>

\* Variant of ClosureTake: the closure also takes the session mutex.
ClosureTakeInner ==
    /\ ctxPc = "closure"
    /\ ctxCall # NoCall
    /\ corrPtr # NoTag
    /\ ~mapLocked
    /\ innerLock = NoCall
    /\ Lookup(corrPtr) # {}
    /\ taken' = Lookup(corrPtr)
    /\ ackSenders' = ackSenders \ Lookup(corrPtr)
    /\ mapLocked' = TRUE
    /\ ctxPc' = "resolve"
    /\ UNCHANGED <<pubVars, rx, lifeVars, brokerVars, ctxCall, corrPtr, forwarded>>

\* on_event: an answer with a correlation pointer is looked up; the guard of the
\* map lives until the sender has been used.
ClosureTake ==
    /\ ctxPc = "closure"
    /\ ctxCall # NoCall
    /\ corrPtr # NoTag
    /\ ~mapLocked
    /\ Lookup(corrPtr) # {}
    /\ taken' = Lookup(corrPtr)
    /\ ackSenders' = ackSenders \ Lookup(corrPtr)
    /\ mapLocked' = TRUE
    /\ ctxPc' = "resolve"
    /\ UNCHANGED <<pubVars, rx, lifeVars, brokerVars, ctxCall, corrPtr, forwarded>>

\* on_event: no pointer, no such id, or another kind of event.
ClosurePass ==
    /\ ctxPc = "closure"
    /\ \/ ctxCall = NoCall
       \/ corrPtr = NoTag
       \/ ~mapLocked /\ Lookup(corrPtr) = {}
    /\ ctxPc' = "forward"
    /\ UNCHANGED <<pubVars, mapVars, lifeVars, brokerVars, ctxCall, corrPtr, taken, forwarded>>

\* Variant of ClosureResolve: a rejection counts as an acknowledgement.
ClosureResolveOk ==
    /\ ctxPc = "resolve"
    /\ rx' = [d \in Calls |-> IF d \in taken /\ rx[d] = "waiting" THEN "ok" ELSE rx[d]]
    /\ taken' = {}
    /\ mapLocked' = FALSE
    /\ ctxPc' = "return"
    /\ UNCHANGED <<pubVars, ackSenders, lifeVars, brokerVars, ctxCall, corrPtr, forwarded>>

\* on_event: send the outcome; a receiver that is gone is not an error.
ClosureResolve ==
    /\ ctxPc = "resolve"
    /\ rx' = [d \in Calls |->
                IF d \in taken /\ rx[d] = "waiting" THEN Outcome(answer[ctxCall]) ELSE rx[d]]
    /\ taken' = {}
    /\ mapLocked' = FALSE
    /\ ctxPc' = "return"
    /\ UNCHANGED <<pubVars, ackSenders, lifeVars, brokerVars, ctxCall, corrPtr, forwarded>>

\* on_event: event_tx.send, to whoever reads the event channel, if anyone does.
ClosureForward ==
    /\ ctxPc = "forward"
    /\ forwarded' = forwarded \cup {ctxCall}
    /\ ctxPc' = "return"
    /\ UNCHANGED <<pubVars, mapVars, lifeVars, brokerVars, ctxCall, corrPtr, taken>>

\* static_on_event resets the thread-local and returns; the library then closes
\* the message's slot in the window.
EventReturn ==
    /\ ctxPc = "return"
    /\ corrPtr' = NoTag
    /\ inflight' = inflight \ {ctxCall}
    /\ ctxCall' = NoCall
    /\ ctxPc' = "idle"
    /\ UNCHANGED <<pubVars, mapVars, lifeVars, answer, taken, forwarded>>

-----------------------------------------------------------------------------
(* Ownership.                                                              *)

\* The last Arc goes: solClient_session_destroy, which no callback outlives,
\* then the closures, then the map and every sender left in it.
Teardown ==
    /\ ctxPc = "idle"
    /\ ackSenders' = {}
    /\ rx' = [c \in Calls |-> IF c \in ackSenders /\ rx[c] = "waiting" THEN "closed" ELSE rx[c]]
    /\ inflight' = {}
    /\ UNCHANGED mapLocked

\* Variant of DropSession: the map goes with the AsyncSession, flow or no flow.
DropSessionAndMap ==
    /\ handle
    /\ \A c \in Calls : pc[c] \in {"idle", "done"}
    /\ handle' = FALSE
    /\ Teardown
    /\ UNCHANGED <<pubVars, flow, answer, ctxVars>>

\* The AsyncSession is dropped or consumed by disconnect: no call is running.
\* With a flow alive the closures, and with them the map, stay.
DropSession ==
    /\ handle
    /\ \A c \in Calls : pc[c] \in {"idle", "done"}
    /\ handle' = FALSE
    /\ IF flow THEN UNCHANGED <<mapVars, inflight>> ELSE Teardown
    /\ UNCHANGED <<pubVars, flow, answer, ctxVars>>

\* The OwnedAsyncFlow is dropped; it may hold the last Arc.
DropFlow ==
    /\ flow
    /\ flow' = FALSE
    /\ IF handle THEN UNCHANGED <<mapVars, inflight>> ELSE Teardown
    /\ UNCHANGED <<pubVars, handle, answer, ctxVars>>

\* Everything has been dropped: the only state in which the system stops.
Finished ==
    /\ ~SessionAlive
    /\ UNCHANGED vars

Next ==
    \/ \E c \in Calls, t, g \in BOOLEAN : Begin(c, t, g)
    \/ \E c \in Calls : Publisher(c) \/ SendErr(c) \/ DropReceiver(c)
    \/ \E c \in Calls, a \in Answers : BrokerAnswers(c, a)
    \/ \E c \in Calls : AnswerEvent(c)
    \/ OtherEvent
    \/ ClosureTake
    \/ ClosurePass
    \/ ClosureResolve
    \/ ClosureForward
    \/ EventReturn
    \/ DropSession
    \/ DropFlow
    \/ Finished

Spec == Init /\ [][Next]_vars

\* A thread that can step does; the library delivers events in the order they
\* arrive, so an answer is not overtaken for ever; the broker answers what it got.
Fairness ==
    /\ \A c \in Calls : WF_vars(Publisher(c)) /\ SF_vars(AnswerEvent(c))
    /\ \A c \in Calls : WF_vars(\E a \in Answers : BrokerAnswers(c, a))
    /\ WF_vars(ClosureTake \/ ClosurePass \/ ClosureResolve \/ ClosureForward \/ EventReturn)

FairSpec == Spec /\ Fairness

-----------------------------------------------------------------------------
(* Properties.                                                             *)

\* A receiver yields Ok only when the broker acknowledged its own message and
\* Err(AcknowledgementRejected) only when the broker rejected it, whatever the
\* other calls and their answers do (async_support.rs:388-389).
PromisesKeepTheAnswer ==
    \A c \in Calls : /\ rx[c] = "ok" => answer[c] = "ack"
                     /\ rx[c] = "rejected" => answer[c] = "reject"

\* The answer to a message that carries a correlation tag is never handed to the
\* event channel: however early it comes, the sender is in the map before the
\* message can be sent (async_support.rs:214-232, 398-401).
TaggedAnswersStayPrivate ==
    \A c \in Calls : c \in forwarded => tag[c] = NoTag

\* A sender stays in the map only while its call is still publishing, or while
\* an answer to its message is outstanding: a failed publish and a resolved one
\* leave nothing behind.  The exceptions are what the map keeps until the
\* session goes: DIRECT messages, and messages that lost their tag.
SendersAreOwed ==
    \A c \in ackSenders :
        \/ /\ result[c] # "ok"
           /\ pc[c] \in {"lock", "send", "unlock", "remove"}
        \/ /\ result[c] = "ok"
           /\ c \in inflight \/ ~guaranteed[c] \/ tag[c] = NoTag

\* Whoever awaits a receiver has a sender that is in the map or in the closure's
\* hands; a receiver closes without an answer only when the C session is gone.
WaitersAreServed ==
    \A c \in Calls : /\ rx[c] = "waiting" => c \in ackSenders \cup taken
                     /\ rx[c] = "closed" => ~SessionAlive

\* The doc's reading of publish_with_ack (async_support.rs:384-389): the answer
\* to a tracked message resolves its receiver, so it never shows up as an event.
TrackedAnswersAreNotEvents ==
    \A c \in Calls : c \in forwarded => ~tracked[c]

\* Every promise resolves at most once, only with the broker's answer, and
\* closes unanswered only at teardown: the abstract specification.
AP == INSTANCE AckPromise WITH promise <- rx, answer <- answer, open <- SessionAlive
ImplementsAckPromise == AP!Spec

\* A publish that has come to the session mutex returns: nobody waits for the
\* context thread while holding something the context thread needs.
EveryPublishReturns ==
    \A c \in Calls : pc[c] = "lock" ~> pc[c] = "done"

\* Once the broker has answered, a tagged message's receiver stops waiting
\* (it resolves, or its owner or the session has gone).
EveryAnswerArrives ==
    \A c \in Calls :
        (answer[c] # Unanswered /\ tag[c] # NoTag) ~> rx[c] # "waiting"

-----------------------------------------------------------------------------
(* The inductive invariant behind the safety properties.                   *)

\* Ids are unique, and a message's tag is the id of its own call or missing.
IdsAreUnique ==
    \A c \in Calls :
        /\ corrId[c] < nextCorrId
        /\ tag[c] \in {NoTag, corrId[c]}
        /\ \A d \in Calls : corrId[c] = corrId[d] /\ corrId[c] # NoTag => c = d

\* What a call has done by the time it is at a step.
CallsAreInStep ==
    \A c \in Calls :
        /\ pc[c] \in {"fetch", "tag", "insert", "remove"} => tracked[c]
        /\ pc[c] \in {"idle", "fetch"} \/ ~tracked[c] => corrId[c] = NoTag
        /\ pc[c] \in {"idle", "fetch", "tag", "insert"} \/ ~tracked[c] =>
              rx[c] = "none" /\ c \notin ackSenders
        /\ tracked[c] /\ pc[c] \notin {"idle", "fetch"} => corrId[c] # NoTag
        /\ tracked[c] /\ pc[c] \in {"lock", "send", "unlock", "remove"} => rx[c] # "none"
        /\ result[c] = "none" <=> pc[c] \in {"idle", "fetch", "tag", "insert", "lock", "send"}
        /\ result[c] = "ok" => pc[c] \in {"unlock", "done"}
        /\ pc[c] = "remove" => result[c] = "err" /\ rx[c] = "waiting"
        /\ c \in inflight => result[c] = "ok" /\ guaranteed[c]
        /\ answer[c] # Unanswered => result[c] = "ok"
        /\ c \in forwarded => result[c] = "ok"
        /\ ~handle => pc[c] \in {"idle", "done"}
        /\ pc[c] \in {"idle", "fetch", "tag"} => tag[c] = NoTag

\* What the map holds, and whose senders it must hold.
MapIsRight ==
    \A c \in Calls :
        /\ c \in ackSenders => rx[c] \in {"waiting", "dropped"} /\ c \notin taken
        /\ pc[c] \in {"lock", "send"} /\ tracked[c] => c \in ackSenders /\ rx[c] = "waiting"
        /\ result[c] = "err" /\ pc[c] = "unlock" /\ tracked[c] => c \in ackSenders /\ rx[c] = "waiting"
        /\ tag[c] # NoTag /\ c \in inflight /\ ~(ctxCall = c /\ ctxPc \in {"resolve", "return"}) =>
              c \in ackSenders
        /\ tag[c] # NoTag /\ ctxCall = c /\ ctxPc \in {"resolve", "return"} => c \notin ackSenders

\* Where the context thread is in an event.
EventIsRight ==
    /\ ctxPc = "idle" => ctxCall = NoCall
    /\ ctxCall = NoCall => corrPtr = NoTag
    /\ ctxCall # NoCall => /\ ctxCall \in inflight
                           /\ answer[ctxCall] \in Answers
                           /\ corrPtr = tag[ctxCall]
    /\ ctxPc = "forward" /\ ctxCall # NoCall => tag[ctxCall] = NoTag
    /\ taken = IF ctxPc = "resolve" THEN {ctxCall} ELSE {}
    /\ ctxPc = "resolve" => ctxCall # NoCall
    /\ mapLocked <=> ctxPc = "resolve"

\* After the last Arc there is nothing left to happen.
TeardownIsFinal ==
    ~SessionAlive => ackSenders = {} /\ inflight = {} /\ ctxPc = "idle"

IInv ==
    /\ TypeOK
    /\ IdsAreUnique
    /\ CallsAreInStep
    /\ MapIsRight
    /\ EventIsRight
    /\ TeardownIsFinal
    /\ PromisesKeepTheAnswer
    /\ TaggedAnswersStayPrivate
    /\ SendersAreOwed
    /\ WaitersAreServed
=============================================================================
