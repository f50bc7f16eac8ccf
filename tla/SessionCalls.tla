---------------------------- MODULE SessionCalls ----------------------------
(***************************************************************************)
(* Threads share an AsyncSession (src/async_support.rs).  publish,         *)
(* publish_multiple, subscribe, unsubscribe and create_flow borrow it and  *)
(* hold its one mutex through their C call; recv, recv_event, try_recv and *)
(* take_event_receiver need it mutably.  Meanwhile the context thread      *)
(* works off what arrives for the session, one thing after the other: the  *)
(* broker's answer to a bind, events and messages.                         *)
(*                                                                         *)
(* publish_with_ack and acknowledgements are in AsyncPublish, where the    *)
(* publisher window is; messages of flows are in FlowDelivery, and only    *)
(* the events of a flow here.  A thread creates one flow at most.          *)
(***************************************************************************)
EXTENDS GlobalInit, SequencesExt

CONSTANTS
    NoThread,
    ChunkLimit,     \* SOLCLIENT_SESSION_SEND_MULTIPLE_LIMIT
    RawEvents,      \* the session events the library raises in a run
    MaxArrivals     \* bounds the run: events and messages that arrive

ASSUME ThreadsAssumption == NoThread \notin Threads /\ Threads \cap {"event", "message", "bind"} = {}
ASSUME ChunkAssumption == ChunkLimit \in Nat \ {0}
ASSUME SizesAssumption ==
    \A p \in Programs, t \in Threads : \A i \in DOMAIN p[t] :
        p[t][i].op = "publish_multiple" => p[t][i].size \in Nat

VARIABLES
    innerLock,      \* who holds the session mutex
    sent,           \* sent[t]: messages of t's call in chunks that have gone out
    wire,           \* the messages the library has written: <<thread, call, index>>
    topics,         \* what the session is subscribed to at the broker
    inbound,        \* what the context thread has to work off: [kind, value]
    bound,          \* the threads whose bind the context thread has completed
    flows,          \* the threads that have a flow
    arrivals,       \* how many events and messages the library has raised
    arrived,        \* those the crate knows, by kind
    channel,        \* the unbounded channels of the session and of each flow, by kind
    received,       \* what the application took out of them, by kind
    eventsTaken     \* the event receiver belongs to somebody else

lockVars == <<innerLock, sent, wire>>
contextVars == <<inbound, bound, flows, arrivals, arrived>>
channelVars == <<channel, received, eventsTaken>>
sessionVars == <<lockVars, topics, contextVars, channelVars>>

\* What arrives for the session, and for the flow of a thread.
Kinds == {"event", "message"} \cup Threads

SessionCallsInit ==
    /\ innerLock = NoThread
    /\ sent = [t \in Threads |-> 0]
    /\ wire = <<>>
    /\ topics = {}
    /\ inbound = <<>>
    /\ bound = {}
    /\ flows = {}
    /\ arrivals = 0
    /\ arrived = [kind \in Kinds |-> <<>>]
    /\ channel = [kind \in Kinds |-> <<>>]
    /\ received = [kind \in Kinds |-> <<>>]
    /\ eventsTaken = FALSE

-----------------------------------------------------------------------------
(* Borrows and the mutex.                                                  *)

SharedOps == {"publish", "publish_multiple", "subscribe", "unsubscribe", "create_flow"}

\* The session as the borrow checker has it: one &mut self, or any number of &self.
Shares(t) == pc[t] \in {"lock", "send", "subscribe", "bind"}
Excludes(t) == pc[t] = "recv"
MayShare(t) == \A u \in Threads \ {t} : ~Excludes(u)
MayExclude(t) == \A u \in Threads \ {t} : ~Excludes(u) /\ ~Shares(u)

\* create_flow makes its strings before it locks.
RefuseQueueName(t) ==
    /\ ReadyFor(t, "create_flow") /\ Call(t).name = "nul" /\ MayShare(t)
    /\ Return(t, "InvalidArgsNulError")
    /\ UNCHANGED sessionVars

Enter(t) ==
    /\ \E op \in SharedOps : ReadyFor(t, op)
    /\ Call(t).op = "create_flow" => Call(t).name # "nul"
    /\ MayShare(t)
    /\ Goto(t, "lock")
    /\ UNCHANGED sessionVars

LockedStep == [publish |-> "send", publish_multiple |-> "send", subscribe |-> "subscribe",
               unsubscribe |-> "subscribe", create_flow |-> "bind"]

\* self.inner.lock().
Lock(t) ==
    /\ pc[t] = "lock"
    /\ innerLock = NoThread
    /\ innerLock' = t
    /\ Goto(t, LockedStep[Call(t).op])
    /\ UNCHANGED <<sent, wire, topics, contextVars, channelVars>>

-----------------------------------------------------------------------------
(* Publishing: publish is a batch of one.                                  *)

Batch(t) == IF Call(t).op = "publish" THEN 1 ELSE Call(t).size
ChunkSize(t) == IF Batch(t) - sent[t] < ChunkLimit THEN Batch(t) - sent[t] ELSE ChunkLimit
Messages(t, n) == [k \in 1 .. n |-> <<t, at[t], sent[t] + k>>]

\* An empty batch makes no C call.
SendNothing(t) ==
    /\ pc[t] = "send" /\ Batch(t) = 0
    /\ innerLock' = NoThread
    /\ Return(t, "Ok")
    /\ UNCHANGED <<sent, wire, topics, contextVars, channelVars>>

\* Variant of SendChunk: the session is locked for each chunk and not for the batch.
SendChunkUnlocking(t) ==
    /\ pc[t] = "send" /\ Batch(t) > 0
    /\ wire' = wire \o Messages(t, ChunkSize(t))
    /\ innerLock' = NoThread
    /\ IF sent[t] + ChunkSize(t) = Batch(t)
       THEN sent' = [sent EXCEPT ![t] = 0] /\ ReturnFrom(t, RawCodes.Ok)
       ELSE sent' = [sent EXCEPT ![t] = @ + ChunkSize(t)] /\ Goto(t, "lock")
    /\ UNCHANGED <<topics, contextVars, channelVars>>

\* solClient_session_sendMsg or sendMultipleMsg takes a whole chunk; the mutex goes with
\* the last.
SendChunk(t) ==
    /\ pc[t] = "send" /\ Batch(t) > 0
    /\ wire' = wire \o Messages(t, ChunkSize(t))
    /\ IF sent[t] + ChunkSize(t) = Batch(t)
       THEN /\ sent' = [sent EXCEPT ![t] = 0]
            /\ innerLock' = NoThread
            /\ ReturnFrom(t, RawCodes.Ok)
       ELSE /\ sent' = [sent EXCEPT ![t] = @ + ChunkSize(t)]
            /\ UNCHANGED <<innerLock, callVars>>
    /\ UNCHANGED <<topics, contextVars, channelVars>>

\* It fails with n messages of the chunk written, which n_written says and nobody reads;
\* the other chunks are not tried.
SendFails(t, raw, n) ==
    /\ pc[t] = "send" /\ Batch(t) > 0
    /\ n <= ChunkSize(t) /\ (Call(t).op = "publish" => n = 0)
    /\ wire' = wire \o Messages(t, n)
    /\ sent' = [sent EXCEPT ![t] = 0]
    /\ innerLock' = NoThread
    /\ ReturnFrom(t, raw)
    /\ UNCHANGED <<topics, contextVars, channelVars>>

-----------------------------------------------------------------------------
(* Subscriptions.                                                          *)

\* CString::new fails behind the lock: the mutex is held for nothing.
RefuseTopic(t) ==
    /\ pc[t] = "subscribe" /\ Call(t).topic = "nul"
    /\ innerLock' = NoThread
    /\ Return(t, "InvalidArgsNulError")
    /\ UNCHANGED <<sent, wire, topics, contextVars, channelVars>>

\* solClient_session_topicSubscribe or topicUnsubscribe returns; when it fails the broker
\* may have done it all the same.
SetSubscription(t, raw) ==
    /\ pc[t] = "subscribe" /\ Call(t).topic # "nul"
    /\ LET done == IF Call(t).op = "subscribe" THEN topics \cup {Call(t).topic} ELSE topics \ {Call(t).topic}
       IN  IF IsOk(FromRaw(raw)) THEN topics' = done ELSE topics' \in {done, topics}
    /\ innerLock' = NoThread
    /\ ReturnFrom(t, raw)
    /\ UNCHANGED <<sent, wire, contextVars, channelVars>>

-----------------------------------------------------------------------------
(* create_flow binds, and waits for the context thread to hear the answer. *)

BrokerAnswersBind(t) ==
    /\ pc[t] = "bind" /\ t \notin bound
    /\ \A i \in DOMAIN inbound : inbound[i] # [kind |-> "bind", value |-> t]
    /\ inbound' = Append(inbound, [kind |-> "bind", value |-> t])
    /\ UNCHANGED <<callVars, lockVars, topics, bound, flows, arrivals, arrived, channelVars>>

\* solClient_session_createFlow returns: at once when it fails, behind the answer otherwise.
BindReturns(t, raw) ==
    /\ pc[t] = "bind"
    /\ raw = RawCodes.Fail \/ t \in bound
    /\ inbound' = RemoveFirst(inbound, [kind |-> "bind", value |-> t])
    /\ bound' = bound \ {t}
    /\ flows' = IF IsOk(FromRaw(raw)) THEN flows \cup {t} ELSE flows
    /\ innerLock' = NoThread
    /\ ReturnFrom(t, raw)
    /\ UNCHANGED <<sent, wire, topics, arrivals, arrived, channelVars>>

-----------------------------------------------------------------------------
(* The context thread.                                                     *)

\* Bounds the run: things arrive only in programs in which somebody listens or binds.
Listened == \E t \in Threads : \E i \in DOMAIN program[t] :
                program[t][i].op \in {"recv", "recv_event", "try_recv", "create_flow"}

\* static_on_event and static_on_flow_event leave out what they do not know.
Passed(kind, value) ==
    CASE kind = "message" -> <<value>>
      [] kind = "event" -> Translate(SessionEvents, value)
      [] OTHER -> Translate(FlowEvents, value)

\* The library raises an event of the session or a flow, or a message arrives for a
\* subscription.
Arrives(kind, value) ==
    /\ Listened
    /\ arrivals < MaxArrivals
    /\ kind = "message" => topics # {}
    /\ kind \in Threads => kind \in flows
    /\ arrivals' = arrivals + 1
    /\ arrived' = [arrived EXCEPT ![kind] = @ \o Passed(kind, value)]
    /\ inbound' = Append(inbound, [kind |-> kind, value |-> value])
    /\ UNCHANGED <<callVars, lockVars, topics, bound, flows, channelVars>>

\* Variant of HandleInbound: the closures use the session, and so lock it.
HandleInboundLocked ==
    /\ innerLock = NoThread
    /\ inbound # <<>>
    /\ inbound' = Tail(inbound)
    /\ LET item == Head(inbound)
       IN  IF item.kind = "bind" THEN bound' = bound \cup {item.value} /\ UNCHANGED channel
           ELSE channel' = [channel EXCEPT ![item.kind] = @ \o Passed(item.kind, item.value)] /\ UNCHANGED bound
    /\ UNCHANGED <<callVars, lockVars, topics, flows, arrivals, arrived, received, eventsTaken>>

\* The context thread takes the next thing: the answer to a bind ends the C call that waits
\* for it, events and messages go through static_on_event, static_on_message and
\* static_on_flow_event to the closures of AsyncSessionBuilder::build and create_flow_active,
\* which send them to the channels.
HandleInbound ==
    /\ inbound # <<>>
    /\ inbound' = Tail(inbound)
    /\ LET item == Head(inbound)
       IN  IF item.kind = "bind" THEN bound' = bound \cup {item.value} /\ UNCHANGED channel
           ELSE channel' = [channel EXCEPT ![item.kind] = @ \o Passed(item.kind, item.value)] /\ UNCHANGED bound
    /\ UNCHANGED <<callVars, lockVars, topics, flows, arrivals, arrived, received, eventsTaken>>

-----------------------------------------------------------------------------
(* Receiving.                                                              *)

KindOf(t) ==
    CASE Call(t).op = "recv_event" -> "event"
      [] Call(t).op \in {"flow_recv_event", "flow_try_recv_event"} -> t
      [] OTHER -> "message"

Take(kind) ==
    /\ channel[kind] # <<>>
    /\ received' = [received EXCEPT ![kind] = Append(@, Head(channel[kind]))]
    /\ channel' = [channel EXCEPT ![kind] = Tail(@)]
    /\ UNCHANGED eventsTaken

\* recv, poll_next and recv_event hold the session mutably until something comes.
BeginRecv(t) ==
    /\ \E op \in {"recv", "recv_event"} : ReadyFor(t, op)
    /\ MayExclude(t)
    /\ Goto(t, "recv")
    /\ UNCHANGED sessionVars

\* recv_event of a flow borrows the flow, which is the thread's own.
BeginFlowRecv(t) ==
    /\ ReadyFor(t, "flow_recv_event") /\ t \in flows
    /\ Goto(t, "flow_recv")
    /\ UNCHANGED sessionVars

\* create_flow has failed: there is nothing to call.
NoFlow(t) ==
    /\ \E op \in {"flow_recv_event", "flow_try_recv_event"} : ReadyFor(t, op)
    /\ t \notin flows
    /\ Return(t, "NoFlow")
    /\ UNCHANGED sessionVars

\* The receiver recv_event is left with after take_event_receiver has no sender.
ReceiverClosed(t) == Call(t).op = "recv_event" /\ eventsTaken

RecvSome(t) ==
    /\ pc[t] \in {"recv", "flow_recv"} /\ ~ReceiverClosed(t)
    /\ Take(KindOf(t))
    /\ Return(t, "Some")
    /\ UNCHANGED <<lockVars, topics, contextVars>>

RecvNone(t) ==
    /\ pc[t] = "recv" /\ ReceiverClosed(t)
    /\ Return(t, "None")
    /\ UNCHANGED sessionVars

\* try_recv of the session, try_recv_event of a flow.
TryRecv(t) ==
    /\ (ReadyFor(t, "try_recv") /\ MayExclude(t)) \/ (ReadyFor(t, "flow_try_recv_event") /\ t \in flows)
    /\ IF channel[KindOf(t)] = <<>>
       THEN Return(t, "Empty") /\ UNCHANGED channelVars
       ELSE Return(t, "Some") /\ Take(KindOf(t))
    /\ UNCHANGED <<lockVars, topics, contextVars>>

\* Variant of TakeEventReceiver: both sides of the channel are made anew.
TakeEventReceiverAnew(t) ==
    /\ ReadyFor(t, "take_event_receiver") /\ MayExclude(t)
    /\ eventsTaken' = TRUE
    /\ channel' = [channel EXCEPT !.event = <<>>]
    /\ Return(t, "Some")
    /\ UNCHANGED <<lockVars, topics, contextVars, received>>

\* The receiver goes to the caller with all that is in it; a second caller gets a closed one.
TakeEventReceiver(t) ==
    /\ ReadyFor(t, "take_event_receiver") /\ MayExclude(t)
    /\ eventsTaken' = TRUE
    /\ Return(t, IF eventsTaken THEN "Closed" ELSE "Some")
    /\ UNCHANGED <<lockVars, topics, contextVars, channel, received>>

\* The task that took the receiver drains it.
Drain ==
    /\ eventsTaken
    /\ Take("event")
    /\ UNCHANGED <<callVars, lockVars, topics, contextVars>>

-----------------------------------------------------------------------------
SendCodes == {RawCodes.NotReady, RawCodes.Fail}
BindCodes == {RawCodes.Ok, RawCodes.NotReady, RawCodes.Fail}

SessionStep(t) ==
    \/ RefuseQueueName(t) \/ Enter(t) \/ Lock(t)
    \/ SendNothing(t) \/ SendChunk(t) \/ \E raw \in SendCodes, n \in 0 .. ChunkLimit : SendFails(t, raw, n)
    \/ RefuseTopic(t) \/ \E raw \in BindCodes : SetSubscription(t, raw) \/ BindReturns(t, raw)
    \/ BeginRecv(t) \/ BeginFlowRecv(t) \/ NoFlow(t) \/ RecvSome(t) \/ RecvNone(t) \/ TryRecv(t) \/ TakeEventReceiver(t)

ContextStep ==
    \/ HandleInbound
    \/ Drain
    \/ \E t \in Threads : BrokerAnswersBind(t)

Arrival ==
    \/ \E raw \in RawEvents, kind \in Kinds \ {"message"} : Arrives(kind, raw)
    \/ Arrives("message", Len(arrived.message) + 1)

-----------------------------------------------------------------------------
\* The messages of one call are written together, in the order of the caller's slice, from its
\* first: nobody's message comes in between, a call that returns Ok has written all of them
\* and one that fails a first part (session.rs:66-71, the chunks of one batch).
BatchesStayTogether ==
    /\ \A i \in DOMAIN wire \ {1} :
          \/ wire[i][3] = 1 /\ \A j \in 1 .. i - 1 : <<wire[j][1], wire[j][2]>> # <<wire[i][1], wire[i][2]>>
          \/ wire[i] = <<wire[i - 1][1], wire[i - 1][2], wire[i - 1][3] + 1>>
    /\ wire # <<>> => wire[1][3] = 1
    /\ \A call \in Ended :
          CallOf(call).op \in {"publish", "publish_multiple"} /\ Result(call) = "Ok" =>
              LET size == IF CallOf(call).op = "publish" THEN 1 ELSE CallOf(call).size
              IN  size > 0 => \E i \in DOMAIN wire : wire[i] = <<call[1], call[2], size>>

\* What waits for the context thread and is to come out of the channel of a kind.
Waits(kind, item) == item.kind = kind /\ Passed(kind, item.value) # <<>>

\* Every event the crate knows, and every message, comes out of its own channel once and in
\* the order of arrival, whoever holds the event receiver and whenever it changed hands:
\* what came out so far is the beginning of what arrived, and the rest still waits
\* (async_support.rs:356-364).
ArrivalsComeThroughInOrder ==
    \A kind \in Kinds :
        LET heard == received[kind] \o channel[kind]
        IN  /\ IsPrefix(heard, arrived[kind])
            /\ Len(arrived[kind]) = Len(heard) + Cardinality({i \in DOMAIN inbound : Waits(kind, inbound[i])})
=============================================================================
