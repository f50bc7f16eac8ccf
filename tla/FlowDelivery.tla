---------------------------- MODULE FlowDelivery ----------------------------
(***************************************************************************)
(* Guaranteed delivery on an OwnedAsyncFlow (src/async_support.rs) and on  *)
(* the Flow of a FlowBuilder (src/flow/).                                  *)
(*                                                                         *)
(* The broker pushes the messages of a queue; the C library calls the      *)
(* flow's on_message closure on the context thread.  The closure of an     *)
(* OwnedAsyncFlow moves them to an unbounded channel, which the            *)
(* application reads; that of a Flow is the application's.  In AckMode::   *)
(* Client the application settles what it received.  The C library         *)
(* collects acknowledgements and sends them in bulk.  Flows are dropped    *)
(* and bound again, and a session that reconnects binds its flow again by  *)
(* itself.                                                                 *)
(***************************************************************************)
EXTENDS Naturals, FiniteSets, Sequences, SequencesExt

CONSTANTS
    N,              \* messages 1 .. N are in the queue, in this order
    Window,         \* window_size: messages in transit to the flow
    MaxUnacked,     \* delivered, unacknowledged messages the broker allows
    MaxBinds        \* bounds the run: bindings, reconnections included

Msgs == 1 .. N

ASSUME BoundsAssumption == {Window, MaxUnacked, MaxBinds} \subseteq Nat \ {0} /\ N \in Nat

VARIABLES
    api,            \* "channel": an OwnedAsyncFlow, "callback": a Flow
    mode,           \* the flow's AckMode
    flow,
    binds,          \* bindings so far
    spool,          \* what the broker keeps
    unacked,        \* what it has sent on this binding and not seen acknowledged
    transit,        \* what on_message has not been called for
    msgRx,          \* the channel of an OwnedAsyncFlow
    held,           \* received by the application, not settled
    ackBuf,         \* settled, on its way to the broker
    seen,           \* every message the application has received
    accepted        \* every message it has accepted

bindVars == <<api, mode, flow, binds>>
brokerVars == <<spool, unacked, transit>>
appVars == <<seen, accepted>>
vars == <<bindVars, brokerVars, msgRx, held, ackBuf, appVars>>

-----------------------------------------------------------------------------
TypeOK ==
    /\ api \in {"channel", "callback"}
    /\ mode \in {"Auto", "Client"}
    /\ flow \in {"none", "stopped", "started"}
    /\ binds \in 0 .. MaxBinds
    /\ {spool, unacked, held, ackBuf, seen, accepted} \subseteq SUBSET Msgs
    /\ {transit, msgRx} \subseteq Seq(Msgs)
    /\ unacked \subseteq spool

Init ==
    /\ api \in {"channel", "callback"}
    /\ mode \in {"Auto", "Client"}
    /\ flow = "none"
    /\ binds = 0
    /\ spool = Msgs
    /\ unacked = {}
    /\ transit = <<>>
    /\ msgRx = <<>>
    /\ held = {}
    /\ ackBuf = {}
    /\ seen = {}
    /\ accepted = {}

-----------------------------------------------------------------------------
(* Binding.                                                                *)

\* create_flow binds with START_STATE 0: nothing is delivered before start().
CreateFlow ==
    /\ api = "channel" /\ flow = "none"
    /\ binds < MaxBinds
    /\ flow' = "stopped"
    /\ binds' = binds + 1
    /\ UNCHANGED <<api, mode, brokerVars, msgRx, held, ackBuf, appVars>>

\* FlowBuilder::build: started, unless start_state(false) was asked for.  The library may
\* deliver before it returns.
BuildFlow ==
    /\ api = "callback" /\ flow = "none"
    /\ binds < MaxBinds
    /\ flow' \in {"stopped", "started"}
    /\ binds' = binds + 1
    /\ UNCHANGED <<api, mode, brokerVars, msgRx, held, ackBuf, appVars>>

Start ==
    /\ flow = "stopped"
    /\ flow' = "started"
    /\ UNCHANGED <<api, mode, binds, brokerVars, msgRx, held, ackBuf, appVars>>

\* stop() closes the window; what is in transit still arrives.
Stop ==
    /\ flow = "started"
    /\ flow' = "stopped"
    /\ UNCHANGED <<api, mode, binds, brokerVars, msgRx, held, ackBuf, appVars>>

\* The broker's side of a binding that ends: acknowledgements that made it count,
\* the rest of what was sent is back in the queue.
Unbind(acks) ==
    /\ spool' = spool \ (acks \cap unacked)
    /\ unacked' = {}
    /\ transit' = <<>>
    /\ ackBuf' = {}

\* OwnedAsyncFlow::drop, Flow::drop.  A channel goes with its messages, and without a flow
\* nothing the application still holds can be settled.  The library may get its
\* last acknowledgements out or time out.
DropFlow ==
    /\ flow # "none"
    /\ flow' = "none"
    /\ \E acks \in {{}, ackBuf} : Unbind(acks)
    /\ msgRx' = <<>>
    /\ held' = {}
    /\ UNCHANGED <<api, mode, binds, appVars>>

\* The connection is lost and found again; the flow, its channel and what the
\* application holds stay.
Reconnect ==
    /\ flow # "none"
    /\ binds < MaxBinds
    /\ binds' = binds + 1
    /\ Unbind({})
    /\ UNCHANGED <<api, mode, flow, msgRx, held, appVars>>

-----------------------------------------------------------------------------
(* Delivery.                                                               *)

\* The broker pushes the oldest message that is not out.
Push ==
    /\ flow = "started"
    /\ Len(transit) < Window
    /\ Cardinality(unacked) < MaxUnacked
    /\ \E m \in spool \ unacked :
          /\ \A k \in spool \ unacked : m <= k
          /\ unacked' = unacked \cup {m}
          /\ transit' = Append(transit, m)
    /\ UNCHANGED <<bindVars, spool, msgRx, held, ackBuf, appVars>>

\* Variant of OnMessage: every flow acknowledges when the callback returns.
OnMessageAcked ==
    /\ api = "channel" /\ transit # <<>>
    /\ msgRx' = Append(msgRx, Head(transit))
    /\ transit' = Tail(transit)
    /\ ackBuf' = ackBuf \cup {Head(transit)}
    /\ UNCHANGED <<bindVars, spool, unacked, held, appVars>>

\* Variant of OnMessage: a bounded channel that is full loses the message.
OnMessageBounded ==
    /\ api = "channel" /\ transit # <<>>
    /\ msgRx' = IF msgRx = <<>> THEN Append(msgRx, Head(transit)) ELSE msgRx
    /\ transit' = Tail(transit)
    /\ ackBuf' = IF mode = "Auto" THEN ackBuf \cup {Head(transit)} ELSE ackBuf
    /\ UNCHANGED <<bindVars, spool, unacked, held, appVars>>

\* static_on_flow_message and the closure: into the channel, whoever reads it.
\* In AckMode::Auto the library acknowledges as soon as the callback returns.
OnMessage ==
    /\ api = "channel" /\ transit # <<>>
    /\ msgRx' = Append(msgRx, Head(transit))
    /\ transit' = Tail(transit)
    /\ ackBuf' = IF mode = "Auto" THEN ackBuf \cup {Head(transit)} ELSE ackBuf
    /\ UNCHANGED <<bindVars, spool, unacked, held, appVars>>

\* static_on_flow_message and the application's closure, which holds on to the message
\* if it has to settle it later: it cannot itself, the flow is not built before it.
OnMessageDirect ==
    /\ api = "callback" /\ transit # <<>>
    /\ transit' = Tail(transit)
    /\ seen' = seen \cup {Head(transit)}
    /\ held' = IF mode = "Client" THEN held \cup {Head(transit)} ELSE held
    /\ ackBuf' = IF mode = "Auto" THEN ackBuf \cup {Head(transit)} ELSE ackBuf
    /\ UNCHANGED <<bindVars, spool, unacked, msgRx, accepted>>

\* recv, try_recv or the Stream.
Recv ==
    /\ msgRx # <<>>
    /\ msgRx' = Tail(msgRx)
    /\ seen' = seen \cup {Head(msgRx)}
    /\ held' = IF mode = "Client" THEN held \cup {Head(msgRx)} ELSE held
    /\ UNCHANGED <<bindVars, brokerVars, ackBuf, accepted>>

\* Variant of Ack: the acknowledgement is lost on its way to the library.
AckLost(m) ==
    /\ flow # "none"
    /\ m \in held
    /\ held' = held \ {m}
    /\ accepted' = accepted \cup {m}
    /\ UNCHANGED <<bindVars, brokerVars, msgRx, ackBuf, seen>>

\* ack(id).
Ack(m) ==
    /\ flow # "none"
    /\ m \in held
    /\ held' = held \ {m}
    /\ ackBuf' = ackBuf \cup {m}
    /\ accepted' = accepted \cup {m}
    /\ UNCHANGED <<bindVars, brokerVars, msgRx, seen>>

MessageOutcome == {"Accepted", "Failed", "Rejected"}

\* settle(id, outcome).  No flow of the crate sets REQUIRED_OUTCOME_FAILED or
\* REQUIRED_OUTCOME_REJECTED: the library refuses these outcomes with
\* INVALID_FLOW_OPERATION and the message stays as it is.
Settle(m, outcome) ==
    /\ flow # "none"
    /\ m \in held
    /\ IF outcome = "Accepted"
       THEN held' = held \ {m} /\ ackBuf' = ackBuf \cup {m} /\ accepted' = accepted \cup {m}
       ELSE UNCHANGED <<held, ackBuf, accepted>>
    /\ UNCHANGED <<bindVars, brokerVars, msgRx, seen>>

\* The library's threshold or timer.  The broker ignores acknowledgements of
\* messages it has not sent on this binding.
FlushAcks ==
    /\ flow # "none"
    /\ ackBuf # {}
    /\ spool' = spool \ (ackBuf \cap unacked)
    /\ unacked' = unacked \ ackBuf
    /\ ackBuf' = {}
    /\ UNCHANGED <<bindVars, transit, msgRx, held, appVars>>

\* Nothing is left to bind.
Finished ==
    /\ flow = "none"
    /\ binds = MaxBinds
    /\ UNCHANGED vars

Next ==
    \/ CreateFlow \/ BuildFlow \/ Start \/ Stop \/ DropFlow \/ Reconnect
    \/ Push \/ OnMessage \/ OnMessageDirect \/ Recv \/ FlushAcks
    \/ \E m \in Msgs : Ack(m) \/ \E outcome \in MessageOutcome : Settle(m, outcome)
    \/ Finished

Spec == Init /\ [][Next]_vars

\* The broker, the library and the application go on: what can be pushed is pushed,
\* the application receives and acknowledges.
Fairness ==
    /\ WF_vars(Push) /\ WF_vars(OnMessage \/ OnMessageDirect) /\ WF_vars(Recv) /\ WF_vars(FlushAcks)
    /\ \A m \in Msgs : WF_vars(Ack(m))

FairSpec == Spec /\ Fairness

-----------------------------------------------------------------------------
(* Properties.                                                             *)

\* With AckMode::Client the broker deletes a message only when the application has
\* accepted it: neither the channel nor a dropped flow or a reconnection loses one
\* (flow/mod.rs:24-25, async_support.rs:657).  With AckMode::Auto this much holds of a Flow
\* only: acknowledged "after the callback returns" (flow/mod.rs:22), the message has been
\* with the application, where an OwnedAsyncFlow may drop it with its channel.
NothingIsLost ==
    /\ mode = "Client" => Msgs \ spool \subseteq accepted
    /\ api = "callback" => Msgs \ spool \subseteq seen

\* A message the broker waits for is on its way to the application, with it, or on
\* its way back: no message is stuck until the flow is bound again.
NothingIsStranded == unacked \subseteq ToSet(transit) \cup ToSet(msgRx) \cup held \cup ackBuf

\* As long as a flow stays bound and started, every message of the queue is
\* received, however often the flow was dropped or reconnected before.
EveryMessageIsSeen ==
    (mode = "Client" \/ api = "callback") /\ <>[](flow = "started") => <>(seen = Msgs)
=============================================================================
