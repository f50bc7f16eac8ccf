-------------------------- MODULE FlowDeliveryProofs --------------------------
(***************************************************************************)
(* No message is lost or stranded between the queue and the application,   *)
(* for any number of messages, any window, any limit and any number of     *)
(* bindings.                                                               *)
(***************************************************************************)
EXTENDS FlowDelivery, TLAPS

InTransit == ToSet(transit)

\* Only what the application has received is held, and only what it may be rid of is on its
\* way to the broker: what it has accepted, or what it received through a callback.
WayBackIsRight ==
    /\ held \subseteq seen
    /\ mode = "Client" => ackBuf \subseteq accepted
    /\ api = "callback" => ackBuf \subseteq seen

\* In AckMode::Auto nothing waits for the application: it is in transit or acknowledged.
AutoIsAtOnce == mode = "Auto" => unacked \subseteq InTransit \cup ackBuf

IInv ==
    /\ TypeOK
    /\ WayBackIsRight
    /\ AutoIsAtOnce
    /\ NothingIsLost
    /\ NothingIsStranded

-----------------------------------------------------------------------------
\* What arrives joins the messages in a queue.
LEMMA ToSetOfAppend ==
    ASSUME NEW S, NEW s \in Seq(S), NEW m \in S
    PROVE  ToSet(Append(s, m)) = ToSet(s) \cup {m}
<1>1. DOMAIN s = 1 .. Len(s) /\ DOMAIN Append(s, m) = 1 .. Len(s) + 1 /\ Len(s) \in Nat
  OBVIOUS
<1>2. Append(s, m)[Len(s) + 1] = m /\ \A i \in 1 .. Len(s) : Append(s, m)[i] = s[i]
  OBVIOUS
<1>3. ToSet(Append(s, m)) \subseteq ToSet(s) \cup {m}
  BY <1>1, <1>2 DEF ToSet
<1>4. ToSet(s) \subseteq ToSet(Append(s, m))
  BY <1>1, <1>2 DEF ToSet
<1>5. m \in ToSet(Append(s, m))
  BY <1>1, <1>2 DEF ToSet
<1> QED
  BY <1>3, <1>4, <1>5

\* What leaves a queue is its head.
LEMMA ToSetOfTail ==
    ASSUME NEW S, NEW s \in Seq(S), s # <<>>
    PROVE  /\ Head(s) \in S /\ Tail(s) \in Seq(S)
           /\ ToSet(s) = {Head(s)} \cup ToSet(Tail(s))
<1>1. /\ Head(s) \in S /\ Tail(s) \in Seq(S) /\ Head(s) = s[1]
      /\ Len(s) \in Nat \ {0} /\ Len(Tail(s)) = Len(s) - 1
  OBVIOUS
<1>2. DOMAIN s = 1 .. Len(s) /\ DOMAIN Tail(s) = 1 .. Len(s) - 1
  BY <1>1
<1>3. \A i \in 1 .. Len(s) - 1 : Tail(s)[i] = s[i + 1]
  BY <1>1
<1>4. ToSet(Tail(s)) \subseteq ToSet(s)
  BY <1>1, <1>2, <1>3 DEF ToSet
<1>5. ASSUME NEW i \in 1 .. Len(s), i # 1
      PROVE  s[i] \in ToSet(Tail(s))
  <2>1. i - 1 \in DOMAIN Tail(s) /\ Tail(s)[i - 1] = s[i]
    BY <1>1, <1>2, <1>3, <1>5
  <2> QED
    BY <2>1 DEF ToSet
<1>6. ToSet(s) \subseteq {Head(s)} \cup ToSet(Tail(s))
  BY <1>1, <1>2, <1>5 DEF ToSet
<1>7. Head(s) \in ToSet(s)
  BY <1>1, <1>2 DEF ToSet
<1> QED
  BY <1>1, <1>4, <1>6, <1>7

\* Queues that are emptied hold nothing.
LEMMA ToSetOfEmpty == ToSet(<<>>) = {}
BY DEF ToSet

-----------------------------------------------------------------------------
\* At first every message is in the queue.
LEMMA InitEstablishes == Init => IInv
<1> SUFFICES ASSUME Init PROVE IInv
  OBVIOUS
<1> USE BoundsAssumption DEF Init
<1>1. TypeOK
  BY DEF TypeOK
<1>2. WayBackIsRight /\ NothingIsLost
  BY DEF WayBackIsRight, NothingIsLost
<1>3. AutoIsAtOnce /\ NothingIsStranded
  BY DEF AutoIsAtOnce, NothingIsStranded
<1> QED
  BY <1>1, <1>2, <1>3 DEF IInv

\* Binding, start and stop move no message (async_support.rs:440-582, flow/mod.rs:120-142).
LEMMA BindingPreserves ==
    ASSUME IInv, CreateFlow \/ BuildFlow \/ Start \/ Stop
    PROVE  IInv'
<1> USE BoundsAssumption DEF IInv, CreateFlow, BuildFlow, Start, Stop, brokerVars, appVars
<1>1. TypeOK'
  BY DEF TypeOK
<1>2. UNCHANGED <<api, mode, brokerVars, msgRx, held, ackBuf, appVars>>
  OBVIOUS
<1> QED
  BY <1>1, <1>2 DEF WayBackIsRight, AutoIsAtOnce, NothingIsLost, NothingIsStranded, InTransit

\* When a binding ends, only acknowledged messages leave the queue (async_support.rs:705-716).
LEMMA UnbindPreserves ==
    ASSUME IInv, NEW acks, acks \subseteq ackBuf, Unbind(acks),
           flow' \in {"none", "stopped", "started"}, binds' \in 0 .. MaxBinds,
           msgRx' \in {<<>>, msgRx}, held' \subseteq held, UNCHANGED <<api, mode, appVars>>
    PROVE  IInv'
<1> USE DEF IInv, Unbind, appVars
<1>1. TypeOK'
  <2>1. spool' \subseteq Msgs /\ held' \subseteq Msgs
    BY DEF TypeOK
  <2>2. transit' \in Seq(Msgs) /\ msgRx' \in Seq(Msgs)
    <3>1. <<>> \in Seq(Msgs) /\ msgRx \in Seq(Msgs)
      BY DEF TypeOK
    <3> QED
      BY <3>1
  <2> QED
    BY <2>1, <2>2 DEF TypeOK
<1>2. NothingIsLost'
  BY DEF NothingIsLost, WayBackIsRight
<1> QED
  BY <1>1, <1>2 DEF WayBackIsRight, AutoIsAtOnce, NothingIsStranded

\* A dropped flow and a lost connection.
LEMMA EndingsPreserve ==
    ASSUME IInv, DropFlow \/ Reconnect
    PROVE  IInv'
<1>1. CASE DropFlow
  <2>1. PICK acks \in {{}, ackBuf} : Unbind(acks)
    BY <1>1 DEF DropFlow
  <2>2. binds' \in 0 .. MaxBinds
    BY <1>1 DEF DropFlow, IInv, TypeOK
  <2> QED
    BY <1>1, <2>1, <2>2, UnbindPreserves DEF DropFlow
<1>2. CASE Reconnect
  <2>1. flow' \in {"none", "stopped", "started"} /\ binds' \in 0 .. MaxBinds
    BY <1>2, BoundsAssumption DEF Reconnect, IInv, TypeOK
  <2> QED
    BY <1>2, <2>1, UnbindPreserves DEF Reconnect
<1> QED
  BY <1>1, <1>2

\* A message goes out to the flow.
LEMMA PushPreserves ==
    ASSUME IInv, Push
    PROVE  IInv'
<1> USE DEF IInv, Push, bindVars, appVars
<1>1. PICK m \in spool \ unacked : unacked' = unacked \cup {m} /\ transit' = Append(transit, m)
  OBVIOUS
<1>2. m \in Msgs /\ transit \in Seq(Msgs) /\ msgRx \in Seq(Msgs)
  BY DEF TypeOK
<1>3. ToSet(transit') = ToSet(transit) \cup {m}
  BY <1>1, <1>2, ToSetOfAppend
<1>4. transit' \in Seq(Msgs)
  BY <1>1, <1>2
<1>5. TypeOK'
  BY <1>1, <1>4 DEF TypeOK
<1> QED
  BY <1>1, <1>3, <1>5 DEF WayBackIsRight, AutoIsAtOnce, NothingIsLost, NothingIsStranded, InTransit

\* A message goes from transit to the channel or to the application (util.rs:112-156,
\* async_support.rs:459-468).
LEMMA OnMessagePreserves ==
    ASSUME IInv, OnMessage \/ OnMessageDirect
    PROVE  IInv'
<1> USE DEF IInv, OnMessage, OnMessageDirect, bindVars, appVars
<1>1. transit \in Seq(Msgs) /\ msgRx \in Seq(Msgs) /\ transit # <<>>
  BY DEF TypeOK
<1>2. /\ Head(transit) \in Msgs /\ transit' \in Seq(Msgs)
      /\ ToSet(transit) = {Head(transit)} \cup ToSet(transit')
  BY <1>1, ToSetOfTail
<1>3. CASE OnMessage
  <2>1. msgRx' \in Seq(Msgs) /\ ToSet(msgRx') = ToSet(msgRx) \cup {Head(transit)}
    BY <1>1, <1>2, <1>3, ToSetOfAppend
  <2>2. TypeOK'
    BY <1>2, <1>3, <2>1 DEF TypeOK
  <2>3. WayBackIsRight' /\ NothingIsLost'
    BY <1>3 DEF WayBackIsRight, NothingIsLost, TypeOK
  <2>4. AutoIsAtOnce' /\ NothingIsStranded'
    BY <1>2, <1>3, <2>1 DEF AutoIsAtOnce, NothingIsStranded, InTransit
  <2> QED
    BY <2>2, <2>3, <2>4
<1>4. CASE OnMessageDirect
  <2>1. TypeOK'
    BY <1>2, <1>4 DEF TypeOK
  <2>2. WayBackIsRight' /\ NothingIsLost'
    BY <1>4 DEF WayBackIsRight, NothingIsLost, TypeOK
  <2>3. AutoIsAtOnce' /\ NothingIsStranded'
    BY <1>2, <1>4 DEF AutoIsAtOnce, NothingIsStranded, InTransit, TypeOK
  <2> QED
    BY <2>1, <2>2, <2>3
<1> QED
  BY <1>3, <1>4

\* A message goes from the channel to the application (async_support.rs:619-641).
LEMMA RecvPreserves ==
    ASSUME IInv, Recv
    PROVE  IInv'
<1> USE DEF IInv, Recv, bindVars, brokerVars
<1>1. /\ Head(msgRx) \in Msgs /\ msgRx' \in Seq(Msgs)
      /\ ToSet(msgRx) = {Head(msgRx)} \cup ToSet(msgRx')
  BY ToSetOfTail DEF TypeOK
<1>2. TypeOK'
  BY <1>1 DEF TypeOK
<1>3. WayBackIsRight' /\ NothingIsLost' /\ AutoIsAtOnce'
  BY DEF WayBackIsRight, NothingIsLost, AutoIsAtOnce, InTransit
<1>4. NothingIsStranded'
  <2>1. CASE mode = "Client"
    BY <1>1, <2>1 DEF NothingIsStranded
  <2>2. CASE mode = "Auto"
    BY <2>2, <1>3 DEF NothingIsStranded, AutoIsAtOnce, InTransit
  <2> QED
    BY <2>1, <2>2 DEF TypeOK
<1> QED
  BY <1>2, <1>3, <1>4

\* What the application settles is on its way back; a refused outcome changes nothing
\* (async_support.rs:657-703).
LEMMA SettlingPreserves ==
    ASSUME IInv, NEW m \in Msgs, Ack(m) \/ \E outcome \in MessageOutcome : Settle(m, outcome)
    PROVE  IInv'
<1> USE DEF IInv, Ack, Settle, bindVars, brokerVars
<1>1. \/ /\ m \in held /\ held' = held \ {m}
         /\ ackBuf' = ackBuf \cup {m} /\ accepted' = accepted \cup {m}
      \/ UNCHANGED <<held, ackBuf, accepted>>
  OBVIOUS
<1>2. UNCHANGED <<bindVars, brokerVars, msgRx, seen>>
  OBVIOUS
<1>3. TypeOK'
  BY <1>1, <1>2 DEF TypeOK
<1> QED
  BY <1>1, <1>2, <1>3 DEF WayBackIsRight, AutoIsAtOnce, NothingIsLost, NothingIsStranded, InTransit

\* Acknowledgements reach the broker.
LEMMA FlushAcksPreserves ==
    ASSUME IInv, FlushAcks
    PROVE  IInv'
<1> USE DEF IInv, FlushAcks, bindVars, appVars
<1>1. TypeOK'
  BY DEF TypeOK
<1> QED
  BY <1>1 DEF WayBackIsRight, AutoIsAtOnce, NothingIsLost, NothingIsStranded, InTransit

-----------------------------------------------------------------------------
\* IInv is an invariant of delivery on a flow (async_support.rs:440-716, flow/mod.rs).
THEOREM Invariance == Spec => []IInv
<1>1. ASSUME IInv, [Next]_vars
      PROVE  IInv'
  <2>1. CASE CreateFlow \/ BuildFlow \/ Start \/ Stop
    BY <1>1, <2>1, BindingPreserves
  <2>2. CASE DropFlow \/ Reconnect
    BY <1>1, <2>2, EndingsPreserve
  <2>3. CASE Push
    BY <1>1, <2>3, PushPreserves
  <2>4. CASE OnMessage \/ OnMessageDirect
    BY <1>1, <2>4, OnMessagePreserves
  <2>5. CASE Recv
    BY <1>1, <2>5, RecvPreserves
  <2>6. CASE FlushAcks
    BY <1>1, <2>6, FlushAcksPreserves
  <2>7. ASSUME NEW m \in Msgs, Ack(m) \/ \E outcome \in MessageOutcome : Settle(m, outcome)
        PROVE  IInv'
    BY <1>1, <2>7, SettlingPreserves
  <2>8. CASE Finished \/ UNCHANGED vars
    BY <1>1, <2>8 DEF Finished, vars, bindVars, brokerVars, appVars, IInv, TypeOK, WayBackIsRight,
                      AutoIsAtOnce, NothingIsLost, NothingIsStranded, InTransit
  <2> QED
    BY <1>1, <2>1, <2>2, <2>3, <2>4, <2>5, <2>6, <2>7, <2>8 DEF Next
<1> QED
  BY InitEstablishes, <1>1, PTL DEF Spec

\* Every variable keeps its type, and the broker never waits for what it has deleted.
THEOREM TypeCorrect == Spec => []TypeOK
BY Invariance, PTL DEF IInv

\* With AckMode::Client nothing is deleted that was not accepted; with a callback nothing
\* that was not received (flow/mod.rs:22-25, async_support.rs:657).
THEOREM NoMessageLost == Spec => []NothingIsLost
BY Invariance, PTL DEF IInv

\* No message is stuck until the flow is bound again.
THEOREM NoMessageStranded == Spec => []NothingIsStranded
BY Invariance, PTL DEF IInv
=============================================================================
