-------------------------- MODULE FailoverPublisher --------------------------
(***************************************************************************)
(* The leader-gated publisher of the failover rig                          *)
(* (examples/failover_publisher.rs, failover-rig/README.md).               *)
(*                                                                         *)
(* Replicas bind a flow to one exclusive queue, which is the leader lock   *)
(* and the work queue at once: the broker delivers to the Active flow      *)
(* only.  The message callback of a replica moves inputs to its inbox; the *)
(* main loop pops one, publishes an output with DIRECT delivery and then   *)
(* acknowledges the input.  Acknowledgements are buffered by the C library *)
(* and reach the broker behind the outputs, on the same connection.        *)
(*                                                                         *)
(* Faults: SIGTERM, SIGKILL, a lost connection (which the session does not *)
(* retry: RECONNECT_RETRIES is left at its default, 0), a publish that     *)
(* returns an error, and an INACTIVE event on a live flow.                 *)
(*                                                                         *)
(* The rolling counts and output_seq are functions of what a replica has   *)
(* published and are left out, and so is is_leader, which nothing reads.   *)
(***************************************************************************)
EXTENDS Naturals, FiniteSets, Sequences

CONSTANTS
    Replicas,
    NoReplica,          \* no flow is Active
    N,                  \* inputs 1 .. N, in the order of the queue
    Malformed,          \* the inputs parse_input does not understand
    MaxUnacked,         \* delivered, unacknowledged messages the broker allows
    MayCrash,           \* replicas are killed and connections lost
    PublishMayFail,     \* session.publish fails on a live connection
    MaxDemotions        \* how often the broker deactivates a flow that stays bound

Inputs == 1 .. N

ASSUME ReplicasAssumption == NoReplica \notin Replicas
ASSUME InputsAssumption == N \in Nat /\ Malformed \subseteq Inputs /\ MaxUnacked \in Nat \ {0}
ASSUME FaultsAssumption ==
    {MayCrash, PublishMayFail} \subseteq BOOLEAN /\ MaxDemotions \in Nat

VARIABLES
    pc,             \* pc[r]: where the main loop of r is
    shutdown,       \* SHUTDOWN[r]: set by the signal handler
    inbox,          \* inbox[r]: inputs received, not yet popped
    cur,            \* cur[r]: the input the loop has popped
    ackBuf,         \* ackBuf[r]: acknowledged to the C library, not yet sent
    wire,           \* wire[r]: what r's connection carries to the broker
    link,           \* link[r]: the connection of r is up
    bound,          \* the flows the broker knows
    spooled,        \* the inputs that have reached the queue
    active,         \* the Active one
    sent,           \* inputs the Active flow has and the broker still keeps
    redelivered,    \* inputs the broker has delivered to some flow that is gone
    removed,        \* inputs the broker has deleted: they were acknowledged
    demotions,      \* bounds the run: demotions so far
    out             \* the outputs downstream receives, in order

replicaVars == <<pc, shutdown, inbox, cur, ackBuf>>
wireVars == <<wire, link>>
queueVars == <<bound, spooled, active, sent, redelivered, removed, demotions>>
vars == <<replicaVars, wireVars, queueVars, out>>

-----------------------------------------------------------------------------
NoInput == [seq |-> 0, redelivered |-> FALSE]
Recs == [seq : Inputs, redelivered : BOOLEAN]

OutFrame(r, rec) == [kind |-> "out", row |-> [replica |-> r, seq |-> rec.seq,
                                              redelivered |-> rec.redelivered]]
AckFrame(acks) == [kind |-> "ack", acks |-> acks]
UnbindFrame == [kind |-> "unbind"]

Rows == [replica : Replicas, seq : Inputs, redelivered : BOOLEAN]
Frames == [kind : {"out"}, row : Rows] \cup [kind : {"ack"}, acks : SUBSET Inputs] \cup {UnbindFrame}

TypeOK ==
    /\ pc \in [Replicas -> {"start", "poll", "publish", "ack", "stopped", "killed"}]
    /\ shutdown \in [Replicas -> BOOLEAN]
    /\ inbox \in [Replicas -> Seq(Recs)]
    /\ cur \in [Replicas -> Recs \cup {NoInput}]
    /\ ackBuf \in [Replicas -> SUBSET Inputs]
    /\ wire \in [Replicas -> Seq(Frames)]
    /\ link \in [Replicas -> BOOLEAN]
    /\ bound \subseteq Replicas
    /\ spooled \subseteq Inputs
    /\ active \in bound \cup {NoReplica}
    /\ sent \subseteq spooled
    /\ redelivered \subseteq Inputs
    /\ removed \subseteq Inputs
    /\ demotions \in 0 .. MaxDemotions
    /\ out \in Seq(Rows)

\* Nothing runs; some inputs wait in the queue.
Start(waiting) ==
    /\ pc = [r \in Replicas |-> "start"]
    /\ shutdown = [r \in Replicas |-> FALSE]
    /\ inbox = [r \in Replicas |-> <<>>]
    /\ cur = [r \in Replicas |-> NoInput]
    /\ ackBuf = [r \in Replicas |-> {}]
    /\ wire = [r \in Replicas |-> <<>>]
    /\ link = [r \in Replicas |-> TRUE]
    /\ bound = {}
    /\ spooled = waiting
    /\ active = NoReplica
    /\ sent = {}
    /\ redelivered = {}
    /\ removed = {}
    /\ demotions = 0
    /\ out = <<>>

Init == Start(Inputs)

Alive(r) == pc[r] \notin {"stopped", "killed"}

Goto(r, label) == pc' = [pc EXCEPT ![r] = label]

\* What r writes to its connection; a connection that is down swallows it.
Send(r, frames) ==
    wire' = IF link[r] THEN [wire EXCEPT ![r] = @ \o frames] ELSE wire

\* The acknowledgements the library is still sitting on.
PendingAcks(r) == IF ackBuf[r] = {} THEN <<>> ELSE <<AckFrame(ackBuf[r])>>

-----------------------------------------------------------------------------
(* The replica.                                                            *)

\* main up to the loop: session and flow are built.
Bind(r) ==
    /\ pc[r] = "start"
    /\ bound' = bound \cup {r}
    /\ Goto(r, "poll")
    /\ UNCHANGED <<shutdown, inbox, cur, ackBuf, wireVars, spooled, active, sent, redelivered, removed, demotions, out>>

\* Variant of Receive: the newest input goes to the front.
ReceiveAtFront(r, m) ==
    IF m \in Malformed \/ ~Alive(r) THEN inbox
    ELSE [inbox EXCEPT ![r] = <<[seq |-> m, redelivered |-> m \in redelivered]>> \o @]

\* Variant of Receive: is_redelivered is not asked.
ReceiveUnmarked(r, m) ==
    IF m \in Malformed \/ ~Alive(r) THEN inbox
    ELSE [inbox EXCEPT ![r] = Append(@, [seq |-> m, redelivered |-> FALSE])]

\* on_message: an input that does not parse is dropped, and never acknowledged.
Receive(r, m) ==
    IF m \in Malformed \/ ~Alive(r) THEN inbox
    ELSE [inbox EXCEPT ![r] = Append(@, [seq |-> m, redelivered |-> m \in redelivered])]

\* Variant of Pop: the input is acknowledged before its output is published.
PopAndAck(r) ==
    /\ pc[r] = "poll"
    /\ ~shutdown[r]
    /\ inbox[r] # <<>>
    /\ cur' = [cur EXCEPT ![r] = Head(inbox[r])]
    /\ inbox' = [inbox EXCEPT ![r] = Tail(@)]
    /\ ackBuf' = [ackBuf EXCEPT ![r] = @ \cup {Head(inbox[r]).seq}]
    /\ Goto(r, "publish")
    /\ UNCHANGED <<shutdown, wireVars, queueVars, out>>

\* The top of the loop: SHUTDOWN is not set, take an input.
Pop(r) ==
    /\ pc[r] = "poll"
    /\ ~shutdown[r]
    /\ inbox[r] # <<>>
    /\ cur' = [cur EXCEPT ![r] = Head(inbox[r])]
    /\ inbox' = [inbox EXCEPT ![r] = Tail(@)]
    /\ Goto(r, "publish")
    /\ UNCHANGED <<shutdown, ackBuf, wireVars, queueVars, out>>

\* Variant of PublishOk: a replica that is shutting down does not bother to ack.
PublishAndQuit(r) ==
    /\ pc[r] = "publish"
    /\ Send(r, <<OutFrame(r, cur[r])>>)
    /\ Goto(r, IF shutdown[r] THEN "poll" ELSE "ack")
    /\ UNCHANGED <<shutdown, inbox, cur, ackBuf, link, queueVars, out>>

\* session.publish of the output row.
PublishOk(r) ==
    /\ pc[r] = "publish"
    /\ Send(r, <<OutFrame(r, cur[r])>>)
    /\ Goto(r, "ack")
    /\ UNCHANGED <<shutdown, inbox, cur, ackBuf, link, queueVars, out>>

\* session.publish returns an error, which is logged: the loop goes on to the
\* acknowledgement all the same.
PublishErr(r) ==
    /\ pc[r] = "publish"
    /\ PublishMayFail \/ ~link[r]
    /\ Goto(r, "ack")
    /\ UNCHANGED <<shutdown, inbox, cur, ackBuf, wireVars, queueVars, out>>

\* Variant of Ack: the acknowledgement is left out.
AckForgotten(r) ==
    /\ pc[r] = "ack"
    /\ cur' = [cur EXCEPT ![r] = NoInput]
    /\ Goto(r, "poll")
    /\ UNCHANGED <<shutdown, inbox, ackBuf, wireVars, queueVars, out>>

\* flow.ack: the C library notes the acknowledgement.
Ack(r) ==
    /\ pc[r] = "ack"
    /\ ackBuf' = [ackBuf EXCEPT ![r] = @ \cup {cur[r].seq}]
    /\ cur' = [cur EXCEPT ![r] = NoInput]
    /\ Goto(r, "poll")
    /\ UNCHANGED <<shutdown, inbox, wireVars, queueVars, out>>

\* The C library's threshold or timer: acknowledgements go out in bulk.
FlushAcks(r) ==
    /\ Alive(r)
    /\ ackBuf[r] # {}
    /\ Send(r, PendingAcks(r))
    /\ ackBuf' = [ackBuf EXCEPT ![r] = {}]
    /\ UNCHANGED <<pc, shutdown, inbox, cur, link, queueVars, out>>

\* SIGTERM or SIGINT.
Signal(r) ==
    /\ Alive(r)
    /\ ~shutdown[r]
    /\ shutdown' = [shutdown EXCEPT ![r] = TRUE]
    /\ UNCHANGED <<pc, inbox, cur, ackBuf, wireVars, queueVars, out>>

\* Variant of Stop: the flow is dropped first, then the inbox worked off.
StopAndDrain(r) ==
    /\ pc[r] = "poll"
    /\ shutdown[r]
    /\ Send(r, PendingAcks(r) \o <<UnbindFrame>>)
    /\ shutdown' = [shutdown EXCEPT ![r] = FALSE]
    /\ ackBuf' = [ackBuf EXCEPT ![r] = {}]
    /\ UNCHANGED <<pc, inbox, cur, link, queueVars, out>>

\* The loop ends and drop(flow) unbinds: what was acknowledged is sent first,
\* what is still in the inbox goes with the process.
Stop(r) ==
    /\ pc[r] = "poll"
    /\ shutdown[r]
    /\ Send(r, PendingAcks(r) \o <<UnbindFrame>>)
    /\ inbox' = [inbox EXCEPT ![r] = <<>>]
    /\ ackBuf' = [ackBuf EXCEPT ![r] = {}]
    /\ Goto(r, "stopped")
    /\ UNCHANGED <<shutdown, cur, link, queueVars, out>>

\* SIGKILL: whatever the process held is gone; what it wrote may still arrive.
Kill(r) ==
    /\ MayCrash
    /\ Alive(r)
    /\ inbox' = [inbox EXCEPT ![r] = <<>>]
    /\ cur' = [cur EXCEPT ![r] = NoInput]
    /\ ackBuf' = [ackBuf EXCEPT ![r] = {}]
    /\ Goto(r, "killed")
    /\ UNCHANGED <<shutdown, wireVars, queueVars, out>>

MainLoop(r) == Pop(r) \/ PublishOk(r) \/ PublishErr(r) \/ Ack(r) \/ Stop(r)

-----------------------------------------------------------------------------
(* The broker.                                                             *)

\* The exclusive queue gives the lock to a bound flow: FlowEvent::Active.
Promote(r) ==
    /\ active = NoReplica
    /\ r \in bound
    /\ active' = r
    /\ UNCHANGED <<replicaVars, wireVars, bound, spooled, sent, redelivered, removed, demotions, out>>

\* The next input of the queue goes to the Active flow.
Deliver(r) ==
    /\ active = r
    /\ Cardinality(sent) < MaxUnacked
    /\ \E m \in spooled \ (sent \cup removed) :
          /\ \A k \in spooled \ (sent \cup removed) : m <= k
          /\ sent' = sent \cup {m}
          /\ inbox' = Receive(r, m)
    /\ UNCHANGED <<pc, shutdown, cur, ackBuf, wireVars, bound, spooled, active, redelivered, removed, demotions, out>>

\* The flow of r loses the lock: what it has not acknowledged is redelivered.
Deactivate(r) ==
    IF active = r
    THEN /\ active' = NoReplica
         /\ redelivered' = redelivered \cup sent
         /\ sent' = {}
    ELSE UNCHANGED <<active, redelivered, sent>>

\* The broker reads an output, a batch of acknowledgements or an unbind.
BrokerReads(r) ==
    /\ wire[r] # <<>>
    /\ wire' = [wire EXCEPT ![r] = Tail(@)]
    /\ LET frame == Head(wire[r])
       IN  CASE frame.kind = "out" ->
                  /\ out' = Append(out, frame.row)
                  /\ UNCHANGED queueVars
             [] frame.kind = "ack" ->
                  /\ removed' = IF active = r THEN removed \cup (frame.acks \cap sent) ELSE removed
                  /\ sent' = IF active = r THEN sent \ frame.acks ELSE sent
                  /\ UNCHANGED <<bound, spooled, active, redelivered, demotions, out>>
             [] frame.kind = "unbind" ->
                  /\ bound' = bound \ {r}
                  /\ Deactivate(r)
                  /\ UNCHANGED <<spooled, removed, demotions, out>>
    /\ UNCHANGED <<replicaVars, link>>

\* The connection breaks, or the keepalive notices that the process is gone.
LoseConnection(r) ==
    /\ MayCrash
    /\ link[r]
    /\ pc[r] # "start"
    /\ link' = [link EXCEPT ![r] = FALSE]
    /\ wire' = [wire EXCEPT ![r] = <<>>]
    /\ bound' = bound \ {r}
    /\ Deactivate(r)
    /\ UNCHANGED <<replicaVars, spooled, removed, demotions, out>>

\* FlowEvent::Inactive on a flow that stays bound.
Demote(r) ==
    /\ demotions < MaxDemotions
    /\ active = r
    /\ Deactivate(r)
    /\ demotions' = demotions + 1
    /\ UNCHANGED <<replicaVars, wireVars, bound, spooled, removed, out>>

\* Every replica has gone and nothing is on its way.
Finished ==
    /\ \A r \in Replicas : ~Alive(r) /\ wire[r] = <<>>
    /\ bound = {}
    /\ UNCHANGED vars

Next ==
    \/ \E r \in Replicas :
          \/ Bind(r) \/ Pop(r) \/ PublishOk(r) \/ PublishErr(r) \/ Ack(r)
          \/ FlushAcks(r) \/ Signal(r) \/ Stop(r) \/ Kill(r)
          \/ Promote(r) \/ Deliver(r) \/ BrokerReads(r) \/ LoseConnection(r) \/ Demote(r)
    \/ Finished

Spec == Init /\ [][Next]_vars

-----------------------------------------------------------------------------
(* Properties.                                                             *)

Published == {out[i].seq : i \in DOMAIN out}

\* At-least-once: an input leaves the queue only after an output of it has come
\* out downstream, whatever dies when (failover_publisher.rs:7-10, "the input is
\* acked after the publish").
AckedInputsWerePublished == removed \subseteq Published

\* The README's SPLIT-BRAIN, expected "none": the outputs of two replicas never
\* interleave, each replica publishes in one turn (failover-rig/README.md:59-60).
NoSplitBrain ==
    \A i, j, k \in DOMAIN out :
        i < j /\ j < k /\ out[i].replica = out[k].replica => out[j].replica = out[i].replica

\* Nor do they as long as a flow loses the lock only with its binding: by SIGTERM,
\* SIGKILL or a lost connection.
LeadersTakeTurns == demotions = 0 => NoSplitBrain

\* Downstream can tell: of the outputs of one input at most one says it is not a
\* redelivery, so a second one is always marked (failover_publisher.rs:138, 186).
DuplicatesAreMarked ==
    \A i, j \in DOMAIN out :
        i # j /\ out[i].seq = out[j].seq => out[i].redelivered \/ out[j].redelivered

\* A replica publishes in the order of the queue: the rolling counts and
\* output_seq it computes follow the inputs (failover_publisher.rs:160, 178-183).
OutputsFollowTheQueue ==
    demotions = 0 =>
        \A i, j \in DOMAIN out :
            i < j /\ out[i].replica = out[j].replica => out[i].seq < out[j].seq

\* "The graceful handoff is clean and duplicate-free" (failover-rig/README.md:73):
\* without crashes no input is published twice, however SIGTERM falls.
Graceful == demotions = 0 /\ \A r \in Replicas : pc[r] # "killed" /\ link[r]

GracefulHandoffIsClean ==
    Graceful => \A i, j \in DOMAIN out : i # j => out[i].seq # out[j].seq

\* Once the broker has deleted an input nobody publishes it any more: nothing
\* that was left in an inbox outlives the replica's turn.
AckedInputsStayDone ==
    [][demotions = 0 => \A i \in DOMAIN out' \ DOMAIN out : out'[i].seq \notin removed]_vars

\* A replica that goes on publishing; liveness is in FailoverRig.
Healthy(r) == Alive(r) /\ link[r] /\ ~shutdown[r]
=============================================================================
