----------------------------- MODULE EgressGate -----------------------------
(***************************************************************************)
(* The egress gates of the failover rig (examples/egress_gate.rs,          *)
(* failover-rig/egress-gate/README.md).                                    *)
(*                                                                         *)
(* Each gate sits behind one of two warm replicas that compute the same    *)
(* stream.  A flow on an exclusive queue elects the leader; the gate puts  *)
(* its replica's rows in relay_q while is_leader says it leads, and the    *)
(* main loop publishes what is in relay_q.  Flow events and rows reach the *)
(* gate on the context thread, in any order between the two.               *)
(*                                                                         *)
(* The rows of the one key that matters are its counts 1 .. N.             *)
(***************************************************************************)
EXTENDS Naturals, Sequences

CONSTANTS
    Gates,
    NoGate,             \* no flow is Active
    N,                  \* the last count the replicas compute
    MaxLag,             \* how far one replica may be ahead of another
    MayCrash,           \* gates are killed and connections lost
    MaxDemotions        \* how often the broker deactivates a flow that stays bound

ASSUME GatesAssumption == NoGate \notin Gates
ASSUME StreamAssumption == N \in Nat /\ MaxLag \in Nat \ {0}
ASSUME FaultsAssumption == MayCrash \in BOOLEAN /\ MaxDemotions \in Nat

VARIABLES
    pc,             \* pc[g]: where the main loop is
    shutdown,       \* SHUTDOWN[g]
    isLeader,       \* is_leader[g]
    relayQ,         \* relay_q[g]
    cur,            \* cur[g]: the count the loop has popped, 0 for none
    link,           \* link[g]: the connection is up
    fed,            \* fed[g]: the last count g's replica has published
    bound,          \* the flows bound to the queue
    active,         \* the Active one
    events,         \* events[g]: flow events on their way to g
    demotions,      \* bounds the run
    out             \* what downstream receives, in order

loopVars == <<pc, shutdown, cur>>
gateVars == <<isLeader, relayQ>>
queueVars == <<bound, active, events, demotions>>
vars == <<loopVars, gateVars, link, fed, queueVars, out>>

TypeOK ==
    /\ pc \in [Gates -> {"start", "poll", "publish", "stopped", "killed"}]
    /\ shutdown \in [Gates -> BOOLEAN]
    /\ isLeader \in [Gates -> BOOLEAN]
    /\ relayQ \in [Gates -> Seq(1 .. N)]
    /\ cur \in [Gates -> 0 .. N]
    /\ link \in [Gates -> BOOLEAN]
    /\ fed \in [Gates -> 0 .. N]
    /\ bound \subseteq Gates
    /\ active \in bound \cup {NoGate}
    /\ events \in [Gates -> Seq({"Active", "Inactive"})]
    /\ demotions \in 0 .. MaxDemotions
    /\ out \in Seq([gate : Gates, count : 1 .. N])

Init ==
    /\ pc = [g \in Gates |-> "start"]
    /\ shutdown = [g \in Gates |-> FALSE]
    /\ isLeader = [g \in Gates |-> FALSE]
    /\ relayQ = [g \in Gates |-> <<>>]
    /\ cur = [g \in Gates |-> 0]
    /\ link = [g \in Gates |-> TRUE]
    /\ fed = [g \in Gates |-> 0]
    /\ bound = {}
    /\ active = NoGate
    /\ events = [g \in Gates |-> <<>>]
    /\ demotions = 0
    /\ out = <<>>

Alive(g) == pc[g] \notin {"stopped", "killed"}

Goto(g, label) == pc' = [pc EXCEPT ![g] = label]

-----------------------------------------------------------------------------
(* The gate.                                                               *)

\* main up to the loop: session, subscription and flow are there.
Bind(g) ==
    /\ pc[g] = "start"
    /\ bound' = bound \cup {g}
    /\ Goto(g, "poll")
    /\ UNCHANGED <<shutdown, cur, gateVars, link, fed, active, events, demotions, out>>

\* Variant of Enqueue: nobody asks is_leader.
EnqueueAlways(g, row) ==
    IF Alive(g) /\ link[g] THEN [relayQ EXCEPT ![g] = Append(@, row)] ELSE relayQ

\* Variant of Enqueue: a row is skipped while another one is waiting.
EnqueueIfEmpty(g, row) ==
    IF Alive(g) /\ link[g] /\ isLeader[g] /\ relayQ[g] = <<>>
    THEN [relayQ EXCEPT ![g] = Append(@, row)] ELSE relayQ

\* on_message: a row is kept only while the gate leads.
Enqueue(g, row) ==
    IF Alive(g) /\ link[g] /\ isLeader[g]
    THEN [relayQ EXCEPT ![g] = Append(@, row)] ELSE relayQ

\* The replica publishes its next row to GATE_IN.
Feed(g) ==
    /\ fed[g] < N
    /\ \A h \in Gates : fed[g] < fed[h] + MaxLag
    /\ fed' = [fed EXCEPT ![g] = @ + 1]
    /\ relayQ' = Enqueue(g, fed[g] + 1)
    /\ UNCHANGED <<loopVars, isLeader, link, queueVars, out>>

\* The flow's on_event.
FlowEvent(g) ==
    /\ Alive(g) /\ link[g]
    /\ events[g] # <<>>
    /\ isLeader' = [isLeader EXCEPT ![g] = (Head(events[g]) = "Active")]
    /\ events' = [events EXCEPT ![g] = Tail(@)]
    /\ UNCHANGED <<loopVars, relayQ, link, fed, bound, active, demotions, out>>

\* The top of the loop: SHUTDOWN is not set, take a row.
Pop(g) ==
    /\ pc[g] = "poll"
    /\ ~shutdown[g]
    /\ relayQ[g] # <<>>
    /\ cur' = [cur EXCEPT ![g] = Head(relayQ[g])]
    /\ relayQ' = [relayQ EXCEPT ![g] = Tail(@)]
    /\ Goto(g, "publish")
    /\ UNCHANGED <<shutdown, isLeader, link, fed, queueVars, out>>

\* session.publish: on a connection that is down it fails, and is logged.
Relay(g) ==
    /\ pc[g] = "publish"
    /\ out' = IF link[g] THEN Append(out, [gate |-> g, count |-> cur[g]]) ELSE out
    /\ cur' = [cur EXCEPT ![g] = 0]
    /\ Goto(g, "poll")
    /\ UNCHANGED <<shutdown, gateVars, link, fed, queueVars>>

\* SIGTERM or SIGINT.
Signal(g) ==
    /\ Alive(g)
    /\ ~shutdown[g]
    /\ shutdown' = [shutdown EXCEPT ![g] = TRUE]
    /\ UNCHANGED <<pc, cur, gateVars, link, fed, queueVars, out>>

\* The queue takes the lock back from g and, with the flow, forgets it.
Unbound(g) ==
    /\ bound' = bound \ {g}
    /\ active' = IF active = g THEN NoGate ELSE active
    /\ events' = [events EXCEPT ![g] = <<>>]
    /\ UNCHANGED demotions

\* Variant of Stop: the flow is dropped first, then relay_q is worked off.
StopAndDrain(g) ==
    /\ pc[g] = "poll"
    /\ shutdown[g]
    /\ Unbound(g)
    /\ shutdown' = [shutdown EXCEPT ![g] = FALSE]
    /\ UNCHANGED <<pc, cur, gateVars, link, fed, out>>

\* Variant of Stop: the flow is forgotten instead of dropped.
StopWithoutUnbind(g) ==
    /\ pc[g] = "poll"
    /\ shutdown[g]
    /\ relayQ' = [relayQ EXCEPT ![g] = <<>>]
    /\ Goto(g, "stopped")
    /\ UNCHANGED <<shutdown, cur, isLeader, link, fed, queueVars, out>>

\* The loop ends and drop(flow) unbinds; relay_q goes with the process.
Stop(g) ==
    /\ pc[g] = "poll"
    /\ shutdown[g]
    /\ Unbound(g)
    /\ relayQ' = [relayQ EXCEPT ![g] = <<>>]
    /\ Goto(g, "stopped")
    /\ UNCHANGED <<shutdown, cur, isLeader, link, fed, out>>

\* SIGKILL.
Kill(g) ==
    /\ MayCrash
    /\ Alive(g)
    /\ relayQ' = [relayQ EXCEPT ![g] = <<>>]
    /\ cur' = [cur EXCEPT ![g] = 0]
    /\ Goto(g, "killed")
    /\ UNCHANGED <<shutdown, isLeader, link, fed, queueVars, out>>

-----------------------------------------------------------------------------
(* The broker.                                                             *)

Promote(g) ==
    /\ active = NoGate
    /\ g \in bound
    /\ active' = g
    /\ events' = [events EXCEPT ![g] = Append(@, "Active")]
    /\ UNCHANGED <<loopVars, gateVars, link, fed, bound, demotions, out>>

\* The connection breaks, or the keepalive notices a killed gate.
LoseConnection(g) ==
    /\ MayCrash
    /\ link[g]
    /\ pc[g] # "start"
    /\ link' = [link EXCEPT ![g] = FALSE]
    /\ Unbound(g)
    /\ UNCHANGED <<loopVars, gateVars, fed, out>>

\* FlowEvent::Inactive on a flow that stays bound.
Demote(g) ==
    /\ demotions < MaxDemotions
    /\ active = g
    /\ active' = NoGate
    /\ events' = [events EXCEPT ![g] = Append(@, "Inactive")]
    /\ demotions' = demotions + 1
    /\ UNCHANGED <<loopVars, gateVars, link, fed, bound, out>>

\* Every gate has gone and the replicas have nothing more to say.
Finished ==
    /\ \A g \in Gates : ~Alive(g) /\ fed[g] = N
    /\ UNCHANGED vars

Next ==
    \/ \E g \in Gates :
          \/ Bind(g) \/ Feed(g) \/ FlowEvent(g) \/ Pop(g) \/ Relay(g)
          \/ Signal(g) \/ Stop(g) \/ Kill(g)
          \/ Promote(g) \/ LoseConnection(g) \/ Demote(g)
    \/ Finished

Spec == Init /\ [][Next]_vars

\* The loop runs, the context thread delivers, the replicas go on, the broker
\* elects and notices dead connections.
Fairness ==
    \A g \in Gates :
        /\ WF_vars(Bind(g)) /\ WF_vars(Feed(g)) /\ WF_vars(FlowEvent(g))
        /\ WF_vars(Pop(g) \/ Relay(g) \/ Stop(g))
        /\ WF_vars(Promote(g)) /\ WF_vars(pc[g] = "killed" /\ LoseConnection(g))

FairSpec == Spec /\ Fairness

-----------------------------------------------------------------------------
(* Properties.                                                             *)

\* The outputs of two gates never interleave: the one that lost the lock, and with
\* it its binding, has published its last row before the other one is promoted.
GatesTakeTurns ==
    demotions = 0 =>
        \A i, j, k \in DOMAIN out :
            i < j /\ j < k /\ out[i].gate = out[k].gate => out[j].gate = out[i].gate

\* "The downstream stream continues with no per-key count reset"
\* (failover-rig/egress-gate/README.md:6-7): counts never go backwards downstream,
\* also across handoffs, provided neither replica is two rows ahead.
CountsNeverGoBack ==
    demotions = 0 => \A i, j \in DOMAIN out : i < j => out[i].count <= out[j].count

\* A leader that stays well and keeps the lock relays the newest count: its rows
\* neither wait for ever nor get lost between the two threads
\* (egress_gate.rs:73-80, 124-143).
Healthy(g) == Alive(g) /\ link[g] /\ ~shutdown[g]

LeaderRelaysTheLatest ==
    \A g \in Gates :
        (Healthy(g) /\ isLeader[g] /\ fed[g] < N) ~>
        (~Healthy(g) \/ ~isLeader[g] \/ \E i \in DOMAIN out : out[i].count = N)

\* A handoff always ends: with one healthy gate there is a leader again, which
\* knows it (egress_gate.rs:8-9, "the standby gate is promoted").
SomebodyLeads ==
    <>[](\/ \A g \in Gates : ~Healthy(g)
         \/ \E g \in Gates : Healthy(g) /\ active = g /\ isLeader[g])
=============================================================================
