--------------------------- MODULE EgressGateProofs ---------------------------
(***************************************************************************)
(* Gates take turns, for any number of gates, any stream and any lag: the  *)
(* exclusive queue is a lock that a gate loses only with its binding, and  *)
(* never gets twice.  What counts may go back by at a handoff is then less *)
(* than what one replica may be ahead of another.                          *)
(***************************************************************************)
EXTENDS EgressGate, SequenceTheorems, TLAPS

-----------------------------------------------------------------------------
(* The inductive invariant.                                                *)

\* The loop publishes what it has popped.
LoopHoldsARow == \A g \in Gates : pc[g] = "publish" => cur[g] # 0

\* Flows are bound by gates that have come up.
BoundHaveStarted == \A g \in bound : pc[g] # "start"

\* A gate that still may relay something is the Active one.
MayRelay(g) ==
    /\ Alive(g) /\ link[g]
    /\ isLeader[g] \/ relayQ[g] # <<>> \/ pc[g] = "publish" \/ events[g] # <<>>

OnlyTheActiveRelays == demotions = 0 => \A g \in Gates : MayRelay(g) => active = g

\* Its binding is gone, and it will not bind again.
Gone(g) == g \notin bound /\ pc[g] # "start"

\* Rows came from the Active gate, all of them behind the rows of gates that are gone.
RowsFollowTheLock ==
    demotions = 0 =>
        /\ \A i \in DOMAIN out : out[i].gate = active \/ Gone(out[i].gate)
        /\ \A i, j \in DOMAIN out : i < j /\ out[i].gate = active => out[j].gate = active

IInv ==
    /\ TypeOK
    /\ LoopHoldsARow
    /\ BoundHaveStarted
    /\ OnlyTheActiveRelays
    /\ RowsFollowTheLock
    /\ GatesTakeTurns

-----------------------------------------------------------------------------
\* What TypeOK says of a row, of a gate's queue and of a sequence of rows.
LEMMA RowsAreTyped ==
    ASSUME TypeOK
    PROVE  /\ out \in Seq([gate : Gates, count : 1 .. N])
           /\ \A i \in DOMAIN out : out[i].gate \in Gates
<1>1. out \in Seq([gate : Gates, count : 1 .. N])
  BY DEF TypeOK
<1>2. \A i \in DOMAIN out : out[i] \in [gate : Gates, count : 1 .. N]
  BY <1>1, ElementOfSeq, LenProperties
<1> QED
  BY <1>1, <1>2

\* What TypeOK says of one gate.
LEMMA GatesAreTyped ==
    ASSUME TypeOK, NEW g \in Gates
    PROVE  relayQ[g] \in Seq(1 .. N) /\ cur[g] \in 0 .. N /\ fed[g] \in 0 .. N
BY DEF TypeOK

\* Zero is a count that has not been relayed.
LEMMA ZeroIsACount == 0 \in 0 .. N /\ <<>> \in Seq(1 .. N)
BY StreamAssumption

\* Nothing has been relayed when the gates come up.
LEMMA InitEstablishes == Init => IInv
<1> SUFFICES ASSUME Init PROVE IInv
  OBVIOUS
<1> USE GatesAssumption, StreamAssumption, FaultsAssumption DEF Init
<1>1. TypeOK
  <2>1. relayQ \in [Gates -> Seq(1 .. N)] /\ events \in [Gates -> Seq({"Active", "Inactive"})]
    OBVIOUS
  <2>2. cur \in [Gates -> 0 .. N] /\ fed \in [Gates -> 0 .. N] /\ demotions \in 0 .. MaxDemotions
    OBVIOUS
  <2>3. /\ pc \in [Gates -> {"start", "poll", "publish", "stopped", "killed"}]
        /\ out \in Seq([gate : Gates, count : 1 .. N])
    OBVIOUS
  <2> QED
    BY <2>1, <2>2, <2>3 DEF TypeOK
<1>2. LoopHoldsARow /\ BoundHaveStarted /\ RowsFollowTheLock /\ GatesTakeTurns
  BY DEF LoopHoldsARow, BoundHaveStarted, RowsFollowTheLock, GatesTakeTurns
<1>3. OnlyTheActiveRelays
  BY DEF OnlyTheActiveRelays, MayRelay
<1> QED
  BY <1>1, <1>2, <1>3 DEF IInv

\* What leaves out, the binding and the lock alone keeps the order of the rows, if nobody
\* goes back to the start.
LEMMA RowsStay ==
    ASSUME IInv, UNCHANGED <<out, active, bound>>, demotions' = 0 => demotions = 0,
           \A g \in Gates : pc[g] # "start" => pc'[g] # "start"
    PROVE  RowsFollowTheLock' /\ GatesTakeTurns' /\ BoundHaveStarted'
<1>1. \A i \in DOMAIN out : out[i].gate \in Gates
  BY RowsAreTyped DEF IInv
<1>2. RowsFollowTheLock' /\ GatesTakeTurns'
  BY <1>1 DEF IInv, RowsFollowTheLock, GatesTakeTurns, Gone
<1>3. BoundHaveStarted'
  BY DEF IInv, TypeOK, BoundHaveStarted
<1> QED
  BY <1>2, <1>3

\* A gate comes up (egress_gate.rs:64-121).
LEMMA BindPreserves ==
    ASSUME IInv, NEW g \in Gates, Bind(g)
    PROVE  IInv'
<1> USE DEF IInv, Bind, Goto, gateVars
<1>1. TypeOK'
  BY DEF TypeOK
<1>2. LoopHoldsARow' /\ BoundHaveStarted'
  BY DEF LoopHoldsARow, BoundHaveStarted, TypeOK
<1>3. OnlyTheActiveRelays'
  BY DEF OnlyTheActiveRelays, MayRelay, Alive, TypeOK
<1>4. RowsFollowTheLock' /\ GatesTakeTurns'
  <2>1. \A h \in Gates : Gone(h) => Gone(h)'
    BY DEF Gone, TypeOK
  <2>2. \A i \in DOMAIN out : out[i].gate \in Gates
    BY RowsAreTyped
  <2> QED
    BY <2>1, <2>2 DEF RowsFollowTheLock, GatesTakeTurns
<1> QED
  BY <1>1, <1>2, <1>3, <1>4

\* A row of the replica is kept only by a gate that leads (egress_gate.rs:73-80).
LEMMA FeedPreserves ==
    ASSUME IInv, NEW g \in Gates, Feed(g)
    PROVE  IInv'
<1> USE DEF IInv, Feed, Enqueue, loopVars, queueVars
<1>1. fed[g] + 1 \in 1 .. N
  BY StreamAssumption, GatesAreTyped
<1>2. TypeOK'
  <2>1. fed' \in [Gates -> 0 .. N]
    BY <1>1 DEF TypeOK
  <2>2. relayQ' \in [Gates -> Seq(1 .. N)]
    BY <1>1 DEF TypeOK
  <2> QED
    BY <2>1, <2>2 DEF TypeOK
<1>3. LoopHoldsARow'
  BY DEF LoopHoldsARow
<1>4. OnlyTheActiveRelays'
  BY DEF OnlyTheActiveRelays, MayRelay, Alive, TypeOK
<1>5. RowsFollowTheLock' /\ GatesTakeTurns' /\ BoundHaveStarted'
  BY RowsStay
<1> QED
  BY <1>2, <1>3, <1>4, <1>5

\* The flow's event reaches is_leader (egress_gate.rs:106-116).
LEMMA FlowEventPreserves ==
    ASSUME IInv, NEW g \in Gates, FlowEvent(g)
    PROVE  IInv'
<1> USE DEF IInv, FlowEvent, loopVars
<1>1. TypeOK'
  BY SMTT(30) DEF TypeOK
<1>2. LoopHoldsARow'
  BY DEF LoopHoldsARow
<1>3. OnlyTheActiveRelays'
  BY DEF OnlyTheActiveRelays, MayRelay, Alive, TypeOK
<1>4. RowsFollowTheLock' /\ GatesTakeTurns' /\ BoundHaveStarted'
  BY RowsStay
<1> QED
  BY <1>1, <1>2, <1>3, <1>4

\* The loop takes a row (egress_gate.rs:127-132).
LEMMA PopPreserves ==
    ASSUME IInv, NEW g \in Gates, Pop(g)
    PROVE  IInv'
<1> USE DEF IInv, Pop, Goto, queueVars
<1>1. Head(relayQ[g]) \in 1 .. N /\ Tail(relayQ[g]) \in Seq(1 .. N)
  BY GatesAreTyped, HeadTailProperties
<1>2. TypeOK'
  BY <1>1, SMTT(30) DEF TypeOK
<1>3. LoopHoldsARow'
  BY <1>1 DEF LoopHoldsARow, TypeOK
<1>4. OnlyTheActiveRelays'
  BY DEF OnlyTheActiveRelays, MayRelay, Alive, TypeOK
<1>5. RowsFollowTheLock' /\ GatesTakeTurns' /\ BoundHaveStarted'
  BY RowsStay DEF TypeOK
<1> QED
  BY <1>2, <1>3, <1>4, <1>5

\* The loop publishes it (egress_gate.rs:133-142).
LEMMA RelayPreserves ==
    ASSUME IInv, NEW g \in Gates, Relay(g)
    PROVE  IInv'
<1> USE DEF IInv, Relay, Goto, gateVars, queueVars
<1> DEFINE row == [gate |-> g, count |-> cur[g]]
<1>1. cur[g] \in 1 .. N
  BY StreamAssumption, GatesAreTyped DEF LoopHoldsARow
<1>2. row \in [gate : Gates, count : 1 .. N] /\ row.gate = g
  BY <1>1
<1>3. TypeOK'
  <2>1. cur' \in [Gates -> 0 .. N]
    BY StreamAssumption DEF TypeOK
  <2>2. out' \in Seq([gate : Gates, count : 1 .. N])
    <3>1. out \in Seq([gate : Gates, count : 1 .. N])
      BY RowsAreTyped
    <3>2. Append(out, row) \in Seq([gate : Gates, count : 1 .. N])
      BY <3>1, <1>2, AppendProperties
    <3> QED
      BY <3>1, <3>2
  <2> QED
    BY <2>1, <2>2 DEF TypeOK
<1>4. LoopHoldsARow'
  BY DEF LoopHoldsARow, TypeOK
<1>5. OnlyTheActiveRelays'
  BY DEF OnlyTheActiveRelays, MayRelay, Alive, TypeOK
<1>6. CASE ~link[g]
  BY <1>3, <1>4, <1>5, <1>6, RowsStay DEF TypeOK
<1>7. CASE link[g]
  <2>1. out' = Append(out, row) /\ out \in Seq([gate : Gates, count : 1 .. N])
    BY <1>7 DEF TypeOK
  <2>2. /\ DOMAIN out = 1 .. Len(out) /\ Len(out) \in Nat /\ DOMAIN out' = 1 .. Len(out) + 1
        /\ out'[Len(out) + 1] = row /\ \A i \in DOMAIN out : out'[i] = out[i]
    BY <2>1, <1>2
  <2>3. \A h \in Gates : Gone(h) => Gone(h)'
    BY DEF Gone, TypeOK
  <2>4. \A i \in DOMAIN out : out[i].gate \in Gates
    BY RowsAreTyped
  <2>5. demotions = 0 => active = g
    BY <1>7 DEF OnlyTheActiveRelays, MayRelay, Alive
  <2>6. RowsFollowTheLock'
    BY <2>2, <2>3, <2>4, <2>5, <1>2 DEF RowsFollowTheLock
  <2>7. GatesTakeTurns'
    <3> SUFFICES ASSUME demotions = 0, NEW i \in DOMAIN out', NEW j \in DOMAIN out', NEW k \in DOMAIN out',
                        i < j, j < k, out'[i].gate = out'[k].gate
                 PROVE  out'[j].gate = out'[i].gate
      BY DEF GatesTakeTurns
    <3>1. i \in DOMAIN out /\ j \in DOMAIN out
      BY <2>2
    <3>2. CASE k \in DOMAIN out
      BY <2>2, <3>1, <3>2 DEF GatesTakeTurns
    <3>3. CASE k = Len(out) + 1
      BY <2>2, <2>5, <3>1, <3>3, <1>2 DEF RowsFollowTheLock
    <3> QED
      BY <2>2, <3>2, <3>3
  <2>8. BoundHaveStarted'
    BY DEF BoundHaveStarted, TypeOK
  <2> QED
    BY <1>3, <1>4, <1>5, <2>6, <2>7, <2>8
<1> QED
  BY <1>6, <1>7

\* A signal, or a gate that is killed, relays nothing.
LEMMA SignalAndKillPreserve ==
    ASSUME IInv, NEW g \in Gates, Signal(g) \/ Kill(g)
    PROVE  IInv'
<1> USE DEF IInv, Signal, Kill, Goto, gateVars, queueVars
<1>1. TypeOK'
  <2>1. cur' \in [Gates -> 0 .. N] /\ relayQ' \in [Gates -> Seq(1 .. N)]
    <3>1. cur \in [Gates -> 0 .. N] /\ relayQ \in [Gates -> Seq(1 .. N)]
      BY DEF TypeOK
    <3> QED
      BY <3>1, ZeroIsACount
  <2>2. shutdown' \in [Gates -> BOOLEAN] /\ pc' \in [Gates -> {"start", "poll", "publish", "stopped", "killed"}]
    BY DEF TypeOK
  <2> QED
    BY <2>1, <2>2 DEF TypeOK
<1>2. LoopHoldsARow'
  BY DEF LoopHoldsARow, TypeOK
<1>3. OnlyTheActiveRelays'
  BY DEF OnlyTheActiveRelays, MayRelay, Alive, TypeOK
<1>4. RowsFollowTheLock' /\ GatesTakeTurns' /\ BoundHaveStarted'
  BY RowsStay DEF TypeOK
<1> QED
  BY <1>1, <1>2, <1>3, <1>4

\* A gate loses its binding and the lock with it, by drop(flow) (egress_gate.rs:145) or with
\* its connection: it is gone.
LEMMA UnboundPreserves ==
    ASSUME IInv, NEW g \in Gates, Stop(g) \/ LoseConnection(g)
    PROVE  IInv'
<1> USE DEF IInv, Stop, LoseConnection, Unbound, Goto, gateVars, loopVars
<1>1. TypeOK'
  <2>1. relayQ' \in [Gates -> Seq(1 .. N)] /\ events' \in [Gates -> Seq({"Active", "Inactive"})]
    <3>1. relayQ \in [Gates -> Seq(1 .. N)] /\ events \in [Gates -> Seq({"Active", "Inactive"})]
      BY DEF TypeOK
    <3>2. <<>> \in Seq({"Active", "Inactive"})
      OBVIOUS
    <3> QED
      BY <3>1, <3>2, ZeroIsACount
  <2>2. bound' \subseteq Gates /\ active' \in bound' \cup {NoGate}
    BY DEF TypeOK
  <2>3. link' \in [Gates -> BOOLEAN] /\ pc' \in [Gates -> {"start", "poll", "publish", "stopped", "killed"}]
    BY DEF TypeOK
  <2> QED
    BY <2>1, <2>2, <2>3 DEF TypeOK
<1>2. LoopHoldsARow' /\ BoundHaveStarted'
  BY DEF LoopHoldsARow, BoundHaveStarted, TypeOK
<1>3. OnlyTheActiveRelays'
  <2>1. ~MayRelay(g)'
    BY DEF MayRelay, Alive, TypeOK
  <2>2. ASSUME NEW h \in Gates, h # g, MayRelay(h)'
        PROVE  MayRelay(h)
    BY <2>2 DEF MayRelay, Alive, TypeOK
  <2>3. demotions' = demotions /\ \A h \in Gates : h # g /\ active = h => active' = h
    OBVIOUS
  <2> QED
    BY <2>1, <2>2, <2>3 DEF OnlyTheActiveRelays
<1>4. RowsFollowTheLock'
  <2>1. \A h \in Gates : Gone(h) => Gone(h)'
    BY DEF Gone, TypeOK
  <2>2. Gone(g)'
    BY DEF Gone, TypeOK
  <2>3. \A i \in DOMAIN out : out[i].gate \in Gates
    BY RowsAreTyped
  <2> QED
    BY <2>1, <2>2, <2>3, GatesAssumption DEF RowsFollowTheLock
<1>5. GatesTakeTurns'
  BY DEF GatesTakeTurns
<1> QED
  BY <1>1, <1>2, <1>3, <1>4, <1>5

\* The lock goes to a gate that has relayed nothing yet: it is bound, so it is not gone.
LEMMA PromotePreserves ==
    ASSUME IInv, NEW g \in Gates, Promote(g)
    PROVE  IInv'
<1> USE DEF IInv, Promote, gateVars, loopVars
<1>1. TypeOK'
  <2>1. events' \in [Gates -> Seq({"Active", "Inactive"})]
    BY DEF TypeOK
  <2> QED
    BY <2>1 DEF TypeOK
<1>2. LoopHoldsARow' /\ BoundHaveStarted'
  BY DEF LoopHoldsARow, BoundHaveStarted, TypeOK
<1>3. OnlyTheActiveRelays'
  <2>1. demotions = 0 => \A h \in Gates : ~MayRelay(h)
    BY GatesAssumption DEF OnlyTheActiveRelays
  <2>2. \A h \in Gates : h # g => (MayRelay(h)' => MayRelay(h))
    BY DEF MayRelay, Alive, TypeOK
  <2> QED
    BY <2>1, <2>2 DEF OnlyTheActiveRelays
<1>4. RowsFollowTheLock'
  <2>1. \A i \in DOMAIN out : out[i].gate \in Gates
    BY RowsAreTyped
  <2>2. demotions = 0 => \A i \in DOMAIN out : Gone(out[i].gate) /\ out[i].gate # g
    BY <2>1, GatesAssumption DEF RowsFollowTheLock, Gone
  <2> QED
    BY <2>2 DEF RowsFollowTheLock, Gone
<1>5. GatesTakeTurns'
  BY DEF GatesTakeTurns
<1> QED
  BY <1>1, <1>2, <1>3, <1>4, <1>5

\* A demotion ends what the properties speak of.
LEMMA DemotePreserves ==
    ASSUME IInv, NEW g \in Gates, Demote(g)
    PROVE  IInv'
<1> USE FaultsAssumption DEF IInv, Demote, gateVars, loopVars
<1>1. demotions' \in 0 .. MaxDemotions /\ demotions' # 0
  BY DEF TypeOK
<1>2. TypeOK'
  <2>1. events' \in [Gates -> Seq({"Active", "Inactive"})]
    BY DEF TypeOK
  <2> QED
    BY <1>1, <2>1 DEF TypeOK
<1>3. LoopHoldsARow' /\ BoundHaveStarted'
  BY DEF LoopHoldsARow, BoundHaveStarted
<1> QED
  BY <1>1, <1>2, <1>3 DEF OnlyTheActiveRelays, RowsFollowTheLock, GatesTakeTurns

-----------------------------------------------------------------------------
\* IInv is an invariant of the gates (egress_gate.rs:64-147).
THEOREM Invariance == Spec => []IInv
<1>1. ASSUME IInv, [Next]_vars
      PROVE  IInv'
  <2>1. ASSUME NEW g \in Gates, Bind(g) \/ Feed(g) \/ FlowEvent(g) \/ Pop(g) \/ Relay(g)
        PROVE  IInv'
    BY <1>1, <2>1, BindPreserves, FeedPreserves, FlowEventPreserves, PopPreserves, RelayPreserves
  <2>2. ASSUME NEW g \in Gates, Signal(g) \/ Stop(g) \/ Kill(g) \/ Promote(g) \/ LoseConnection(g) \/ Demote(g)
        PROVE  IInv'
    BY <1>1, <2>2, SignalAndKillPreserve, UnboundPreserves, PromotePreserves, DemotePreserves
  <2>3. CASE Finished \/ UNCHANGED vars
    <3>1. UNCHANGED <<pc, shutdown, cur, isLeader, relayQ, link, fed, bound, active, events, demotions, out>>
      BY <2>3 DEF Finished, vars, loopVars, gateVars, queueVars
    <3> QED
      BY <1>1, <3>1 DEF IInv, TypeOK, LoopHoldsARow, BoundHaveStarted, OnlyTheActiveRelays, MayRelay, Alive,
                        RowsFollowTheLock, Gone, GatesTakeTurns
  <2> QED
    BY <1>1, <2>1, <2>2, <2>3 DEF Next
<1> QED
  BY InitEstablishes, <1>1, PTL DEF Spec

\* Every variable keeps its type.
THEOREM TypeCorrect == Spec => []TypeOK
BY Invariance, PTL DEF IInv

\* As long as the lock is lost only with the binding, the rows of two gates never interleave
\* (failover-rig/egress-gate/README.md).
THEOREM TurnsAreTaken == Spec => []GatesTakeTurns
BY Invariance, PTL DEF IInv
-----------------------------------------------------------------------------
(* The counts.                                                             *)

\* A row with count d may come after one with count c.
Follows(c, d) == c < d + MaxLag

\* Counts come from the replica behind the gate, and no replica is too far ahead.
CountsAreFed ==
    /\ \A g, h \in Gates : fed[g] <= fed[h] + MaxLag
    /\ \A g \in Gates : cur[g] <= fed[g] /\ \A k \in DOMAIN relayQ[g] : relayQ[g][k] <= fed[g]
    /\ \A i \in DOMAIN out : out[i].count <= fed[out[i].gate]

\* What a gate has in hand and in relay_q may be relayed in that order.
RowsWaitInTurn ==
    \A g \in Gates :
        /\ \A k, l \in DOMAIN relayQ[g] : k < l => Follows(relayQ[g][k], relayQ[g][l])
        /\ pc[g] = "publish" => \A k \in DOMAIN relayQ[g] : Follows(cur[g], relayQ[g][k])

\* What a gate can still relay may come after all that has been relayed, by any gate.
WaitingFollowsRelayed ==
    demotions = 0 =>
        \A g \in Gates : Alive(g) /\ link[g] =>
            \A i \in DOMAIN out :
                /\ \A k \in DOMAIN relayQ[g] : Follows(out[i].count, relayQ[g][k])
                /\ pc[g] = "publish" => Follows(out[i].count, cur[g])

\* Downstream, counts go back by less than the lag, also across handoffs.
CountsGoBackByLessThanTheLag ==
    demotions = 0 => \A i, j \in DOMAIN out : i < j => Follows(out[i].count, out[j].count)

CountInv ==
    /\ CountsAreFed
    /\ RowsWaitInTurn
    /\ WaitingFollowsRelayed
    /\ CountsGoBackByLessThanTheLag

\* What TypeOK says of the rows that wait and of those that are out, as numbers.
LEMMA CountsAreNumbers ==
    ASSUME TypeOK
    PROVE  /\ \A g \in Gates : fed[g] \in Nat /\ cur[g] \in Nat
           /\ \A g \in Gates : \A k \in DOMAIN relayQ[g] : relayQ[g][k] \in Nat
           /\ \A i \in DOMAIN out : out[i].gate \in Gates /\ out[i].count \in Nat
           /\ MaxLag \in Nat /\ MaxLag > 0 /\ 1 .. N \subseteq Nat
<1> USE StreamAssumption
<1>1. \A g \in Gates : fed[g] \in Nat /\ cur[g] \in Nat
  <2>1. fed \in [Gates -> 0 .. N] /\ cur \in [Gates -> 0 .. N]
    BY DEF TypeOK
  <2> QED
    BY <2>1
<1>2. ASSUME NEW g \in Gates, NEW k \in DOMAIN relayQ[g]
      PROVE  relayQ[g][k] \in Nat
  <2>1. relayQ[g] \in Seq(1 .. N)
    BY GatesAreTyped
  <2>2. relayQ[g][k] \in 1 .. N
    BY <2>1, ElementOfSeq, LenProperties
  <2> QED
    BY <2>2
<1>3. ASSUME NEW i \in DOMAIN out
      PROVE  out[i].gate \in Gates /\ out[i].count \in Nat
  <2>1. out \in Seq([gate : Gates, count : 1 .. N])
    BY RowsAreTyped
  <2>2. out[i] \in [gate : Gates, count : 1 .. N]
    BY <2>1, ElementOfSeq, LenProperties
  <2> QED
    BY <2>2
<1> QED
  BY <1>1, <1>2, <1>3

\* There is nothing to compare when the gates come up.
LEMMA CountInvHoldsAtFirst == Init => CountInv
<1> SUFFICES ASSUME Init PROVE CountInv
  OBVIOUS
<1> USE StreamAssumption DEF Init
<1>1. CountsAreFed /\ RowsWaitInTurn
  BY DEF CountsAreFed, RowsWaitInTurn
<1> QED
  BY <1>1 DEF CountInv, WaitingFollowsRelayed, CountsGoBackByLessThanTheLag

\* A gate keeps its rows, or loses all of them.
KeepsItsRows(g) ==
    \/ relayQ'[g] = relayQ[g] /\ cur'[g] = cur[g] /\ (pc'[g] = "publish" <=> pc[g] = "publish")
    \/ relayQ'[g] = <<>> /\ cur'[g] \in {0, cur[g]} /\ pc'[g] # "publish"

\* A step after which the gates have the same rows or fewer keeps the order of the counts.
LEMMA NoNewRows ==
    ASSUME IInv, CountInv, UNCHANGED <<fed, out>>, demotions' = 0 => demotions = 0,
           \A g \in Gates : KeepsItsRows(g),
           \A g \in Gates : (Alive(g) /\ link[g])' => Alive(g) /\ link[g]
    PROVE  CountInv'
<1> USE DEF CountInv, KeepsItsRows
<1>0. TypeOK
  BY DEF IInv
<1>1. \A g \in Gates : \A k \in DOMAIN relayQ'[g] : k \in DOMAIN relayQ[g] /\ relayQ'[g][k] = relayQ[g][k] /\ cur'[g] = cur[g]
                                          /\ (pc'[g] = "publish" <=> pc[g] = "publish")
  OBVIOUS
<1>2. CountsAreFed'
  <2>1. \A g \in Gates : cur'[g] <= fed[g]
    BY <1>0, CountsAreNumbers DEF CountsAreFed
  <2> QED
    BY <1>1, <2>1 DEF CountsAreFed
<1>3. RowsWaitInTurn'
  BY <1>1 DEF RowsWaitInTurn, Follows
<1>4. WaitingFollowsRelayed'
  <2>1. \A g \in Gates : pc'[g] = "publish" => pc[g] = "publish" /\ cur'[g] = cur[g]
    OBVIOUS
  <2> QED
    BY <1>1, <2>1 DEF WaitingFollowsRelayed, Follows
<1>5. CountsGoBackByLessThanTheLag'
  BY DEF CountsGoBackByLessThanTheLag, Follows
<1> QED
  BY <1>2, <1>3, <1>4, <1>5

\* The replica's next row: no gate has relayed one that is further than the lag ahead of it
\* (egress_gate.rs:73-80).
LEMMA FeedKeepsTheCounts ==
    ASSUME IInv, CountInv, NEW g \in Gates, Feed(g)
    PROVE  CountInv'
<1>0. TypeOK /\ CountsAreFed /\ RowsWaitInTurn /\ WaitingFollowsRelayed /\ CountsGoBackByLessThanTheLag
  BY DEF IInv, CountInv
<1> DEFINE row == fed[g] + 1
<1>10. /\ \A h \in Gates : fed[g] < fed[h] + MaxLag
       /\ fed' = [fed EXCEPT ![g] = row] /\ relayQ' = Enqueue(g, row)
       /\ UNCHANGED <<pc, shutdown, cur, isLeader, link, bound, active, events, demotions, out>>
  BY DEF Feed, loopVars, queueVars
<1>1. /\ fed'[g] = row /\ \A h \in Gates : h # g => fed'[h] = fed[h]
      /\ \A h \in Gates : fed'[h] \in Nat /\ fed[h] <= fed'[h]
  <2>1. fed \in [Gates -> 0 .. N]
    BY <1>0 DEF TypeOK
  <2>2. \A h \in Gates : fed[h] \in Nat
    BY <1>0, CountsAreNumbers
  <2> QED
    BY <1>10, <2>1, <2>2
<1>2. /\ \A h \in Gates : h # g => relayQ'[h] = relayQ[h]
      /\ relayQ'[g] \in {relayQ[g], Append(relayQ[g], row)}
  BY <1>0, <1>10 DEF Enqueue, TypeOK
<1>3. ASSUME NEW k \in DOMAIN relayQ'[g], k \notin DOMAIN relayQ[g] \/ relayQ'[g][k] # relayQ[g][k]
      PROVE  relayQ'[g][k] = row /\ \A l \in DOMAIN relayQ'[g] : k # l => l \in DOMAIN relayQ[g] /\ l < k
  <2>1. relayQ'[g] = Append(relayQ[g], row) /\ relayQ[g] \in Seq(1 .. N)
    BY <1>0, <1>2, <1>3, GatesAreTyped
  <2>2. /\ DOMAIN relayQ[g] = 1 .. Len(relayQ[g]) /\ Len(relayQ[g]) \in Nat
        /\ DOMAIN relayQ'[g] = 1 .. Len(relayQ[g]) + 1
        /\ relayQ'[g][Len(relayQ[g]) + 1] = row /\ \A l \in DOMAIN relayQ[g] : relayQ'[g][l] = relayQ[g][l]
    BY <2>1
  <2> QED
    BY <2>2, <1>3
<1>4. CountsAreFed'
  <2>1. \A h, i \in Gates : fed'[h] <= fed'[i] + MaxLag
    <3>1. \A i \in Gates : row <= fed[i] + MaxLag
      BY <1>0, <1>10, CountsAreNumbers
    <3> QED
      BY <1>0, <1>1, <3>1, CountsAreNumbers DEF CountsAreFed
  <2>2. ASSUME NEW h \in Gates, NEW k \in DOMAIN relayQ'[h]
        PROVE  relayQ'[h][k] <= fed'[h]
    BY <1>0, <1>1, <1>2, <1>3, <1>10, CountsAreNumbers DEF CountsAreFed
  <2>3. \A h \in Gates : cur'[h] <= fed'[h]
    BY <1>0, <1>1, <1>10, CountsAreNumbers DEF CountsAreFed
  <2>4. \A i \in DOMAIN out' : out'[i].count <= fed'[out'[i].gate]
    BY <1>0, <1>1, <1>10, CountsAreNumbers DEF CountsAreFed
  <2> QED
    BY <2>1, <2>2, <2>3, <2>4 DEF CountsAreFed
<1>5. /\ \A k \in DOMAIN relayQ[g] : Follows(relayQ[g][k], row)
      /\ Follows(cur[g], row)
      /\ \A i \in DOMAIN out : Follows(out[i].count, row)
  BY <1>0, CountsAreNumbers DEF CountsAreFed, Follows
<1>6. RowsWaitInTurn'
  <2>1. ASSUME NEW h \in Gates, NEW k \in DOMAIN relayQ'[h], NEW l \in DOMAIN relayQ'[h], k < l
        PROVE  Follows(relayQ'[h][k], relayQ'[h][l])
    <3>1. CASE k \in DOMAIN relayQ[h] /\ relayQ'[h][k] = relayQ[h][k] /\ l \in DOMAIN relayQ[h] /\ relayQ'[h][l] = relayQ[h][l]
      BY <1>0, <2>1, <3>1 DEF RowsWaitInTurn
    <3>2. CASE ~(k \in DOMAIN relayQ[h] /\ relayQ'[h][k] = relayQ[h][k])
      <4>1. h = g
        BY <1>2, <3>2
      <4>2. l < k
        BY <1>3, <2>1, <3>2, <4>1
      <4>3. k \in Nat /\ l \in Nat
        BY <1>0, <1>2, <4>1, GatesAreTyped, SMTT(30) DEF TypeOK
      <4>4. ~(k < l)
        BY <4>2, <4>3
      <4> QED
        BY <2>1, <4>4, Zenon
    <3>3. CASE /\ k \in DOMAIN relayQ[h] /\ relayQ'[h][k] = relayQ[h][k]
               /\ ~(l \in DOMAIN relayQ[h] /\ relayQ'[h][l] = relayQ[h][l])
      BY <1>2, <1>3, <1>5, <3>3
    <3> QED
      BY <3>1, <3>2, <3>3
  <2>2. ASSUME NEW h \in Gates, pc'[h] = "publish", NEW k \in DOMAIN relayQ'[h]
        PROVE  Follows(cur'[h], relayQ'[h][k])
    BY <1>0, <1>2, <1>3, <1>5, <1>10, <2>2 DEF RowsWaitInTurn
  <2> QED
    BY <2>1, <2>2 DEF RowsWaitInTurn, Follows
<1>7. WaitingFollowsRelayed'
  <2>1. ASSUME demotions' = 0, NEW h \in Gates, Alive(h)', link'[h], NEW i \in DOMAIN out'
        PROVE  /\ \A k \in DOMAIN relayQ'[h] : Follows(out'[i].count, relayQ'[h][k])
               /\ pc'[h] = "publish" => Follows(out'[i].count, cur'[h])
    BY <1>0, <1>2, <1>3, <1>5, <1>10, <2>1 DEF WaitingFollowsRelayed, Alive
  <2> QED
    BY <2>1 DEF WaitingFollowsRelayed, Follows
<1>8. CountsGoBackByLessThanTheLag'
  BY <1>0, <1>10 DEF CountsGoBackByLessThanTheLag, Follows
<1> QED
  BY <1>4, <1>6, <1>7, <1>8 DEF CountInv

\* The loop takes the first row that waits (egress_gate.rs:127-132).
LEMMA PopKeepsTheCounts ==
    ASSUME IInv, CountInv, NEW g \in Gates, Pop(g)
    PROVE  CountInv'
<1> USE DEF CountInv, Pop, Goto, queueVars
<1>0. TypeOK
  BY DEF IInv
<1>1. /\ \A h \in Gates : h # g => relayQ'[h] = relayQ[h] /\ cur'[h] = cur[h] /\ pc'[h] = pc[h]
      /\ relayQ'[g] = Tail(relayQ[g]) /\ cur'[g] = relayQ[g][1] /\ pc'[g] = "publish"
  <2>1. Head(relayQ[g]) = relayQ[g][1]
    OBVIOUS
  <2> QED
    BY <1>0, <2>1 DEF TypeOK
<1>2. /\ 1 \in DOMAIN relayQ[g]
      /\ \A k \in DOMAIN relayQ'[g] : k + 1 \in DOMAIN relayQ[g] /\ 1 < k + 1 /\ relayQ'[g][k] = relayQ[g][k + 1]
      /\ DOMAIN relayQ'[g] \subseteq Nat
  <2>1. relayQ[g] \in Seq(1 .. N) /\ relayQ[g] # <<>>
    BY <1>0, GatesAreTyped
  <2> HIDE DEF Pop
  <2>2. /\ DOMAIN relayQ[g] = 1 .. Len(relayQ[g]) /\ Len(relayQ[g]) \in Nat /\ Len(relayQ[g]) # 0
        /\ Tail(relayQ[g]) = [k \in 1 .. Len(relayQ[g]) - 1 |-> relayQ[g][k + 1]]
    BY <2>1
  <2> QED
    BY <2>2, <1>1
<1>3. CountsAreFed'
  BY <1>0, <1>1, <1>2, CountsAreNumbers DEF CountsAreFed
<1>4. RowsWaitInTurn'
  <2>1. \A k, l \in DOMAIN relayQ'[g] : k < l => k + 1 < l + 1
    BY <1>2
  <2> QED
    BY <1>1, <1>2, <2>1 DEF RowsWaitInTurn, Follows
<1>5. WaitingFollowsRelayed'
  <2>1. ASSUME demotions' = 0, NEW h \in Gates, Alive(h)', link'[h], NEW i \in DOMAIN out'
        PROVE  /\ \A k \in DOMAIN relayQ'[h] : Follows(out'[i].count, relayQ'[h][k])
               /\ pc'[h] = "publish" => Follows(out'[i].count, cur'[h])
    BY <1>1, <1>2, <2>1 DEF WaitingFollowsRelayed, Alive
  <2> QED
    BY <2>1 DEF WaitingFollowsRelayed, Follows
<1>6. CountsGoBackByLessThanTheLag'
  BY DEF CountsGoBackByLessThanTheLag, Follows
<1> QED
  BY <1>3, <1>4, <1>5, <1>6

\* The loop publishes the row it has: the gate is the Active one, so that nobody else has
\* rows waiting (egress_gate.rs:133-142).
LEMMA RelayKeepsTheCounts ==
    ASSUME IInv, CountInv, NEW g \in Gates, Relay(g)
    PROVE  CountInv'
<1> USE DEF CountInv, Relay, Goto, gateVars, queueVars
<1>0. TypeOK
  BY DEF IInv
<1> DEFINE row == [gate |-> g, count |-> cur[g]]
<1>1. /\ \A h \in Gates : h # g => cur'[h] = cur[h] /\ pc'[h] = pc[h]
      /\ cur'[g] = 0 /\ pc'[g] = "poll"
  BY <1>0 DEF TypeOK
<1>2. cur[g] \in 1 .. N
  <2>1. cur[g] \in 0 .. N /\ cur[g] # 0
    BY <1>0, GatesAreTyped DEF IInv, LoopHoldsARow
  <2> QED
    BY <2>1, StreamAssumption
<1>3. /\ DOMAIN out = 1 .. Len(out) /\ Len(out) \in Nat
      /\ DOMAIN out' = IF link[g] THEN 1 .. Len(out) + 1 ELSE 1 .. Len(out)
      /\ \A i \in DOMAIN out : out'[i] = out[i]
      /\ link[g] => out'[Len(out) + 1] = row
  <2>1. out \in Seq([gate : Gates, count : 1 .. N]) /\ row \in [gate : Gates, count : 1 .. N]
    BY <1>0, <1>2, RowsAreTyped
  <2>2. /\ DOMAIN out = 1 .. Len(out) /\ Len(out) \in Nat
        /\ DOMAIN Append(out, row) = 1 .. Len(out) + 1
        /\ \A i \in DOMAIN out : Append(out, row)[i] = out[i]
        /\ Append(out, row)[Len(out) + 1] = row
    BY <2>1
  <2> QED
    BY <2>2
<1>4. CountsAreFed'
  <2>1. \A h \in Gates : cur'[h] <= fed'[h]
    BY <1>0, <1>1, CountsAreNumbers DEF CountsAreFed
  <2>2. ASSUME NEW i \in DOMAIN out'
        PROVE  out'[i].count <= fed'[out'[i].gate]
    BY <1>3 DEF CountsAreFed
  <2> QED
    BY <2>1, <2>2 DEF CountsAreFed
<1>5. RowsWaitInTurn'
  BY <1>1 DEF RowsWaitInTurn, Follows
<1>6. WaitingFollowsRelayed'
  <2>1. ASSUME demotions' = 0, NEW h \in Gates, Alive(h)', link'[h], NEW i \in DOMAIN out'
        PROVE  /\ \A k \in DOMAIN relayQ'[h] : Follows(out'[i].count, relayQ'[h][k])
               /\ pc'[h] = "publish" => Follows(out'[i].count, cur'[h])
    <3>1. demotions = 0 /\ Alive(h) /\ link[h]
      BY <1>1, <2>1 DEF Alive
    <3>2. CASE i \in DOMAIN out
      BY <1>1, <1>3, <3>1, <3>2 DEF WaitingFollowsRelayed
    <3>3. CASE i \notin DOMAIN out
      <4>1. link[g] /\ i = Len(out) + 1 /\ out'[i].count = cur[g]
        BY <1>3, <3>3
      <4>2. active = g
        BY <3>1, <4>1 DEF IInv, OnlyTheActiveRelays, MayRelay, Alive
      <4>3. CASE h = g
        BY <1>1, <4>1, <4>3 DEF RowsWaitInTurn
      <4>4. CASE h # g
        <5>1. ~MayRelay(h)
          BY <3>1, <4>2, <4>4 DEF IInv, OnlyTheActiveRelays
        <5>2. relayQ[h] = <<>> /\ pc[h] # "publish"
          BY <3>1, <5>1 DEF MayRelay
        <5> QED
          BY <1>1, <4>4, <5>2
      <4> QED
        BY <4>3, <4>4
    <3> QED
      BY <3>2, <3>3
  <2> QED
    BY <2>1 DEF WaitingFollowsRelayed, Follows
<1>7. CountsGoBackByLessThanTheLag'
  <2>1. ASSUME demotions' = 0, NEW i \in DOMAIN out', NEW j \in DOMAIN out', i < j
        PROVE  Follows(out'[i].count, out'[j].count)
    <3>1. i \in DOMAIN out
      BY <1>3, <2>1
    <3>2. CASE j \in DOMAIN out
      BY <1>3, <2>1, <3>1, <3>2 DEF CountsGoBackByLessThanTheLag
    <3>3. CASE j \notin DOMAIN out
      <4>1. link[g] /\ out'[j].count = cur[g]
        BY <1>3, <3>3
      <4>2. Alive(g)
        BY DEF Alive
      <4> QED
        BY <1>3, <2>1, <3>1, <4>1, <4>2 DEF WaitingFollowsRelayed
    <3> QED
      BY <3>2, <3>3
  <2> QED
    BY <2>1 DEF CountsGoBackByLessThanTheLag, Follows
<1> QED
  BY <1>4, <1>5, <1>6, <1>7

\* No other step gives a gate a row.
LEMMA OthersKeepTheCounts ==
    ASSUME IInv, CountInv, NEW g \in Gates,
           \/ Bind(g) \/ FlowEvent(g) \/ Signal(g) \/ Stop(g) \/ Kill(g)
           \/ Promote(g) \/ LoseConnection(g) \/ Demote(g)
    PROVE  CountInv'
<1> USE DEF KeepsItsRows, Alive, Goto, loopVars, gateVars, queueVars
<1>0. TypeOK
  BY DEF IInv
<1>1. CASE Bind(g) \/ FlowEvent(g) \/ Signal(g)
  BY <1>0, <1>1, NoNewRows DEF Bind, FlowEvent, Signal, TypeOK
<1>2. CASE Stop(g) \/ Kill(g)
  BY <1>0, <1>2, NoNewRows DEF Stop, Kill, Unbound, TypeOK
<1>3. CASE Promote(g) \/ LoseConnection(g)
  BY <1>0, <1>3, NoNewRows DEF Promote, LoseConnection, Unbound, TypeOK
<1>4. CASE Demote(g)
  <2>1. demotions' # 0
    BY <1>0, <1>4 DEF Demote, TypeOK
  <2> QED
    BY <1>0, <1>4, <2>1, NoNewRows DEF Demote
<1> QED
  BY <1>1, <1>2, <1>3, <1>4

\* The counts are in order at every step of the gates, the replicas and the broker
\* (egress_gate.rs:64-147).
THEOREM CountInvariance == Spec => []CountInv
<1>1. ASSUME IInv, CountInv, [Next]_vars
      PROVE  CountInv'
  <2>1. ASSUME NEW g \in Gates, Feed(g) \/ Pop(g) \/ Relay(g)
        PROVE  CountInv'
    BY <1>1, <2>1, FeedKeepsTheCounts, PopKeepsTheCounts, RelayKeepsTheCounts
  <2>2. ASSUME NEW g \in Gates, \/ Bind(g) \/ FlowEvent(g) \/ Signal(g) \/ Stop(g) \/ Kill(g)
                                \/ Promote(g) \/ LoseConnection(g) \/ Demote(g)
        PROVE  CountInv'
    BY <1>1, <2>2, OthersKeepTheCounts
  <2>3. CASE Finished \/ UNCHANGED vars
    <3>1. UNCHANGED <<pc, shutdown, cur, isLeader, relayQ, link, fed, bound, active, events, demotions, out>>
      BY <2>3 DEF Finished, vars, loopVars, gateVars, queueVars
    <3> QED
      BY <1>1, <3>1, NoNewRows DEF KeepsItsRows, Alive
  <2> QED
    BY <1>1, <2>1, <2>2, <2>3 DEF Next
<1> QED
  BY CountInvHoldsAtFirst, Invariance, <1>1, PTL DEF Spec

\* As long as the lock is lost only with the binding, what comes out downstream goes back by
\* less than one replica may be ahead of another, whatever that lag is
\* (failover-rig/egress-gate/README.md:6-7).
THEOREM CountsGoBackByLess == Spec => []CountsGoBackByLessThanTheLag
BY CountInvariance, PTL DEF CountInv

\* With replicas that are never two rows apart, counts never go backwards downstream.
THEOREM CountsGoUp ==
    ASSUME MaxLag = 1
    PROVE  Spec => []CountsNeverGoBack
<1>1. IInv /\ CountInv => CountsNeverGoBack
  <2> SUFFICES ASSUME IInv, CountInv, demotions = 0, NEW i \in DOMAIN out, NEW j \in DOMAIN out, i < j
               PROVE  out[i].count <= out[j].count
    BY DEF CountsNeverGoBack
  <2>1. out[i].count < out[j].count + 1
    BY DEF CountInv, CountsGoBackByLessThanTheLag, Follows
  <2>2. out[i].count \in Nat /\ out[j].count \in Nat
    BY CountsAreNumbers DEF IInv
  <2> QED
    BY <2>1, <2>2
<1> QED
  BY <1>1, Invariance, CountInvariance, PTL

=============================================================================
