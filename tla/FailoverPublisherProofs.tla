------------------------ MODULE FailoverPublisherProofs ------------------------
(***************************************************************************)
(* For any number of replicas and any queue of inputs: types, the turns of *)
(* the leaders, at-least-once as long as publish does not fail on a live   *)
(* connection, and what becomes of the order of the queue: second outputs  *)
(* are marked, a replica publishes in the order of the queue, nothing that *)
(* was acknowledged is published again, and a graceful handoff publishes   *)
(* nothing twice.                                                          *)
(***************************************************************************)
EXTENDS FailoverPublisher, SequenceTheorems, TLAPS

-----------------------------------------------------------------------------
(* The inductive invariant.                                                *)

\* Between the top of the loop and flow.ack the loop holds an input.
LoopHoldsAnInput == \A r \in Replicas : pc[r] \in {"publish", "ack"} => cur[r] \in Recs

\* Flows are bound by replicas that have come up.
BoundHaveStarted == \A r \in bound : pc[r] # "start"

\* A connection carries the outputs of its own replica.
OwnFrames ==
    \A r \in Replicas : \A i \in DOMAIN wire[r] :
        wire[r][i].kind = "out" => wire[r][i].row.replica = r

\* The unbind is the last thing a replica sends.
UnbindIsLast ==
    \A r \in Replicas : \A i \in DOMAIN wire[r] :
        wire[r][i].kind = "unbind" => i = Len(wire[r]) /\ pc[r] = "stopped"

\* An output of r is on its way, or r may still publish one.
OnTheWire(r) == \E i \in DOMAIN wire[r] : wire[r][i].kind = "out"
MayOutput(r) == OnTheWire(r) \/ (Alive(r) /\ link[r] /\ (inbox[r] # <<>> \/ pc[r] = "publish"))

OnlyTheActivePublishes == demotions = 0 => \A r \in Replicas : MayOutput(r) => active = r

\* Its binding is gone, and it will not bind again.
Gone(r) == r \notin bound /\ pc[r] # "start"

\* Outputs came from the Active replica, all of them behind those of replicas that are gone.
OutputsFollowTheLock ==
    demotions = 0 =>
        /\ \A i \in DOMAIN out : out[i].replica = active \/ Gone(out[i].replica)
        /\ \A i, j \in DOMAIN out : i < j /\ out[i].replica = active => out[j].replica = active

IInv ==
    /\ TypeOK
    /\ LoopHoldsAnInput
    /\ BoundHaveStarted
    /\ OwnFrames
    /\ UnbindIsLast
    /\ OnlyTheActivePublishes
    /\ OutputsFollowTheLock
    /\ LeadersTakeTurns

\* An output of m has come out, or is among the first k frames of r's connection.
Covered(r, k, m) ==
    \/ m \in Published
    \/ \E j \in 1 .. k : wire[r][j].kind = "out" /\ wire[r][j].row.seq = m

\* Acknowledgements travel behind the outputs they are about.
AcksFollowOutputs ==
    \A r \in Replicas : \A i \in DOMAIN wire[r] :
        wire[r][i].kind = "ack" => \A m \in wire[r][i].acks : Covered(r, i, m)

\* What waits to be acknowledged on a live connection has been sent.
BufferedAreCovered ==
    \A r \in Replicas : link[r] => \A m \in ackBuf[r] : Covered(r, Len(wire[r]), m)

\* So has what the loop is about to acknowledge.
LoopAcksWhatItSent ==
    \A r \in Replicas : link[r] /\ pc[r] = "ack" => Covered(r, Len(wire[r]), cur[r].seq)

AckInv ==
    /\ AcksFollowOutputs
    /\ BufferedAreCovered
    /\ LoopAcksWhatItSent
    /\ AckedInputsWerePublished

-----------------------------------------------------------------------------
(* What TypeOK says of sequences, and what a step does to them.            *)

LEMMA RowsAreTyped ==
    ASSUME TypeOK
    PROVE  /\ out \in Seq(Rows) /\ Len(out) \in Nat /\ DOMAIN out = 1 .. Len(out)
           /\ \A i \in DOMAIN out : out[i] \in Rows /\ out[i].replica \in Replicas
<1>1. out \in Seq(Rows)
  BY DEF TypeOK
<1>2. \A i \in DOMAIN out : out[i] \in Rows
  BY <1>1, ElementOfSeq, LenProperties
<1> QED
  BY <1>1, <1>2, LenProperties DEF Rows

LEMMA WireIsTyped ==
    ASSUME TypeOK, NEW r \in Replicas
    PROVE  /\ wire[r] \in Seq(Frames) /\ Len(wire[r]) \in Nat /\ DOMAIN wire[r] = 1 .. Len(wire[r])
           /\ \A i \in DOMAIN wire[r] : wire[r][i] \in Frames
<1>1. wire[r] \in Seq(Frames)
  BY DEF TypeOK
<1> QED
  BY <1>1, ElementOfSeq, LenProperties

\* What a replica sends.
LEMMA FramesAreTyped ==
    ASSUME TypeOK, NEW r \in Replicas
    PROVE  /\ cur[r] \in Recs => <<OutFrame(r, cur[r])>> \in Seq(Frames)
           /\ PendingAcks(r) \in Seq(Frames)
           /\ PendingAcks(r) \o <<UnbindFrame>> \in Seq(Frames)
<1>1. ASSUME cur[r] \in Recs
      PROVE  OutFrame(r, cur[r]) \in Frames
  <2>1. cur[r].seq \in Inputs /\ cur[r].redelivered \in BOOLEAN
    BY <1>1 DEF Recs
  <2> QED
    BY <2>1 DEF OutFrame, Frames, Rows
<1>2. ackBuf[r] \in SUBSET Inputs
  BY DEF TypeOK
<1>3. AckFrame(ackBuf[r]) \in Frames
  BY <1>2 DEF AckFrame, Frames
<1>4. PendingAcks(r) \in Seq(Frames)
  BY <1>3 DEF PendingAcks
<1>5. <<UnbindFrame>> \in Seq(Frames)
  BY DEF Frames
<1>6. PendingAcks(r) \o <<UnbindFrame>> \in Seq(Frames)
  BY <1>4, <1>5, ConcatProperties
<1> QED
  BY <1>1, <1>4, <1>6

\* The kind of a frame tells what is in it.
LEMMA KindsOfFrames ==
    ASSUME NEW f \in Frames
    PROVE  /\ f.kind \in {"out", "ack", "unbind"}
           /\ f.kind = "out" => f.row \in Rows
           /\ f.kind = "ack" => f.acks \subseteq Inputs
BY DEF Frames, UnbindFrame

\* Frames are written behind those that are there, and only on r's connection.
LEMMA Sending ==
    ASSUME TypeOK, NEW r \in Replicas, NEW frames \in Seq(Frames), Send(r, frames)
    PROVE  /\ wire' \in [Replicas -> Seq(Frames)]
           /\ \A s \in Replicas : s # r \/ ~link[r] => wire'[s] = wire[s]
           /\ link[r] =>
                /\ wire'[r] = wire[r] \o frames
                /\ Len(wire'[r]) = Len(wire[r]) + Len(frames)
                /\ DOMAIN wire'[r] = 1 .. Len(wire'[r])
                /\ \A i \in 1 .. Len(wire[r]) : wire'[r][i] = wire[r][i]
                /\ \A i \in 1 .. Len(frames) : wire'[r][Len(wire[r]) + i] = frames[i]
                /\ \A i \in DOMAIN wire'[r] :
                      i \in 1 .. Len(wire[r]) \/ \E j \in 1 .. Len(frames) : i = Len(wire[r]) + j
<1>1. wire[r] \in Seq(Frames) /\ Len(wire[r]) \in Nat
  BY WireIsTyped
<1>2. wire[r] \o frames \in Seq(Frames)
  BY <1>1, ConcatProperties
<1>3. wire' \in [Replicas -> Seq(Frames)] /\ \A s \in Replicas : s # r \/ ~link[r] => wire'[s] = wire[s]
  BY <1>2 DEF Send, TypeOK
<1>4. ASSUME link[r]
      PROVE  wire'[r] = wire[r] \o frames
  BY <1>4 DEF Send, TypeOK
<1>5. Len(frames) \in Nat
  BY LenProperties
<1>6. /\ Len(wire[r] \o frames) = Len(wire[r]) + Len(frames)
      /\ DOMAIN (wire[r] \o frames) = 1 .. Len(wire[r]) + Len(frames)
      /\ \A i \in 1 .. Len(wire[r]) + Len(frames) :
            (wire[r] \o frames)[i] = IF i <= Len(wire[r]) THEN wire[r][i] ELSE frames[i - Len(wire[r])]
  BY <1>1, <1>2, ConcatProperties, LenProperties
<1>7. \A i \in 1 .. Len(wire[r]) : (wire[r] \o frames)[i] = wire[r][i]
  BY <1>1, <1>5, <1>6
<1>8. \A i \in 1 .. Len(frames) : (wire[r] \o frames)[Len(wire[r]) + i] = frames[i]
  BY <1>1, <1>5, <1>6
<1>9. \A i \in 1 .. Len(wire[r]) + Len(frames) :
          i \in 1 .. Len(wire[r]) \/ \E j \in 1 .. Len(frames) : i = Len(wire[r]) + j
  <2> SUFFICES ASSUME NEW i \in 1 .. Len(wire[r]) + Len(frames), i \notin 1 .. Len(wire[r])
               PROVE  \E j \in 1 .. Len(frames) : i = Len(wire[r]) + j
    OBVIOUS
  <2>1. i - Len(wire[r]) \in 1 .. Len(frames) /\ i = Len(wire[r]) + (i - Len(wire[r]))
    BY <1>1, <1>5
  <2> QED
    BY <2>1
<1> QED
  BY <1>3, <1>4, <1>6, <1>7, <1>8, <1>9

\* The broker takes the first frame off a connection.
LEMMA Reading ==
    ASSUME TypeOK, NEW r \in Replicas, wire[r] # <<>>, wire' = [wire EXCEPT ![r] = Tail(@)]
    PROVE  /\ wire' \in [Replicas -> Seq(Frames)]
           /\ \A s \in Replicas : s # r => wire'[s] = wire[s]
           /\ Head(wire[r]) = wire[r][1] /\ 1 \in DOMAIN wire[r] /\ Head(wire[r]) \in Frames
           /\ Len(wire'[r]) = Len(wire[r]) - 1 /\ DOMAIN wire'[r] = 1 .. Len(wire[r]) - 1
           /\ \A i \in 1 .. Len(wire[r]) - 1 : wire'[r][i] = wire[r][i + 1] /\ i + 1 \in DOMAIN wire[r]
<1>1. /\ wire[r] \in Seq(Frames) /\ Len(wire[r]) \in Nat /\ DOMAIN wire[r] = 1 .. Len(wire[r])
      /\ \A i \in DOMAIN wire[r] : wire[r][i] \in Frames
  BY WireIsTyped
<1>2. Len(wire[r]) # 0
  BY <1>1, EmptySeq
<1>3. /\ Tail(wire[r]) \in Seq(Frames) /\ Len(Tail(wire[r])) = Len(wire[r]) - 1
      /\ \A i \in 1 .. Len(Tail(wire[r])) : Tail(wire[r])[i] = wire[r][i + 1]
  BY <1>1, HeadTailProperties
<1>4. Head(wire[r]) = wire[r][1]
  BY <1>1, <1>2
<1>5. wire'[r] = Tail(wire[r]) /\ wire' \in [Replicas -> Seq(Frames)]
      /\ \A s \in Replicas : s # r => wire'[s] = wire[s]
  BY <1>3 DEF TypeOK
<1>6. DOMAIN Tail(wire[r]) = 1 .. Len(wire[r]) - 1
  BY <1>3, LenProperties
<1>7. 1 \in DOMAIN wire[r] /\ \A i \in 1 .. Len(wire[r]) - 1 : i + 1 \in DOMAIN wire[r]
  BY <1>1, <1>2
<1> QED
  BY <1>1, <1>3, <1>4, <1>5, <1>6, <1>7

-----------------------------------------------------------------------------
(* Types, the order on the wire and the turns of the leaders.              *)

\* Inputs wait in the queue when the replicas come up.
LEMMA InitEstablishes == Init => IInv
<1> SUFFICES ASSUME Init PROVE IInv
  OBVIOUS
<1> USE ReplicasAssumption, InputsAssumption, FaultsAssumption DEF Init, Start
<1>1. TypeOK
  <2>1. inbox \in [Replicas -> Seq(Recs)] /\ wire \in [Replicas -> Seq(Frames)] /\ out \in Seq(Rows)
    OBVIOUS
  <2>2. demotions \in 0 .. MaxDemotions
    OBVIOUS
  <2> QED
    BY <2>1, <2>2 DEF TypeOK
<1>2. LoopHoldsAnInput /\ BoundHaveStarted /\ OutputsFollowTheLock /\ LeadersTakeTurns
  BY DEF LoopHoldsAnInput, BoundHaveStarted, OutputsFollowTheLock, LeadersTakeTurns, NoSplitBrain
<1>3. OwnFrames /\ UnbindIsLast /\ OnlyTheActivePublishes
  BY DEF OwnFrames, UnbindIsLast, OnlyTheActivePublishes, MayOutput, OnTheWire
<1> QED
  BY <1>1, <1>2, <1>3 DEF IInv

\* What leaves out, the bindings and the lock alone keeps the order of the outputs.
LEMMA OutputsStay ==
    ASSUME IInv, UNCHANGED <<out, active, bound>>, demotions' = 0 => demotions = 0,
           \A r \in Replicas : pc[r] # "start" => pc'[r] # "start"
    PROVE  OutputsFollowTheLock' /\ LeadersTakeTurns' /\ BoundHaveStarted'
<1>1. \A i \in DOMAIN out : out[i].replica \in Replicas
  BY RowsAreTyped DEF IInv
<1>2. OutputsFollowTheLock' /\ LeadersTakeTurns'
  BY <1>1 DEF IInv, OutputsFollowTheLock, LeadersTakeTurns, NoSplitBrain, Gone
<1>3. BoundHaveStarted'
  BY DEF IInv, TypeOK, BoundHaveStarted
<1> QED
  BY <1>2, <1>3

\* What leaves the wire alone keeps the order of the frames.
LEMMA FramesStay ==
    ASSUME IInv, UNCHANGED wire, \A r \in Replicas : pc[r] = "stopped" => pc'[r] = "stopped"
    PROVE  /\ OwnFrames' /\ UnbindIsLast'
           /\ \A r \in Replicas : OnTheWire(r)' <=> OnTheWire(r)
BY DEF IInv, OwnFrames, UnbindIsLast, OnTheWire

\* A replica comes up (failover_publisher.rs:100-170).
LEMMA BindPreserves ==
    ASSUME IInv, NEW r \in Replicas, Bind(r)
    PROVE  IInv'
<1> USE DEF Bind, Goto, wireVars
<1>1. TypeOK'
  BY DEF IInv, TypeOK
<1>2. LoopHoldsAnInput' /\ BoundHaveStarted'
  BY DEF IInv, LoopHoldsAnInput, BoundHaveStarted, TypeOK
<1>3. OwnFrames' /\ UnbindIsLast' /\ \A s \in Replicas : OnTheWire(s)' <=> OnTheWire(s)
  BY FramesStay DEF IInv, TypeOK
<1>4. OnlyTheActivePublishes'
  BY <1>3 DEF IInv, OnlyTheActivePublishes, MayOutput, Alive, TypeOK
<1>5. OutputsFollowTheLock' /\ LeadersTakeTurns'
  <2>1. \A s \in Replicas : Gone(s) => Gone(s)'
    BY DEF IInv, Gone, TypeOK
  <2>2. \A i \in DOMAIN out : out[i].replica \in Replicas
    BY RowsAreTyped DEF IInv
  <2> QED
    BY <2>1, <2>2 DEF IInv, OutputsFollowTheLock, LeadersTakeTurns, NoSplitBrain
<1> QED
  BY <1>1, <1>2, <1>3, <1>4, <1>5 DEF IInv

\* The loop takes an input (failover_publisher.rs:168-176).
LEMMA PopPreserves ==
    ASSUME IInv, NEW r \in Replicas, Pop(r)
    PROVE  IInv'
<1> USE DEF Pop, Goto, wireVars, queueVars
<1>1. Head(inbox[r]) \in Recs /\ Tail(inbox[r]) \in Seq(Recs)
  <2>1. inbox[r] \in Seq(Recs)
    BY DEF IInv, TypeOK
  <2> QED
    BY <2>1, HeadTailProperties
<1>2. TypeOK'
  BY <1>1 DEF IInv, TypeOK
<1>3. LoopHoldsAnInput'
  BY <1>1 DEF IInv, LoopHoldsAnInput, TypeOK
<1>4. OwnFrames' /\ UnbindIsLast' /\ \A s \in Replicas : OnTheWire(s)' <=> OnTheWire(s)
  BY FramesStay DEF IInv, TypeOK
<1>5. OnlyTheActivePublishes'
  BY <1>4 DEF IInv, OnlyTheActivePublishes, MayOutput, Alive, TypeOK
<1>6. OutputsFollowTheLock' /\ LeadersTakeTurns' /\ BoundHaveStarted'
  BY OutputsStay DEF IInv, TypeOK
<1> QED
  BY <1>2, <1>3, <1>4, <1>5, <1>6 DEF IInv

\* publish fails, or the acknowledgement is noted (failover_publisher.rs:197-204).
LEMMA PublishErrAndAckPreserve ==
    ASSUME IInv, NEW r \in Replicas, PublishErr(r) \/ Ack(r)
    PROVE  IInv'
<1> USE DEF PublishErr, Ack, Goto, wireVars, queueVars
<1>1. pc[r] \in {"publish", "ack"} /\ pc' = [pc EXCEPT ![r] = IF pc[r] = "publish" THEN "ack" ELSE "poll"]
  OBVIOUS
<1>2. cur[r] \in Recs /\ cur[r].seq \in Inputs
  BY <1>1 DEF IInv, LoopHoldsAnInput, Recs
<1>3. TypeOK'
  <2>1. ackBuf \in [Replicas -> SUBSET Inputs] /\ cur \in [Replicas -> Recs \cup {NoInput}]
    BY DEF IInv, TypeOK
  <2>2. [ackBuf EXCEPT ![r] = @ \cup {cur[r].seq}] \in [Replicas -> SUBSET Inputs]
    BY <1>2, <2>1
  <2>3. [cur EXCEPT ![r] = NoInput] \in [Replicas -> Recs \cup {NoInput}]
    BY <2>1
  <2>4. ackBuf' \in [Replicas -> SUBSET Inputs] /\ cur' \in [Replicas -> Recs \cup {NoInput}]
    BY <2>1, <2>2, <2>3
  <2>5. pc' \in [Replicas -> {"start", "poll", "publish", "ack", "stopped", "killed"}]
    BY <1>1 DEF IInv, TypeOK
  <2>6. UNCHANGED <<shutdown, inbox, wire, link, bound, spooled, active, sent, redelivered, removed, demotions, out>>
    OBVIOUS
  <2>7. TypeOK
    BY DEF IInv
  <2> QED
    BY <2>4, <2>5, <2>6, <2>7 DEF TypeOK
<1>4. LoopHoldsAnInput'
  BY <1>2 DEF IInv, LoopHoldsAnInput, TypeOK
<1>5. OwnFrames' /\ UnbindIsLast' /\ \A s \in Replicas : OnTheWire(s)' <=> OnTheWire(s)
  BY FramesStay DEF IInv, TypeOK
<1>6. OnlyTheActivePublishes'
  <2>1. /\ UNCHANGED <<inbox, link, active, demotions>>
        /\ \A s \in Replicas : pc'[s] = pc[s] \/ (Alive(s) /\ pc'[s] # "publish")
    BY DEF IInv, TypeOK, Alive
  <2>2. \A s \in Replicas : MayOutput(s)' => MayOutput(s)
    BY <1>5, <2>1 DEF MayOutput, Alive
  <2> QED
    BY <2>1, <2>2 DEF IInv, OnlyTheActivePublishes
<1>7. OutputsFollowTheLock' /\ LeadersTakeTurns' /\ BoundHaveStarted'
  BY OutputsStay DEF IInv, TypeOK
<1> QED
  BY <1>3, <1>4, <1>5, <1>6, <1>7 DEF IInv

\* A signal, or a replica that is killed, publishes nothing.
LEMMA SignalAndKillPreserve ==
    ASSUME IInv, NEW r \in Replicas, Signal(r) \/ Kill(r)
    PROVE  IInv'
<1> USE DEF Signal, Kill, Goto, Alive, wireVars, queueVars
<1>1. TypeOK'
  <2>1. inbox' \in [Replicas -> Seq(Recs)]
    <3>1. inbox \in [Replicas -> Seq(Recs)] /\ <<>> \in Seq(Recs)
      BY DEF IInv, TypeOK
    <3> QED
      BY <3>1
  <2> QED
    BY <2>1 DEF IInv, TypeOK
<1>2. LoopHoldsAnInput'
  BY DEF IInv, LoopHoldsAnInput, TypeOK
<1>3. OwnFrames' /\ UnbindIsLast' /\ \A s \in Replicas : OnTheWire(s)' <=> OnTheWire(s)
  BY FramesStay DEF IInv, TypeOK
<1>4. OnlyTheActivePublishes'
  <2>1. /\ UNCHANGED <<link, active, demotions>>
        /\ \A s \in Replicas : pc'[s] = "killed" \/ (pc'[s] = pc[s] /\ inbox'[s] = inbox[s])
    BY DEF IInv, TypeOK
  <2>2. \A s \in Replicas : MayOutput(s)' => MayOutput(s)
    BY <1>3, <2>1 DEF MayOutput
  <2> QED
    BY <2>1, <2>2 DEF IInv, OnlyTheActivePublishes
<1>5. OutputsFollowTheLock' /\ LeadersTakeTurns' /\ BoundHaveStarted'
  BY OutputsStay DEF IInv, TypeOK
<1> QED
  BY <1>1, <1>2, <1>3, <1>4, <1>5 DEF IInv

\* A replica that sends frames of its own, an unbind only as the last one and only if it
\* has stopped, keeps the order on the wire.
LEMMA SendingKeepsTheOrder ==
    ASSUME IInv, NEW r \in Replicas, NEW frames \in Seq(Frames), Send(r, frames), pc[r] # "stopped",
           \A s \in Replicas : pc[s] = "stopped" => pc'[s] = "stopped",
           \A j \in 1 .. Len(frames) :
              /\ frames[j].kind = "out" => frames[j].row.replica = r
              /\ frames[j].kind = "unbind" => j = Len(frames) /\ pc'[r] = "stopped"
    PROVE  OwnFrames' /\ UnbindIsLast'
<1>1. TypeOK
  BY DEF IInv
<1>2. ASSUME NEW s \in Replicas, s # r \/ ~link[r]
      PROVE  wire'[s] = wire[s]
  BY <1>1, <1>2, Sending
<1>3. ASSUME NEW s \in Replicas, NEW i \in DOMAIN wire'[s]
      PROVE  /\ wire'[s][i].kind = "out" => wire'[s][i].row.replica = s
             /\ wire'[s][i].kind = "unbind" => i = Len(wire'[s]) /\ pc'[s] = "stopped"
  <2>1. CASE s # r \/ ~link[r]
    BY <1>2, <1>3, <2>1 DEF IInv, OwnFrames, UnbindIsLast
  <2>2. CASE s = r /\ link[r] /\ i \in 1 .. Len(wire[r])
    <3>1. wire'[r][i] = wire[r][i] /\ i \in DOMAIN wire[r]
      BY <1>1, <2>2, Sending, WireIsTyped
    <3>2. wire[r][i].kind # "unbind"
      BY <3>1 DEF IInv, UnbindIsLast
    <3> QED
      BY <2>2, <3>1, <3>2 DEF IInv, OwnFrames
  <2>3. CASE s = r /\ link[r] /\ i \notin 1 .. Len(wire[r])
    <3>1. PICK j \in 1 .. Len(frames) : i = Len(wire[r]) + j
      BY <1>1, <1>3, <2>3, Sending
    <3>2. wire'[r][i] = frames[j] /\ Len(wire'[r]) = Len(wire[r]) + Len(frames)
      BY <1>1, <2>3, <3>1, Sending
    <3> QED
      BY <2>3, <3>1, <3>2
  <2> QED
    BY <2>1, <2>2, <2>3
<1> QED
  BY <1>3 DEF OwnFrames, UnbindIsLast

\* session.publish of an output (failover_publisher.rs:183-199).
LEMMA PublishOkPreserves ==
    ASSUME IInv, NEW r \in Replicas, PublishOk(r)
    PROVE  IInv'
<1> USE DEF PublishOk, Goto, queueVars
<1> DEFINE frames == <<OutFrame(r, cur[r])>>
<1>1. TypeOK /\ cur[r] \in Recs
  BY DEF IInv, LoopHoldsAnInput
<1>2. frames \in Seq(Frames) /\ Send(r, frames)
  BY <1>1, FramesAreTyped
<1>3. TypeOK'
  <2>1. wire' \in [Replicas -> Seq(Frames)]
    BY <1>1, <1>2, Sending
  <2> QED
    BY <1>1, <2>1 DEF TypeOK
<1>4. LoopHoldsAnInput'
  BY <1>1 DEF IInv, LoopHoldsAnInput, TypeOK
<1>5. OwnFrames' /\ UnbindIsLast'
  <2>1. \A j \in 1 .. Len(frames) :
           /\ frames[j].kind = "out" => frames[j].row.replica = r
           /\ frames[j].kind = "unbind" => j = Len(frames) /\ pc'[r] = "stopped"
    BY DEF OutFrame
  <2>2. pc[r] # "stopped" /\ \A s \in Replicas : pc[s] = "stopped" => pc'[s] = "stopped"
    BY <1>1 DEF TypeOK
  <2> HIDE DEF frames
  <2> QED
    BY <1>2, <2>1, <2>2, SendingKeepsTheOrder
<1>6. OnlyTheActivePublishes'
  <2>1. UNCHANGED <<inbox, link, active, demotions>>
    OBVIOUS
  <2>2. \A s \in Replicas : s # r \/ ~link[r] => wire'[s] = wire[s]
    BY <1>1, <1>2, Sending
  <2>3. ASSUME NEW s \in Replicas, MayOutput(s)'
        PROVE  MayOutput(s)
    <3>1. CASE s # r \/ ~link[r]
      BY <1>1, <2>1, <2>2, <2>3, <3>1 DEF MayOutput, OnTheWire, Alive, TypeOK
    <3>2. CASE s = r /\ link[r]
      BY <3>2 DEF MayOutput, Alive
    <3> QED
      BY <3>1, <3>2
  <2> QED
    BY <2>1, <2>3 DEF IInv, OnlyTheActivePublishes
<1>7. OutputsFollowTheLock' /\ LeadersTakeTurns' /\ BoundHaveStarted'
  BY OutputsStay DEF IInv, TypeOK
<1> QED
  BY <1>3, <1>4, <1>5, <1>6, <1>7 DEF IInv

\* Acknowledgements leave, and at the end the unbind behind them (failover_publisher.rs:207-211).
LEMMA FlushAndStopPreserve ==
    ASSUME IInv, NEW r \in Replicas, FlushAcks(r) \/ Stop(r)
    PROVE  IInv'
<1> USE DEF FlushAcks, Stop, Goto, Alive, queueVars
<1>1. TypeOK /\ pc[r] # "stopped"
  BY DEF IInv
<1>2. PICK frames \in Seq(Frames) :
         /\ Send(r, frames)
         /\ \A j \in 1 .. Len(frames) :
               /\ frames[j].kind # "out"
               /\ frames[j].kind = "unbind" => j = Len(frames) /\ pc'[r] = "stopped"
  <2>1. CASE FlushAcks(r)
    <3>1. \A j \in 1 .. Len(PendingAcks(r)) : PendingAcks(r)[j].kind = "ack"
      BY DEF PendingAcks, AckFrame
    <3> QED
      BY <1>1, <2>1, <3>1, FramesAreTyped
  <2>2. CASE Stop(r)
    <3> DEFINE sent2 == PendingAcks(r) \o <<UnbindFrame>>
    <3>1. pc'[r] = "stopped"
      BY <1>1, <2>2 DEF TypeOK
    <3>2. PendingAcks(r) \in Seq(Frames) /\ <<UnbindFrame>> \in Seq(Frames) /\ Len(PendingAcks(r)) \in Nat
      BY <1>1, FramesAreTyped, LenProperties DEF Frames
    <3>3. /\ Len(sent2) = Len(PendingAcks(r)) + 1
          /\ \A j \in 1 .. Len(sent2) :
                sent2[j] = IF j <= Len(PendingAcks(r)) THEN PendingAcks(r)[j] ELSE UnbindFrame
      <4>1. Len(<<UnbindFrame>>) = 1 /\ <<UnbindFrame>>[1] = UnbindFrame
        OBVIOUS
      <4> QED
        BY <3>2, <4>1, ConcatProperties
    <3>4. \A j \in 1 .. Len(PendingAcks(r)) : PendingAcks(r)[j].kind = "ack"
      BY DEF PendingAcks, AckFrame
    <3>5. \A j \in 1 .. Len(sent2) :
             sent2[j].kind # "out" /\ (sent2[j].kind = "unbind" => j = Len(sent2))
      BY <3>2, <3>3, <3>4 DEF UnbindFrame
    <3>6. sent2 \in Seq(Frames) /\ Send(r, sent2)
      BY <1>1, <2>2, FramesAreTyped
    <3> HIDE DEF sent2
    <3> QED
      BY <3>1, <3>5, <3>6
  <2> QED
    BY <2>1, <2>2
<1>3. TypeOK'
  <2>1. wire' \in [Replicas -> Seq(Frames)]
    BY <1>1, <1>2, Sending
  <2>2. inbox' \in [Replicas -> Seq(Recs)]
    <3>1. inbox \in [Replicas -> Seq(Recs)] /\ <<>> \in Seq(Recs)
      BY <1>1 DEF TypeOK
    <3> QED
      BY <3>1
  <2>3. ackBuf' \in [Replicas -> SUBSET Inputs] /\ pc' \in [Replicas -> {"start", "poll", "publish", "ack", "stopped", "killed"}]
    BY <1>1 DEF TypeOK
  <2> QED
    BY <1>1, <2>1, <2>2, <2>3 DEF TypeOK
<1>4. \A s \in Replicas : pc'[s] = "stopped" \/ pc'[s] = pc[s]
  BY <1>1 DEF TypeOK
<1>5. LoopHoldsAnInput'
  BY <1>4 DEF IInv, LoopHoldsAnInput
<1>6. OwnFrames' /\ UnbindIsLast'
  BY <1>1, <1>2, <1>4, SendingKeepsTheOrder
<1>7. OnlyTheActivePublishes'
  <2>1. ASSUME NEW s \in Replicas, OnTheWire(s)'
        PROVE  OnTheWire(s)
    <3>1. CASE s # r \/ ~link[r]
      <4>1. wire'[s] = wire[s]
        BY <1>1, <1>2, <3>1, Sending
      <4> QED
        BY <2>1, <4>1 DEF OnTheWire
    <3>2. CASE s = r /\ link[r]
      <4>1. PICK i \in DOMAIN wire'[r] : wire'[r][i].kind = "out"
        BY <2>1, <3>2 DEF OnTheWire
      <4>2. i \in 1 .. Len(wire[r])
        BY <1>1, <1>2, <3>2, <4>1, Sending, SMTT(30)
      <4>3. wire'[r][i] = wire[r][i] /\ i \in DOMAIN wire[r]
        BY <1>1, <1>2, <3>2, <4>2, Sending, WireIsTyped
      <4> QED
        BY <3>2, <4>1, <4>3 DEF OnTheWire
    <3> QED
      BY <3>1, <3>2
  <2>2. /\ UNCHANGED <<link, active, demotions>>
        /\ \A s \in Replicas : inbox'[s] = inbox[s] \/ inbox'[s] = <<>>
    BY <1>1 DEF TypeOK
  <2>3. \A s \in Replicas : MayOutput(s)' => MayOutput(s)
    BY <1>4, <2>1, <2>2 DEF MayOutput
  <2> QED
    BY <2>2, <2>3 DEF IInv, OnlyTheActivePublishes
<1>8. OutputsFollowTheLock' /\ LeadersTakeTurns' /\ BoundHaveStarted'
  BY <1>4, OutputsStay DEF IInv
<1> QED
  BY <1>3, <1>5, <1>6, <1>7, <1>8 DEF IInv

\* The lock goes to a replica none of whose outputs has come out: it is bound, so it is not gone.
LEMMA PromotePreserves ==
    ASSUME IInv, NEW r \in Replicas, Promote(r)
    PROVE  IInv'
<1> USE DEF Promote, replicaVars, wireVars
<1>1. TypeOK' /\ LoopHoldsAnInput' /\ BoundHaveStarted'
  BY DEF IInv, TypeOK, LoopHoldsAnInput, BoundHaveStarted
<1>2. OwnFrames' /\ UnbindIsLast' /\ \A s \in Replicas : OnTheWire(s)' <=> OnTheWire(s)
  BY FramesStay
<1>3. OnlyTheActivePublishes'
  <2>1. demotions = 0 => \A s \in Replicas : ~MayOutput(s)
    BY ReplicasAssumption DEF IInv, OnlyTheActivePublishes
  <2>2. \A s \in Replicas : MayOutput(s)' => MayOutput(s)
    BY <1>2 DEF MayOutput, Alive
  <2> QED
    BY <2>1, <2>2 DEF OnlyTheActivePublishes
<1>4. OutputsFollowTheLock'
  <2>1. demotions = 0 => \A i \in DOMAIN out : Gone(out[i].replica) /\ out[i].replica # r
    BY RowsAreTyped, ReplicasAssumption DEF IInv, OutputsFollowTheLock, Gone
  <2> QED
    BY <2>1 DEF OutputsFollowTheLock, Gone
<1>5. LeadersTakeTurns'
  BY DEF IInv, LeadersTakeTurns, NoSplitBrain
<1> QED
  BY <1>1, <1>2, <1>3, <1>4, <1>5 DEF IInv

\* The Active replica receives an input, which goes to its inbox
\* (failover_publisher.rs:132-145).
LEMMA DeliverPreserves ==
    ASSUME IInv, NEW r \in Replicas, Deliver(r)
    PROVE  IInv'
<1> USE DEF Deliver, wireVars
<1>1. PICK m \in spooled : sent' = sent \cup {m} /\ inbox' = Receive(r, m)
  OBVIOUS
<1>2. m \in Inputs /\ [seq |-> m, redelivered |-> m \in redelivered] \in Recs
  BY DEF IInv, TypeOK, Recs
<1>3. inbox' \in [Replicas -> Seq(Recs)] /\ \A s \in Replicas : s # r => inbox'[s] = inbox[s]
  BY <1>1, <1>2 DEF Receive, IInv, TypeOK
<1>4. TypeOK'
  BY <1>1, <1>3 DEF IInv, TypeOK
<1>5. LoopHoldsAnInput'
  BY DEF IInv, LoopHoldsAnInput
<1>6. OwnFrames' /\ UnbindIsLast' /\ \A s \in Replicas : OnTheWire(s)' <=> OnTheWire(s)
  BY FramesStay
<1>7. OnlyTheActivePublishes'
  <2>1. \A s \in Replicas : s # r /\ MayOutput(s)' => MayOutput(s)
    BY <1>3, <1>6 DEF MayOutput, Alive
  <2> QED
    BY <2>1 DEF IInv, OnlyTheActivePublishes
<1>8. OutputsFollowTheLock' /\ LeadersTakeTurns' /\ BoundHaveStarted'
  BY OutputsStay
<1> QED
  BY <1>4, <1>5, <1>6, <1>7, <1>8 DEF IInv

\* A replica that loses its binding, with nothing of it on the way, is gone for good.
LEMMA UnboundIsGone ==
    ASSUME IInv, NEW r \in Replicas, bound' = bound \ {r}, Deactivate(r), pc[r] # "start",
           UNCHANGED <<pc, spooled, out, demotions>>, ~MayOutput(r)',
           \A s \in Replicas : s # r /\ MayOutput(s)' => MayOutput(s)
    PROVE  /\ bound' \subseteq Replicas /\ active' \in bound' \cup {NoReplica}
           /\ sent' \subseteq spooled' /\ redelivered' \subseteq Inputs
           /\ BoundHaveStarted' /\ OnlyTheActivePublishes'
           /\ OutputsFollowTheLock' /\ LeadersTakeTurns'
<1>1. /\ bound' \subseteq Replicas /\ active' \in bound' \cup {NoReplica}
      /\ sent' \subseteq spooled' /\ redelivered' \subseteq Inputs
  BY DEF IInv, TypeOK, Deactivate
<1>2. BoundHaveStarted'
  BY DEF IInv, BoundHaveStarted
<1>3. active' = IF active = r THEN NoReplica ELSE active
  BY DEF Deactivate
<1>4. OnlyTheActivePublishes'
  BY <1>3 DEF IInv, OnlyTheActivePublishes
<1>5. OutputsFollowTheLock'
  <2>1. Gone(r)' /\ \A s \in Replicas : Gone(s) => Gone(s)'
    BY DEF Gone
  <2>2. \A i \in DOMAIN out : out[i].replica \in Replicas
    BY RowsAreTyped DEF IInv
  <2> QED
    BY <1>3, <2>1, <2>2, ReplicasAssumption DEF IInv, OutputsFollowTheLock
<1>6. LeadersTakeTurns'
  BY DEF IInv, LeadersTakeTurns, NoSplitBrain
<1> QED
  BY <1>1, <1>2, <1>4, <1>5, <1>6

\* A connection breaks, or the broker notices that the process has gone.
LEMMA LoseConnectionPreserves ==
    ASSUME IInv, NEW r \in Replicas, LoseConnection(r)
    PROVE  IInv'
<1> USE DEF LoseConnection, replicaVars
<1>1. wire'[r] = <<>> /\ ~link'[r] /\ wire' \in [Replicas -> Seq(Frames)]
  <2>1. wire \in [Replicas -> Seq(Frames)] /\ <<>> \in Seq(Frames) /\ link \in [Replicas -> BOOLEAN]
    BY DEF IInv, TypeOK
  <2> QED
    BY <2>1
<1>2. \A s \in Replicas : s # r => wire'[s] = wire[s] /\ link'[s] = link[s]
  BY DEF IInv, TypeOK
<1>3. LoopHoldsAnInput'
  BY DEF IInv, LoopHoldsAnInput
<1>4. OwnFrames' /\ UnbindIsLast'
  BY <1>1, <1>2 DEF IInv, OwnFrames, UnbindIsLast
<1>5. ~MayOutput(r)' /\ \A s \in Replicas : s # r /\ MayOutput(s)' => MayOutput(s)
  BY <1>1, <1>2 DEF MayOutput, OnTheWire, Alive
<1>6. /\ bound' \subseteq Replicas /\ active' \in bound' \cup {NoReplica}
      /\ sent' \subseteq spooled' /\ redelivered' \subseteq Inputs
      /\ BoundHaveStarted' /\ OnlyTheActivePublishes' /\ OutputsFollowTheLock' /\ LeadersTakeTurns'
  BY <1>5, UnboundIsGone
<1>7. TypeOK'
  BY <1>1, <1>6 DEF IInv, TypeOK
<1> QED
  BY <1>3, <1>4, <1>6, <1>7 DEF IInv

\* A demotion ends what the turns are about.
LEMMA DemotePreserves ==
    ASSUME IInv, NEW r \in Replicas, Demote(r)
    PROVE  IInv'
<1> USE DEF Demote, Deactivate, replicaVars, wireVars
<1>1. demotions' \in 0 .. MaxDemotions /\ demotions' # 0
  BY FaultsAssumption DEF IInv, TypeOK
<1>2. TypeOK'
  BY <1>1 DEF IInv, TypeOK
<1>3. LoopHoldsAnInput' /\ BoundHaveStarted'
  BY DEF IInv, LoopHoldsAnInput, BoundHaveStarted
<1>4. OwnFrames' /\ UnbindIsLast'
  BY FramesStay
<1>5. OnlyTheActivePublishes' /\ OutputsFollowTheLock' /\ LeadersTakeTurns'
  BY <1>1 DEF OnlyTheActivePublishes, OutputsFollowTheLock, LeadersTakeTurns
<1> QED
  BY <1>2, <1>3, <1>4, <1>5 DEF IInv

\* Taking a frame off the wire leaves the others in their order.
LEMMA ReadingKeepsTheOrder ==
    ASSUME IInv, NEW r \in Replicas, wire[r] # <<>>, wire' = [wire EXCEPT ![r] = Tail(@)],
           UNCHANGED <<pc, inbox, link>>
    PROVE  /\ OwnFrames' /\ UnbindIsLast'
           /\ \A s \in Replicas : MayOutput(s)' => MayOutput(s)
<1>1. TypeOK
  BY DEF IInv
<1>2. \A s \in Replicas : s # r => wire'[s] = wire[s]
  BY <1>1, Reading
<1>3. /\ Len(wire[r]) \in Nat /\ Len(wire'[r]) = Len(wire[r]) - 1 /\ DOMAIN wire'[r] = 1 .. Len(wire[r]) - 1
      /\ \A i \in 1 .. Len(wire[r]) - 1 : wire'[r][i] = wire[r][i + 1] /\ i + 1 \in DOMAIN wire[r]
  BY <1>1, Reading, WireIsTyped
<1>4. \A s \in Replicas : \A i \in DOMAIN wire'[s] : wire'[s][i].kind = "out" => wire'[s][i].row.replica = s
  BY <1>2, <1>3 DEF IInv, OwnFrames
<1>5. \A s \in Replicas : \A i \in DOMAIN wire'[s] :
         wire'[s][i].kind = "unbind" => i = Len(wire'[s]) /\ pc[s] = "stopped"
  <2> SUFFICES ASSUME NEW s \in Replicas, NEW i \in DOMAIN wire'[s], wire'[s][i].kind = "unbind"
               PROVE  i = Len(wire'[s]) /\ pc[s] = "stopped"
    OBVIOUS
  <2>1. CASE s # r
    BY <1>2, <2>1 DEF IInv, UnbindIsLast
  <2>2. CASE s = r
    <3>1. i + 1 = Len(wire[r]) /\ pc[r] = "stopped"
      BY <1>3, <2>2 DEF IInv, UnbindIsLast
    <3> QED
      BY <1>3, <2>2, <3>1
  <2> QED
    BY <2>1, <2>2
<1>6. \A s \in Replicas : OnTheWire(s)' => OnTheWire(s)
  BY <1>2, <1>3 DEF OnTheWire
<1> QED
  BY <1>4, <1>5, <1>6 DEF OwnFrames, UnbindIsLast, MayOutput, Alive

\* An output comes out: it is the Active replica's, so it goes behind those of replicas that
\* are gone.
LEMMA OutputComesOut ==
    ASSUME IInv, NEW r \in Replicas, BrokerReads(r), Head(wire[r]).kind = "out"
    PROVE  IInv'
<1> USE DEF BrokerReads, replicaVars, queueVars
<1> DEFINE row == Head(wire[r]).row
<1>1. TypeOK
  BY DEF IInv
<1>2. /\ Head(wire[r]) = wire[r][1] /\ 1 \in DOMAIN wire[r] /\ Head(wire[r]) \in Frames
      /\ wire' \in [Replicas -> Seq(Frames)]
  BY <1>1, Reading
<1>3. row \in Rows /\ row.replica = r
  BY <1>2, KindsOfFrames DEF IInv, OwnFrames
<1>4. out' = Append(out, row) /\ UNCHANGED <<bound, spooled, active, sent, redelivered, removed, demotions>>
  OBVIOUS
<1>5. out \in Seq(Rows) /\ Len(out) \in Nat /\ DOMAIN out = 1 .. Len(out)
  BY <1>1, RowsAreTyped
<1>6. /\ out' \in Seq(Rows) /\ DOMAIN out' = 1 .. Len(out) + 1
      /\ out'[Len(out) + 1] = row /\ \A i \in DOMAIN out : out'[i] = out[i]
  <2> DEFINE after == Append(out, row)
  <2>1. after \in Seq(Rows) /\ Len(after) = Len(out) + 1 /\ after[Len(out) + 1] = row
    BY <1>3, <1>5, AppendProperties
  <2>2. \A i \in 1 .. Len(out) : after[i] = out[i]
    BY <1>3, <1>5, AppendProperties
  <2>3. DOMAIN after = 1 .. Len(after)
    BY <2>1, LenProperties
  <2> HIDE DEF after
  <2> QED
    BY <1>4, <1>5, <2>1, <2>2, <2>3 DEF after
<1>7. TypeOK'
  BY <1>1, <1>2, <1>4, <1>6 DEF TypeOK
<1>8. LoopHoldsAnInput' /\ BoundHaveStarted'
  BY DEF IInv, LoopHoldsAnInput, BoundHaveStarted
<1>9. OwnFrames' /\ UnbindIsLast' /\ OnlyTheActivePublishes'
  BY <1>4, ReadingKeepsTheOrder DEF IInv, OnlyTheActivePublishes
<1>10. demotions = 0 => active = r
  BY <1>2 DEF IInv, OnlyTheActivePublishes, MayOutput, OnTheWire
<1>11. OutputsFollowTheLock'
  <2> SUFFICES ASSUME demotions = 0
               PROVE  /\ \A i \in DOMAIN out' : out'[i].replica = active \/ Gone(out'[i].replica)
                      /\ \A i, j \in DOMAIN out' : i < j /\ out'[i].replica = active => out'[j].replica = active
    BY <1>4 DEF OutputsFollowTheLock, Gone
  <2>1. /\ \A i \in DOMAIN out : out[i].replica = active \/ Gone(out[i].replica)
        /\ \A i, j \in DOMAIN out : i < j /\ out[i].replica = active => out[j].replica = active
    BY DEF IInv, OutputsFollowTheLock
  <2>2. \A i \in DOMAIN out' : i \in DOMAIN out \/ i = Len(out) + 1
    BY <1>5, <1>6
  <2>3. out'[Len(out) + 1].replica = active
    BY <1>3, <1>6, <1>10
  <2> HIDE DEF row
  <2> QED
    BY <1>5, <1>6, <2>1, <2>2, <2>3
<1>12. LeadersTakeTurns'
  <2> SUFFICES ASSUME demotions = 0, NEW i \in DOMAIN out', NEW j \in DOMAIN out', NEW k \in DOMAIN out',
                      i < j, j < k, out'[i].replica = out'[k].replica
               PROVE  out'[j].replica = out'[i].replica
    BY <1>4 DEF LeadersTakeTurns, NoSplitBrain
  <2>1. i \in DOMAIN out /\ j \in DOMAIN out
    BY <1>5, <1>6
  <2>2. CASE k \in DOMAIN out
    BY <1>6, <2>1, <2>2 DEF IInv, LeadersTakeTurns, NoSplitBrain
  <2>3. CASE k = Len(out) + 1
    BY <1>3, <1>6, <1>10, <2>1, <2>3 DEF IInv, OutputsFollowTheLock
  <2> QED
    BY <1>5, <1>6, <2>2, <2>3
<1> QED
  BY <1>7, <1>8, <1>9, <1>11, <1>12 DEF IInv

\* The broker deletes what is acknowledged.
LEMMA AckArrives ==
    ASSUME IInv, NEW r \in Replicas, BrokerReads(r), Head(wire[r]).kind = "ack"
    PROVE  IInv'
<1> USE DEF BrokerReads, replicaVars, queueVars
<1>1. TypeOK
  BY DEF IInv
<1>2. wire' \in [Replicas -> Seq(Frames)] /\ Head(wire[r]) \in Frames
  BY <1>1, Reading
<1>3. /\ sent' \subseteq sent /\ removed' \subseteq removed \cup sent
      /\ UNCHANGED <<bound, spooled, active, redelivered, demotions, out>>
  OBVIOUS
<1>4. TypeOK'
  BY <1>1, <1>2, <1>3 DEF TypeOK
<1>5. LoopHoldsAnInput'
  BY DEF IInv, LoopHoldsAnInput
<1>6. OwnFrames' /\ UnbindIsLast' /\ OnlyTheActivePublishes'
  BY <1>3, ReadingKeepsTheOrder DEF IInv, OnlyTheActivePublishes
<1>7. OutputsFollowTheLock' /\ LeadersTakeTurns' /\ BoundHaveStarted'
  BY <1>3, OutputsStay
<1> QED
  BY <1>4, <1>5, <1>6, <1>7 DEF IInv

\* The unbind was the last frame of a replica that has stopped.
LEMMA UnbindArrives ==
    ASSUME IInv, NEW r \in Replicas, BrokerReads(r), Head(wire[r]).kind = "unbind"
    PROVE  IInv'
<1> USE DEF BrokerReads, replicaVars, queueVars
<1>1. TypeOK
  BY DEF IInv
<1>2. wire' \in [Replicas -> Seq(Frames)] /\ DOMAIN wire'[r] = 1 .. Len(wire[r]) - 1
  BY <1>1, Reading
<1>3. Len(wire[r]) = 1 /\ pc[r] = "stopped"
  <2>1. Head(wire[r]) = wire[r][1] /\ 1 \in DOMAIN wire[r]
    BY <1>1, Reading
  <2>2. wire[r][1].kind = "unbind"
    BY <2>1
  <2> QED
    BY <2>1, <2>2 DEF IInv, UnbindIsLast
<1>4. ~MayOutput(r)'
  <2>1. ~OnTheWire(r)'
    BY <1>2, <1>3 DEF OnTheWire
  <2> QED
    BY <1>3, <2>1 DEF MayOutput, Alive
<1>5. bound' = bound \ {r} /\ Deactivate(r) /\ UNCHANGED <<pc, inbox, link, spooled, removed, demotions, out>>
  OBVIOUS
<1>6. OwnFrames' /\ UnbindIsLast' /\ \A s \in Replicas : MayOutput(s)' => MayOutput(s)
  BY <1>5, ReadingKeepsTheOrder
<1>7. /\ bound' \subseteq Replicas /\ active' \in bound' \cup {NoReplica}
      /\ sent' \subseteq spooled' /\ redelivered' \subseteq Inputs
      /\ BoundHaveStarted' /\ OnlyTheActivePublishes' /\ OutputsFollowTheLock' /\ LeadersTakeTurns'
  BY <1>3, <1>4, <1>5, <1>6, UnboundIsGone
<1>8. TypeOK'
  BY <1>1, <1>2, <1>5, <1>7 DEF TypeOK
<1>9. LoopHoldsAnInput'
  BY DEF IInv, LoopHoldsAnInput
<1> QED
  BY <1>6, <1>7, <1>8, <1>9 DEF IInv

LEMMA BrokerReadsPreserves ==
    ASSUME IInv, NEW r \in Replicas, BrokerReads(r)
    PROVE  IInv'
<1>1. Head(wire[r]) \in Frames
  BY Reading DEF BrokerReads, IInv
<1> QED
  BY <1>1, KindsOfFrames, OutputComesOut, AckArrives, UnbindArrives

-----------------------------------------------------------------------------
(* At-least-once.                                                          *)

\* An output that is among the first k frames is among the first l >= k.
LEMMA CoveredGrows ==
    ASSUME NEW r, NEW k \in Nat, NEW l \in Nat, k <= l, NEW m, Covered(r, k, m)
    PROVE  Covered(r, l, m)
BY DEF Covered

\* Frames that are sent leave alone what is before them.
LEMMA SendingKeepsCovered ==
    ASSUME TypeOK, NEW r \in Replicas, NEW frames \in Seq(Frames), Send(r, frames), UNCHANGED out,
           NEW s \in Replicas, NEW k \in 0 .. Len(wire[s]), NEW m, Covered(s, k, m)
    PROVE  Covered(s, k, m)' /\ k <= Len(wire'[s]) /\ Len(wire'[s]) \in Nat
<1>1. Len(wire[s]) \in Nat /\ Len(frames) \in Nat /\ wire'[s] \in Seq(Frames)
  BY WireIsTyped, LenProperties, Sending
<1>2. Len(wire'[s]) \in Nat /\ Len(wire[s]) <= Len(wire'[s])
  <2>1. Len(wire'[s]) \in Nat
    BY <1>1, LenProperties
  <2>2. CASE s # r \/ ~link[r]
    BY <1>1, <2>2, Sending
  <2>3. CASE s = r /\ link[r]
    BY <1>1, <2>1, <2>3, Sending
  <2> QED
    BY <2>1, <2>2, <2>3
<1>3. \A j \in 1 .. k : wire'[s][j] = wire[s][j]
  <2>1. CASE s # r \/ ~link[r]
    BY <2>1, Sending
  <2>2. CASE s = r /\ link[r]
    <3>1. \A j \in 1 .. Len(wire[r]) : wire'[r][j] = wire[r][j]
      BY <2>2, Sending
    <3>2. \A j \in 1 .. k : j \in 1 .. Len(wire[r])
      BY <1>1, <2>2
    <3> QED
      BY <2>2, <3>1, <3>2
  <2> QED
    BY <2>1, <2>2
<1>4. Covered(s, k, m)'
  BY <1>3 DEF Covered, Published
<1> QED
  BY <1>1, <1>2, <1>4

\* Steps that send nothing, and note no more than what the loop was about to acknowledge.
LEMMA QuietStep ==
    ASSUME IInv, AckInv, UNCHANGED <<wire, link, removed, out>>,
           \A s \in Replicas : link[s] =>
               /\ \A m \in ackBuf'[s] : m \in ackBuf[s] \/ (pc[s] = "ack" /\ m = cur[s].seq)
               /\ pc'[s] = "ack" => pc[s] = "ack" /\ cur'[s] = cur[s]
    PROVE  AckInv'
<1>1. \A s, k, m : Covered(s, k, m) => Covered(s, k, m)'
  BY DEF Covered, Published
<1>2. AcksFollowOutputs'
  BY <1>1 DEF AckInv, AcksFollowOutputs
<1>3. BufferedAreCovered'
  BY <1>1 DEF AckInv, BufferedAreCovered, LoopAcksWhatItSent
<1>4. LoopAcksWhatItSent'
  BY <1>1 DEF AckInv, LoopAcksWhatItSent
<1>5. AckedInputsWerePublished'
  BY DEF AckInv, AckedInputsWerePublished, Published
<1> QED
  BY <1>2, <1>3, <1>4, <1>5 DEF AckInv

\* Steps that send: the acknowledgements among the frames are those that were noted.
LEMMA SendingStep ==
    ASSUME IInv, AckInv, NEW r \in Replicas, NEW frames \in Seq(Frames), Send(r, frames),
           UNCHANGED <<link, removed, out>>,
           \A j \in 1 .. Len(frames) : frames[j].kind = "ack" => frames[j].acks \subseteq ackBuf[r],
           \A s \in Replicas : ackBuf'[s] \subseteq ackBuf[s],
           \A s \in Replicas : link[s] /\ pc'[s] = "ack" =>
               \/ pc[s] = "ack" /\ cur'[s] = cur[s]
               \/ Covered(s, Len(wire[s]), cur[s].seq)'
    PROVE  AckInv'
<1>1. TypeOK
  BY DEF IInv
<1>2. ASSUME NEW s \in Replicas, NEW k \in 0 .. Len(wire[s]), NEW m, Covered(s, k, m)
      PROVE  Covered(s, k, m)' /\ k <= Len(wire'[s]) /\ Len(wire'[s]) \in Nat
  BY <1>1, <1>2, SendingKeepsCovered
<1>3. ASSUME NEW s \in Replicas, NEW m, Covered(s, Len(wire[s]), m)
      PROVE  Covered(s, Len(wire[s]), m)'
  <2>1. PICK k \in Nat : k = Len(wire[s])
    BY <1>1, WireIsTyped
  <2>2. k \in 0 .. Len(wire[s]) /\ Covered(s, k, m)
    BY <1>3, <2>1
  <2>3. Covered(s, k, m)' /\ k <= Len(wire'[s]) /\ Len(wire'[s]) \in Nat
    BY <1>2, <2>2
  <2> QED
    BY <2>3 DEF Covered
<1>4. AcksFollowOutputs'
  <2> SUFFICES ASSUME NEW s \in Replicas, NEW i \in DOMAIN wire'[s], wire'[s][i].kind = "ack",
                      NEW m \in wire'[s][i].acks
               PROVE  Covered(s, i, m)'
    BY DEF AcksFollowOutputs
  <2>1. CASE s # r \/ ~link[r]
    <3>1. wire'[s] = wire[s]
      BY <1>1, <2>1, Sending
    <3>2. i \in 0 .. Len(wire[s]) /\ Covered(s, i, m)
      BY <1>1, <3>1, WireIsTyped DEF AckInv, AcksFollowOutputs
    <3> QED
      BY <1>2, <3>2
  <2>2. CASE s = r /\ link[r] /\ i \in 1 .. Len(wire[r])
    <3>1. wire'[r][i] = wire[r][i] /\ i \in DOMAIN wire[r] /\ i \in 0 .. Len(wire[r])
      BY <1>1, <2>2, Sending, WireIsTyped
    <3>2. Covered(r, i, m)
      BY <2>2, <3>1 DEF AckInv, AcksFollowOutputs
    <3> QED
      BY <1>2, <2>2, <3>1, <3>2
  <2>3. CASE s = r /\ link[r] /\ i \notin 1 .. Len(wire[r])
    <3>1. PICK j \in 1 .. Len(frames) : i = Len(wire[r]) + j
      BY <1>1, <2>3, Sending
    <3>2. wire'[r][i] = frames[j]
      BY <1>1, <2>3, <3>1, Sending
    <3>3. Covered(r, Len(wire[r]), m)
      BY <2>3, <3>2 DEF AckInv, BufferedAreCovered
    <3>4. PICK k \in Nat : k = Len(wire[r])
      BY <1>1, WireIsTyped
    <3>5. k \in 0 .. Len(wire[r]) /\ Covered(r, k, m) /\ i \in Nat /\ k <= i
      BY <3>1, <3>3, <3>4
    <3>6. Covered(r, k, m)'
      BY <1>2, <3>5
    <3> QED
      BY <2>3, <3>5, <3>6 DEF Covered
  <2> QED
    BY <2>1, <2>2, <2>3
<1>5. BufferedAreCovered'
  BY <1>3 DEF AckInv, BufferedAreCovered
<1>6. LoopAcksWhatItSent'
  BY <1>3 DEF AckInv, LoopAcksWhatItSent
<1>7. AckedInputsWerePublished'
  BY DEF AckInv, AckedInputsWerePublished, Published
<1> QED
  BY <1>4, <1>5, <1>6, <1>7 DEF AckInv

\* The loop acknowledges behind the publish (failover_publisher.rs:183-204).
LEMMA PublishOkKeepsAcks ==
    ASSUME IInv, AckInv, NEW r \in Replicas, PublishOk(r)
    PROVE  AckInv'
<1> USE DEF PublishOk, Goto, queueVars
<1> DEFINE frames == <<OutFrame(r, cur[r])>>
<1>1. TypeOK /\ cur[r] \in Recs
  BY DEF IInv, LoopHoldsAnInput
<1>2. frames \in Seq(Frames) /\ Send(r, frames)
  BY <1>1, FramesAreTyped
<1>3. /\ Len(frames) = 1 /\ frames[1].kind = "out" /\ frames[1].row.seq = cur[r].seq
      /\ \A j \in 1 .. Len(frames) : frames[j].kind # "ack"
  BY DEF OutFrame
<1>4. ASSUME link[r]
      PROVE  Covered(r, Len(wire[r]), cur[r].seq)'
  <2> HIDE DEF frames
  <2>1. Len(wire[r]) \in Nat
    BY <1>1, WireIsTyped
  <2>2. Len(wire'[r]) = Len(wire[r]) + 1 /\ wire'[r][Len(wire[r]) + 1] = frames[1]
    <3>1. \A i \in 1 .. Len(frames) : wire'[r][Len(wire[r]) + i] = frames[i]
      BY <1>1, <1>2, <1>4, Sending
    <3>2. Len(wire'[r]) = Len(wire[r]) + Len(frames)
      BY <1>1, <1>2, <1>4, Sending
    <3> QED
      BY <1>3, <3>1, <3>2
  <2>3. Len(wire[r]) + 1 \in 1 .. Len(wire'[r]) /\ cur' = cur
    BY <2>1, <2>2
  <2> QED
    BY <1>3, <2>2, <2>3 DEF Covered
<1>5. \A s \in Replicas : s # r => pc'[s] = pc[s]
  BY <1>1 DEF TypeOK
<1>6. UNCHANGED <<link, removed, out, ackBuf, cur>>
  OBVIOUS
<1> HIDE DEF frames, PublishOk
<1>7. \A j \in 1 .. Len(frames) : frames[j].kind = "ack" => frames[j].acks \subseteq ackBuf[r]
  BY <1>3
<1>8. \A s \in Replicas : link[s] /\ pc'[s] = "ack" =>
          (pc[s] = "ack" /\ cur'[s] = cur[s]) \/ Covered(s, Len(wire[s]), cur[s].seq)'
  BY <1>4, <1>5, <1>6
<1> QED
  BY <1>2, <1>6, <1>7, <1>8, SendingStep

\* What was noted leaves behind everything that was sent.
LEMMA FlushAndStopKeepAcks ==
    ASSUME IInv, AckInv, NEW r \in Replicas, FlushAcks(r) \/ Stop(r)
    PROVE  AckInv'
<1> USE DEF FlushAcks, Stop, Goto, queueVars
<1>1. TypeOK
  BY DEF IInv
<1>2. PICK frames \in Seq(Frames) :
         /\ Send(r, frames)
         /\ \A j \in 1 .. Len(frames) : frames[j].kind = "ack" => frames[j].acks \subseteq ackBuf[r]
  <2>1. \A j \in 1 .. Len(PendingAcks(r)) : PendingAcks(r)[j].acks = ackBuf[r]
    BY DEF PendingAcks, AckFrame
  <2>2. CASE FlushAcks(r)
    BY <1>1, <2>1, <2>2, FramesAreTyped
  <2>3. CASE Stop(r)
    <3> DEFINE all == PendingAcks(r) \o <<UnbindFrame>>
    <3>1. PendingAcks(r) \in Seq(Frames) /\ <<UnbindFrame>> \in Seq(Frames) /\ Len(PendingAcks(r)) \in Nat
      BY <1>1, FramesAreTyped, LenProperties DEF Frames
    <3>2. /\ Len(all) = Len(PendingAcks(r)) + 1
          /\ \A j \in 1 .. Len(all) :
                all[j] = IF j <= Len(PendingAcks(r)) THEN PendingAcks(r)[j] ELSE UnbindFrame
      <4>1. Len(<<UnbindFrame>>) = 1 /\ <<UnbindFrame>>[1] = UnbindFrame
        OBVIOUS
      <4> QED
        BY <3>1, <4>1, ConcatProperties
    <3>3. \A j \in 1 .. Len(all) : all[j].kind = "ack" => all[j].acks \subseteq ackBuf[r]
      BY <2>1, <3>1, <3>2 DEF UnbindFrame
    <3>4. all \in Seq(Frames) /\ Send(r, all)
      BY <1>1, <2>3, FramesAreTyped
    <3> HIDE DEF all
    <3> QED
      BY <3>3, <3>4
  <2> QED
    BY <2>2, <2>3
<1>3. UNCHANGED <<link, removed, out, cur>>
  OBVIOUS
<1>4. \A s \in Replicas : ackBuf'[s] \subseteq ackBuf[s] /\ (pc'[s] = "ack" => pc[s] = "ack")
  BY <1>1 DEF TypeOK
<1> HIDE DEF FlushAcks, Stop
<1> QED
  BY <1>2, <1>3, <1>4, SendingStep

\* A connection that breaks takes its acknowledgements with it.
LEMMA LoseConnectionKeepsAcks ==
    ASSUME IInv, AckInv, NEW r \in Replicas, LoseConnection(r)
    PROVE  AckInv'
<1> USE DEF LoseConnection, replicaVars
<1>1. /\ wire'[r] = <<>> /\ ~link'[r]
      /\ \A s \in Replicas : s # r => wire'[s] = wire[s] /\ link'[s] = link[s]
  BY DEF IInv, TypeOK
<1>2. \A k, m : \A s \in Replicas : s # r /\ Covered(s, k, m) => Covered(s, k, m)'
  BY <1>1 DEF Covered, Published
<1>3. AcksFollowOutputs'
  BY <1>1, <1>2 DEF AckInv, AcksFollowOutputs
<1>4. BufferedAreCovered' /\ LoopAcksWhatItSent'
  BY <1>1, <1>2 DEF AckInv, BufferedAreCovered, LoopAcksWhatItSent
<1>5. AckedInputsWerePublished'
  BY DEF AckInv, AckedInputsWerePublished, Published
<1> QED
  BY <1>3, <1>4, <1>5 DEF AckInv

\* The broker reads outputs before the acknowledgements behind them.
LEMMA BrokerReadsKeepsAcks ==
    ASSUME IInv, AckInv, NEW r \in Replicas, BrokerReads(r)
    PROVE  AckInv'
<1> USE DEF BrokerReads, Deactivate, replicaVars, queueVars
<1>1. TypeOK /\ wire[r] # <<>> /\ wire' = [wire EXCEPT ![r] = Tail(@)]
  BY DEF IInv
<1>2. /\ \A s \in Replicas : s # r => wire'[s] = wire[s]
      /\ Head(wire[r]) = wire[r][1] /\ 1 \in DOMAIN wire[r] /\ Head(wire[r]) \in Frames
      /\ Len(wire'[r]) = Len(wire[r]) - 1 /\ DOMAIN wire'[r] = 1 .. Len(wire[r]) - 1
      /\ \A i \in 1 .. Len(wire[r]) - 1 : wire'[r][i] = wire[r][i + 1] /\ i + 1 \in DOMAIN wire[r]
  BY <1>1, Reading
<1>3. Len(wire[r]) \in Nat
  BY <1>1, WireIsTyped
<1>4. /\ Published \subseteq Published'
      /\ Head(wire[r]).kind = "out" => Head(wire[r]).row.seq \in Published'
  <2>1. CASE Head(wire[r]).kind = "out"
    <3>1. out \in Seq(Rows) /\ Head(wire[r]).row \in Rows /\ out' = Append(out, Head(wire[r]).row)
      BY <1>1, <1>2, <2>1, RowsAreTyped, KindsOfFrames
    <3>2. /\ Len(out) \in Nat /\ DOMAIN out = 1 .. Len(out) /\ DOMAIN out' = 1 .. Len(out) + 1
          /\ out'[Len(out) + 1] = Head(wire[r]).row /\ \A i \in DOMAIN out : out'[i] = out[i]
      BY <3>1
    <3> HIDE DEF BrokerReads
    <3> QED
      BY <3>2 DEF Published
  <2>2. CASE Head(wire[r]).kind # "out"
    BY <1>2, <2>2, KindsOfFrames DEF Published
  <2> QED
    BY <2>1, <2>2
<1>5. ASSUME NEW s \in Replicas, s # r, NEW k, NEW m, Covered(s, k, m)
      PROVE  Covered(s, k, m)'
  BY <1>2, <1>4, <1>5 DEF Covered
<1>6. ASSUME NEW k \in Nat, k + 1 <= Len(wire[r]), NEW m, Covered(r, k + 1, m)
      PROVE  Covered(r, k, m)'
  <2>1. CASE m \in Published
    BY <1>4, <2>1 DEF Covered
  <2>2. CASE m \notin Published
    <3>1. PICK j \in 1 .. k + 1 : wire[r][j].kind = "out" /\ wire[r][j].row.seq = m
      BY <1>6, <2>2 DEF Covered
    <3>2. CASE j = 1
      BY <1>2, <1>4, <3>1, <3>2 DEF Covered
    <3>3. CASE j # 1
      <4>1. j - 1 \in 1 .. k /\ j - 1 \in 1 .. Len(wire[r]) - 1 /\ (j - 1) + 1 = j
        BY <1>3, <1>6, <3>3
      <4>2. wire'[r][j - 1] = wire[r][j]
        BY <1>2, <4>1
      <4> QED
        BY <3>1, <4>1, <4>2 DEF Covered
    <3> QED
      BY <3>2, <3>3
  <2> QED
    BY <2>1, <2>2
<1>7. ASSUME NEW s \in Replicas, NEW m, Covered(s, Len(wire[s]), m)
      PROVE  Covered(s, Len(wire[s]), m)'
  <2>1. CASE s # r
    <3>1. PICK k \in Nat : k = Len(wire[s])
      BY <1>1, WireIsTyped
    <3>2. Covered(s, k, m)'
      BY <1>5, <1>7, <2>1, <3>1
    <3>3. Len(wire'[s]) = k
      BY <1>2, <2>1, <3>1
    <3> QED
      BY <3>2, <3>3 DEF Covered
  <2>2. CASE s = r
    <3>1. PICK k \in Nat : k + 1 = Len(wire[r])
      <4>1. 1 \in 1 .. Len(wire[r])
        BY <1>1, <1>2, WireIsTyped
      <4>2. Len(wire[r]) - 1 \in Nat /\ (Len(wire[r]) - 1) + 1 = Len(wire[r])
        BY <1>3, <4>1
      <4> QED
        BY <4>2
    <3>2. Covered(r, k, m)'
      <4>1. k + 1 <= Len(wire[r]) /\ Covered(r, k + 1, m)
        BY <1>3, <1>7, <2>2, <3>1
      <4> QED
        BY <1>6, <4>1
    <3>3. Len(wire'[r]) = k
      BY <1>2, <1>3, <3>1
    <3> QED
      BY <2>2, <3>2, <3>3 DEF Covered
  <2> QED
    BY <2>1, <2>2
<1>8. AcksFollowOutputs'
  <2> SUFFICES ASSUME NEW s \in Replicas, NEW i \in DOMAIN wire'[s], wire'[s][i].kind = "ack",
                      NEW m \in wire'[s][i].acks
               PROVE  Covered(s, i, m)'
    BY DEF AcksFollowOutputs
  <2>1. CASE s # r
    BY <1>2, <1>5, <2>1 DEF AckInv, AcksFollowOutputs
  <2>2. CASE s = r
    <3>1. i \in 1 .. Len(wire[r]) - 1 /\ i \in Nat /\ i + 1 <= Len(wire[r])
      BY <1>2, <1>3, <2>2
    <3>2. Covered(r, i + 1, m)
      BY <1>2, <2>2, <3>1 DEF AckInv, AcksFollowOutputs
    <3> QED
      BY <1>6, <2>2, <3>1, <3>2
  <2> QED
    BY <2>1, <2>2
<1>9. UNCHANGED <<pc, cur, ackBuf, link>>
  OBVIOUS
<1>10. BufferedAreCovered' /\ LoopAcksWhatItSent'
  <2> HIDE DEF BrokerReads
  <2> QED
    BY <1>7, <1>9 DEF AckInv, BufferedAreCovered, LoopAcksWhatItSent
<1>11. AckedInputsWerePublished'
  <2>1. CASE Head(wire[r]).kind = "ack"
    <3>1. \A m \in Head(wire[r]).acks : Covered(r, 1, m)
      BY <1>2, <2>1 DEF AckInv, AcksFollowOutputs
    <3>2. \A m \in Head(wire[r]).acks : m \in Published
      BY <1>2, <2>1, <3>1 DEF Covered
    <3>3. removed' \subseteq removed \cup Head(wire[r]).acks
      BY <2>1
    <3> QED
      BY <1>4, <3>2, <3>3 DEF AckInv, AckedInputsWerePublished
  <2>2. CASE Head(wire[r]).kind # "ack"
    BY <1>2, <1>4, <2>2, KindsOfFrames DEF AckInv, AckedInputsWerePublished
  <2> QED
    BY <2>1, <2>2
<1> QED
  BY <1>8, <1>10, <1>11 DEF AckInv

-----------------------------------------------------------------------------
\* IInv is an invariant of the replicas and the broker (failover_publisher.rs:100-211).
THEOREM Invariance == Spec => []IInv
<1>1. ASSUME IInv, [Next]_vars
      PROVE  IInv'
  <2>1. ASSUME NEW r \in Replicas, Bind(r) \/ Pop(r) \/ PublishOk(r) \/ PublishErr(r) \/ Ack(r)
                                    \/ FlushAcks(r) \/ Signal(r) \/ Stop(r) \/ Kill(r)
        PROVE  IInv'
    BY <1>1, <2>1, BindPreserves, PopPreserves, PublishOkPreserves, PublishErrAndAckPreserve,
       FlushAndStopPreserve, SignalAndKillPreserve
  <2>2. ASSUME NEW r \in Replicas, Promote(r) \/ Deliver(r) \/ BrokerReads(r) \/ LoseConnection(r) \/ Demote(r)
        PROVE  IInv'
    BY <1>1, <2>2, PromotePreserves, DeliverPreserves, BrokerReadsPreserves, LoseConnectionPreserves,
       DemotePreserves
  <2>3. CASE Finished \/ UNCHANGED vars
    <3>1. UNCHANGED <<pc, shutdown, inbox, cur, ackBuf, wire, link, bound, spooled, active, sent,
                      redelivered, removed, demotions, out>>
      BY <2>3 DEF Finished, vars, replicaVars, wireVars, queueVars
    <3>2. TypeOK' /\ LoopHoldsAnInput'
      BY <1>1, <3>1 DEF IInv, TypeOK, LoopHoldsAnInput
    <3>3. OwnFrames' /\ UnbindIsLast' /\ OnlyTheActivePublishes'
      BY <1>1, <3>1 DEF IInv, OwnFrames, UnbindIsLast, OnlyTheActivePublishes, MayOutput, OnTheWire, Alive
    <3>4. OutputsFollowTheLock' /\ LeadersTakeTurns' /\ BoundHaveStarted'
      BY <1>1, <3>1, OutputsStay
    <3> QED
      BY <3>2, <3>3, <3>4 DEF IInv
  <2> QED
    BY <1>1, <2>1, <2>2, <2>3 DEF Next
<1> QED
  BY InitEstablishes, <1>1, PTL DEF Spec

\* Every variable keeps its type.
THEOREM TypeCorrect == Spec => []TypeOK
BY Invariance, PTL DEF IInv

\* As long as the lock is lost only with the binding, the outputs of two replicas never
\* interleave (failover-rig/README.md:59-60).
THEOREM TurnsAreTaken == Spec => []LeadersTakeTurns
BY Invariance, PTL DEF IInv

\* At-least-once: unless publish fails on a live connection, an input leaves the queue only
\* behind an output of it, whatever dies when and wherever the lock goes
\* (failover_publisher.rs:7-10).
THEOREM AtLeastOnce == ~PublishMayFail => (Spec => []AckedInputsWerePublished)
<1> SUFFICES ASSUME ~PublishMayFail PROVE Spec => []AckedInputsWerePublished
  OBVIOUS
<1>1. Init => AckInv
  BY DEF Init, Start, AckInv, AcksFollowOutputs, BufferedAreCovered, LoopAcksWhatItSent,
         AckedInputsWerePublished
<1>2. ASSUME IInv, AckInv, [Next]_vars
      PROVE  AckInv'
  <2>1. ASSUME NEW r \in Replicas, Bind(r) \/ Pop(r) \/ PublishErr(r) \/ Ack(r) \/ Signal(r) \/ Kill(r)
        PROVE  AckInv'
    <3>1. UNCHANGED <<wire, link, removed, out>>
      BY <2>1 DEF Bind, Pop, PublishErr, Ack, Signal, Kill, wireVars, queueVars
    <3>2. ASSUME NEW s \in Replicas, link[s]
          PROVE  /\ \A m \in ackBuf'[s] : m \in ackBuf[s] \/ (pc[s] = "ack" /\ m = cur[s].seq)
                 /\ pc'[s] = "ack" => pc[s] = "ack" /\ cur'[s] = cur[s]
      <4>1. CASE Ack(r)
        BY <1>2, <4>1 DEF Ack, Goto, IInv, TypeOK
      <4>2. CASE Bind(r) \/ Pop(r) \/ Signal(r) \/ Kill(r)
        BY <1>2, <4>2 DEF Bind, Pop, Signal, Kill, Alive, Goto, IInv, TypeOK
      <4>3. CASE PublishErr(r)
        BY <1>2, <3>2, <4>3 DEF PublishErr, Goto, IInv, TypeOK
      <4> QED
        BY <2>1, <4>1, <4>2, <4>3
    <3> QED
      BY <1>2, <3>1, <3>2, QuietStep
  <2>2. ASSUME NEW r \in Replicas, Promote(r) \/ Deliver(r) \/ Demote(r)
        PROVE  AckInv'
    <3>1. UNCHANGED <<wire, link, removed, out, pc, cur, ackBuf>>
      BY <2>2 DEF Promote, Deliver, Demote, replicaVars, wireVars
    <3> QED
      BY <1>2, <3>1, QuietStep
  <2>3. ASSUME NEW r \in Replicas, PublishOk(r) \/ FlushAcks(r) \/ Stop(r) \/ BrokerReads(r) \/ LoseConnection(r)
        PROVE  AckInv'
    BY <1>2, <2>3, PublishOkKeepsAcks, FlushAndStopKeepAcks, BrokerReadsKeepsAcks, LoseConnectionKeepsAcks
  <2>4. CASE Finished \/ UNCHANGED vars
    <3>1. UNCHANGED <<wire, link, removed, out, pc, cur, ackBuf>>
      BY <2>4 DEF Finished, vars, replicaVars, wireVars, queueVars
    <3> QED
      BY <1>2, <3>1, QuietStep
  <2> QED
    BY <1>2, <2>1, <2>2, <2>3, <2>4 DEF Next
<1>3. AckInv => AckedInputsWerePublished
  BY DEF AckInv
<1> QED
  BY <1>1, <1>2, <1>3, Invariance, PTL DEF Spec

-----------------------------------------------------------------------------
(* The line.  Order is proved along the inputs a replica was given: inbox, *)
(* loop, connection, downstream.  Every step but Deliver only moves what   *)
(* is on the line, and keeps its order.                                    *)

\* Where along the line something is: downstream it is 1, in the inbox it is 5.
Downstream == 1
Travelling == 2
Noted == 3
InLoop == 4
Waiting == 5

\* A copy of an input, or an acknowledgement of it.
ItemTypes == [stage : 1 .. 5, replica : Replicas, at : Nat, ack : BOOLEAN,
              seq : Inputs, redelivered : BOOLEAN]

Item(stage, r, at, ack, m, mark) ==
    [stage |-> stage, replica |-> r, at |-> at, ack |-> ack, seq |-> m, redelivered |-> mark]

IsCopyIn(p, rec) == ~p.ack /\ p.seq = rec.seq /\ p.redelivered = rec.redelivered

OnTheLine(p) ==
    \/ /\ p.stage = Downstream
       /\ p.at \in DOMAIN out
       /\ out[p.at].replica = p.replica
       /\ IsCopyIn(p, out[p.at])
    \/ /\ p.stage = Travelling
       /\ p.at \in DOMAIN wire[p.replica]
       /\ LET frame == wire[p.replica][p.at]
          IN  \/ frame.kind = "out" /\ IsCopyIn(p, frame.row)
              \/ frame.kind = "ack" /\ p.ack /\ p.seq \in frame.acks
    \/ /\ p.stage = Noted
       /\ p.ack
       /\ \/ p.at = 1 /\ p.seq \in ackBuf[p.replica]
          \/ p.at = 2 /\ pc[p.replica] = "ack" /\ p.seq = cur[p.replica].seq
    \/ /\ p.stage = InLoop
       /\ p.at = 1
       /\ pc[p.replica] = "publish"
       /\ IsCopyIn(p, cur[p.replica])
    \/ /\ p.stage = Waiting
       /\ p.at \in DOMAIN inbox[p.replica]
       /\ IsCopyIn(p, inbox[p.replica][p.at])

Items == {p \in ItemTypes : OnTheLine(p)}

\* On the line of one replica p is further than q.
Before(p, q) ==
    p.replica = q.replica /\ (p.stage < q.stage \/ (p.stage = q.stage /\ p.at < q.at))

-----------------------------------------------------------------------------
(* The inductive invariant.                                                *)

\* What is on a line was delivered to it.
ItemsWereDelivered == \A p \in Items : p.seq \in sent \cup redelivered \cup removed

\* Wherever they are, of two copies of an input one is marked.
SecondCopiesAreMarked ==
    \A p, q \in Items :
        p # q /\ ~p.ack /\ ~q.ack /\ p.seq = q.seq => p.redelivered \/ q.redelivered

\* A copy comes behind the copies and the acknowledgements of earlier inputs.
LinesAreInOrder == \A p, q \in Items : Before(p, q) /\ ~q.ack => p.seq < q.seq

\* Only the Active replica has anything on its line, and those whose flow is gone.
NewcomersHoldNothing == \A p \in Items : p.replica = active \/ Gone(p.replica)

\* The Active replica has got every input up to those on its line.
ActiveHasAllBefore ==
    \A p \in Items : p.replica = active =>
        /\ p.seq \in sent \cup removed
        /\ \A k \in spooled : k <= p.seq => k \in sent \cup removed

\* What the Active replica has yet to publish is still in the queue.
UnpublishedAreQueued ==
    \A p \in Items : p.replica = active /\ ~p.ack /\ p.stage # Downstream => p.seq \notin removed

\* An output of m by r has come out, or is travelling.
Shown(r, m) ==
    \/ \E i \in DOMAIN out : out[i].replica = r /\ out[i].seq = m
    \/ \E i \in DOMAIN wire[r] : wire[r][i].kind = "out" /\ wire[r][i].row.seq = m

\* r has yet to acknowledge m, or its acknowledgement is travelling.
Owed(r, m) ==
    \/ m \in ackBuf[r]
    \/ pc[r] = "ack" /\ cur[r].seq = m
    \/ \E i \in DOMAIN wire[r] : wire[r][i].kind = "ack" /\ m \in wire[r][i].acks

\* What has been published is acknowledged, or will be.
PublishedAreAcknowledged ==
    \A r \in Replicas : \A m \in Inputs :
        Shown(r, m) => m \in removed \/ (r = active /\ Owed(r, m))

\* Nothing is left to be acknowledged when a replica has stopped.
StoppedHasNothingNoted == \A r \in Replicas : pc[r] = "stopped" => ackBuf[r] = {}

LockInv ==
    /\ LinesAreInOrder
    /\ NewcomersHoldNothing
    /\ ActiveHasAllBefore
    /\ UnpublishedAreQueued

MarkInv == ItemsWereDelivered /\ SecondCopiesAreMarked

OrderInv ==
    /\ MarkInv
    /\ demotions = 0 => LockInv
    /\ StoppedHasNothingNoted
    /\ Graceful => PublishedAreAcknowledged /\ GracefulHandoffIsClean

-----------------------------------------------------------------------------
(* Items.                                                                  *)

\* What ItemTypes says of an item.
LEMMA ItemIsTyped ==
    ASSUME NEW p \in Items
    PROVE  /\ p \in ItemTypes /\ OnTheLine(p)
           /\ p.stage \in 1 .. 5 /\ p.replica \in Replicas /\ p.at \in Nat
           /\ p.ack \in BOOLEAN /\ p.seq \in Inputs /\ p.redelivered \in BOOLEAN
           /\ p.stage \in Nat /\ p.seq \in Nat
BY InputsAssumption DEF Items, ItemTypes, Inputs

\* The same after a step.
LEMMA NextItemIsTyped ==
    ASSUME NEW p \in Items'
    PROVE  /\ p \in ItemTypes /\ OnTheLine(p)'
           /\ p.stage \in 1 .. 5 /\ p.replica \in Replicas /\ p.at \in Nat
           /\ p.ack \in BOOLEAN /\ p.seq \in Inputs /\ p.redelivered \in BOOLEAN
           /\ p.stage \in Nat /\ p.seq \in Nat
BY InputsAssumption DEF Items, ItemTypes, Inputs

\* What is where, after a step.
LEMMA WhereItemsAre ==
    ASSUME NEW p \in Items'
    PROVE  /\ p.stage = 1 => /\ p.at \in DOMAIN out'
                             /\ out'[p.at].replica = p.replica
                             /\ IsCopyIn(p, out'[p.at])
           /\ p.stage = 2 => /\ p.at \in DOMAIN wire'[p.replica]
                             /\ \/ /\ wire'[p.replica][p.at].kind = "out"
                                   /\ IsCopyIn(p, wire'[p.replica][p.at].row)
                                \/ /\ wire'[p.replica][p.at].kind = "ack"
                                   /\ p.ack
                                   /\ p.seq \in wire'[p.replica][p.at].acks
           /\ p.stage = 3 => /\ p.ack
                             /\ \/ p.at = 1 /\ p.seq \in ackBuf'[p.replica]
                                \/ p.at = 2 /\ pc'[p.replica] = "ack" /\ p.seq = cur'[p.replica].seq
           /\ p.stage = 4 => p.at = 1 /\ pc'[p.replica] = "publish" /\ IsCopyIn(p, cur'[p.replica])
           /\ p.stage = 5 => p.at \in DOMAIN inbox'[p.replica] /\ IsCopyIn(p, inbox'[p.replica][p.at])
BY NextItemIsTyped DEF OnTheLine, IsCopyIn, Downstream, Travelling, Noted, InLoop, Waiting

\* What makes something an item.
LEMMA AnItem ==
    ASSUME NEW p \in ItemTypes,
           \/ p.stage = 1 /\ p.at \in DOMAIN out /\ out[p.at].replica = p.replica /\ IsCopyIn(p, out[p.at])
           \/ p.stage = 2 /\ p.at \in DOMAIN wire[p.replica] /\ wire[p.replica][p.at].kind = "out"
              /\ IsCopyIn(p, wire[p.replica][p.at].row)
           \/ p.stage = 2 /\ p.at \in DOMAIN wire[p.replica] /\ wire[p.replica][p.at].kind = "ack"
              /\ p.ack /\ p.seq \in wire[p.replica][p.at].acks
           \/ p.stage = 3 /\ p.ack /\ p.at = 1 /\ p.seq \in ackBuf[p.replica]
           \/ p.stage = 3 /\ p.ack /\ p.at = 2 /\ pc[p.replica] = "ack" /\ p.seq = cur[p.replica].seq
           \/ p.stage = 4 /\ p.at = 1 /\ pc[p.replica] = "publish" /\ IsCopyIn(p, cur[p.replica])
           \/ p.stage = 5 /\ p.at \in DOMAIN inbox[p.replica] /\ IsCopyIn(p, inbox[p.replica][p.at])
    PROVE  p \in Items
BY DEF Items, OnTheLine, Downstream, Travelling, Noted, InLoop, Waiting

\* What the step left alone was there before.
LEMMA AnItemThatStayed ==
    ASSUME NEW p \in Items',
           p.stage = 1 => p.at \in DOMAIN out /\ out'[p.at] = out[p.at],
           p.stage = 2 => p.at \in DOMAIN wire[p.replica] /\ wire'[p.replica][p.at] = wire[p.replica][p.at],
           p.stage = 3 /\ p.seq \in ackBuf'[p.replica] => p.seq \in ackBuf[p.replica],
           p.stage = 3 /\ pc'[p.replica] = "ack" => pc[p.replica] = "ack" /\ cur'[p.replica] = cur[p.replica],
           p.stage = 4 /\ pc'[p.replica] = "publish" =>
              pc[p.replica] = "publish" /\ cur'[p.replica] = cur[p.replica],
           p.stage = 5 => p.at \in DOMAIN inbox[p.replica] /\ inbox'[p.replica][p.at] = inbox[p.replica][p.at]
    PROVE  p \in Items /\ p.stage <= p.stage
<1>1. p \in ItemTypes /\ p.stage \in 1 .. 5 /\ p.stage <= p.stage
  BY NextItemIsTyped
<1>2. CASE p.stage = 1
  BY <1>1, <1>2, WhereItemsAre, AnItem
<1>3. CASE p.stage = 2
  BY <1>1, <1>3, WhereItemsAre, AnItem
<1>4. CASE p.stage = 3
  BY <1>1, <1>4, WhereItemsAre, AnItem
<1>5. CASE p.stage = 4
  BY <1>1, <1>5, WhereItemsAre, AnItem
<1>6. CASE p.stage = 5
  BY <1>1, <1>6, WhereItemsAre, AnItem
<1> QED
  BY <1>1, <1>2, <1>3, <1>4, <1>5, <1>6

\* Of two copies on one line, after a step too, one is further.
LEMMA CopiesAreOrdered ==
    ASSUME NEW p \in Items', NEW q \in Items', p # q, ~p.ack, ~q.ack, p.replica = q.replica
    PROVE  Before(p, q) \/ Before(q, p)
<1>1. p.stage \in Nat /\ q.stage \in Nat /\ p.at \in Nat /\ q.at \in Nat
  BY NextItemIsTyped
<1>2. ASSUME p.stage = q.stage, p.at = q.at
      PROVE  FALSE
  <2>1. p.seq = q.seq /\ p.redelivered = q.redelivered
    <3>1. OnTheLine(p)' /\ OnTheLine(q)' /\ p.stage \in 1 .. 5 /\ q.stage \in 1 .. 5
      BY NextItemIsTyped
    <3> QED
      BY <1>2, <3>1, SMTT(60) DEF OnTheLine, IsCopyIn, Downstream, Travelling, Noted, InLoop, Waiting
  <2>2. p.ack = q.ack
    BY NextItemIsTyped
  <2> QED
    BY <1>2, <2>1, <2>2 DEF Items, ItemTypes
<1>3. \A a, b \in Nat : a < b \/ b < a \/ a = b
  OBVIOUS
<1> QED
  BY <1>1, <1>2, <1>3 DEF Before

\* Nothing is before itself.
LEMMA BeforeIsStrict ==
    ASSUME NEW p \in Items
    PROVE  ~Before(p, p)
<1>1. \A a \in Nat : ~(a < a)
  OBVIOUS
<1> QED
  BY <1>1, ItemIsTyped DEF Before

\* The outputs downstream and those on a connection are copies on the line; so are the
\* acknowledgements on a connection.
LEMMA OutputsAreItems ==
    ASSUME TypeOK, NEW i \in DOMAIN out
    PROVE  Item(Downstream, out[i].replica, i, FALSE, out[i].seq, out[i].redelivered) \in Items
<1>1. i \in Nat /\ out[i] \in Rows
  BY RowsAreTyped
<1> DEFINE p == Item(Downstream, out[i].replica, i, FALSE, out[i].seq, out[i].redelivered)
<1>2. p \in ItemTypes
  BY <1>1 DEF Item, ItemTypes, Rows, Downstream
<1>3. OnTheLine(p)
  BY DEF OnTheLine, Item, IsCopyIn
<1> QED
  BY <1>2, <1>3 DEF Items

\* What a connection carries is on the line.
LEMMA FramesAreItems ==
    ASSUME TypeOK, NEW r \in Replicas, NEW i \in DOMAIN wire[r]
    PROVE  /\ wire[r][i].kind = "out" =>
                Item(Travelling, r, i, FALSE, wire[r][i].row.seq, wire[r][i].row.redelivered) \in Items
           /\ wire[r][i].kind = "ack" =>
                \A m \in wire[r][i].acks : Item(Travelling, r, i, TRUE, m, FALSE) \in Items
<1>1. i \in Nat /\ wire[r][i] \in Frames
  BY WireIsTyped
<1>2. ASSUME wire[r][i].kind = "out"
      PROVE  Item(Travelling, r, i, FALSE, wire[r][i].row.seq, wire[r][i].row.redelivered) \in Items
  <2> DEFINE p == Item(Travelling, r, i, FALSE, wire[r][i].row.seq, wire[r][i].row.redelivered)
  <2>1. wire[r][i].row \in Rows
    BY <1>1, <1>2, KindsOfFrames
  <2>2. p \in ItemTypes
    BY <1>1, <2>1 DEF Item, ItemTypes, Rows, Travelling
  <2>3. OnTheLine(p)
    BY <1>2 DEF OnTheLine, Item, IsCopyIn
  <2> QED
    BY <2>2, <2>3 DEF Items
<1>3. ASSUME wire[r][i].kind = "ack", NEW m \in wire[r][i].acks
      PROVE  Item(Travelling, r, i, TRUE, m, FALSE) \in Items
  <2> DEFINE p == Item(Travelling, r, i, TRUE, m, FALSE)
  <2>1. m \in Inputs
    BY <1>1, <1>3, KindsOfFrames
  <2>2. p \in ItemTypes
    BY <1>1, <2>1 DEF Item, ItemTypes, Travelling
  <2>3. OnTheLine(p)
    BY <1>3 DEF OnTheLine, Item
  <2> QED
    BY <2>2, <2>3 DEF Items
<1> QED
  BY <1>2, <1>3

-----------------------------------------------------------------------------
(* Steps that move what is on the lines.                                   *)

\* Everything on a line after the step comes from somewhere on that line, no further on,
\* and in the same order.
ItemsMove ==
    \E F \in [Items' -> Items] :
        \A p \in Items' :
            /\ F[p].replica = p.replica /\ F[p].seq = p.seq /\ p.stage <= F[p].stage
            /\ ~p.ack => ~F[p].ack /\ F[p].redelivered = p.redelivered
            /\ \A q \in Items' : Before(p, q) /\ ~q.ack => Before(F[p], F[q])

\* Items that vanish move nothing.
LEMMA FewerItemsMove ==
    ASSUME Items' \subseteq Items
    PROVE  ItemsMove
<1> DEFINE F == [p \in Items' |-> p]
<1>1. F \in [Items' -> Items] /\ \A p \in Items' : F[p] = p
  OBVIOUS
<1>2. \A p \in Items' : p.stage <= p.stage
  <2>1. \A a \in Nat : a <= a
    OBVIOUS
  <2> QED
    BY <2>1, NextItemIsTyped
<1> HIDE DEF F
<1> QED
  BY <1>1, <1>2 DEF ItemsMove

\* What only moves stays marked.
LEMMA MovingKeepsMarks ==
    ASSUME ItemsMove, MarkInv,
           sent \cup redelivered \cup removed \subseteq sent' \cup redelivered' \cup removed'
    PROVE  MarkInv'
<1>1. PICK F \in [Items' -> Items] :
        \A p \in Items' :
            /\ F[p].replica = p.replica /\ F[p].seq = p.seq /\ p.stage <= F[p].stage
            /\ ~p.ack => ~F[p].ack /\ F[p].redelivered = p.redelivered
            /\ \A q \in Items' : Before(p, q) /\ ~q.ack => Before(F[p], F[q])
  BY DEF ItemsMove
<1>2. ItemsWereDelivered'
  BY <1>1 DEF MarkInv, ItemsWereDelivered
<1>3. ASSUME NEW p \in Items', NEW q \in Items', p # q, ~p.ack, ~q.ack, p.seq = q.seq
      PROVE  p.redelivered \/ q.redelivered
  <2>1. F[p] # F[q]
    <3>1. CASE p.replica # q.replica
      BY <1>1, <3>1
    <3>2. CASE p.replica = q.replica
      <4>1. Before(p, q) \/ Before(q, p)
        BY <1>3, <3>2, CopiesAreOrdered
      <4>2. Before(F[p], F[q]) \/ Before(F[q], F[p])
        BY <1>1, <1>3, <3>2, <4>1
      <4>3. ~Before(F[p], F[p])
        BY BeforeIsStrict
      <4> QED
        BY <4>2, <4>3
    <3> QED
      BY <3>1, <3>2
  <2>2. F[p].redelivered \/ F[q].redelivered
    BY <1>1, <1>3, <2>1 DEF MarkInv, SecondCopiesAreMarked
  <2> QED
    BY <1>1, <1>3, <2>2
<1> QED
  BY <1>2, <1>3 DEF MarkInv, SecondCopiesAreMarked

\* What only moves stays in order, as long as the lock goes to nobody who has anything on his line.
LEMMA MovingKeepsOrder ==
    ASSUME ItemsMove, LockInv, UNCHANGED spooled,
           \A s \in Replicas : s = active \/ Gone(s) => s = active' \/ Gone(s)',
           \A s \in Replicas : (s = active \/ Gone(s)) /\ s = active' =>
               s = active /\ sent \cup removed \subseteq sent' \cup removed',
           \A p \in Items' :
               p.replica = active' /\ ~p.ack /\ p.stage # Downstream /\ p.seq \in removed' => p.seq \in removed
    PROVE  LockInv'
<1>1. PICK F \in [Items' -> Items] :
        \A p \in Items' :
            /\ F[p].replica = p.replica /\ F[p].seq = p.seq /\ p.stage <= F[p].stage
            /\ ~p.ack => ~F[p].ack /\ F[p].redelivered = p.redelivered
            /\ \A q \in Items' : Before(p, q) /\ ~q.ack => Before(F[p], F[q])
  BY DEF ItemsMove
<1>2. LinesAreInOrder'
  <2>1. ASSUME NEW p \in Items', NEW q \in Items', Before(p, q), ~q.ack
        PROVE  p.seq < q.seq
    BY <1>1, <2>1 DEF LockInv, LinesAreInOrder
  <2>2. \A p, q : Before(p, q)' <=> Before(p, q)
    BY DEF Before
  <2> QED
    BY <2>1, <2>2 DEF LinesAreInOrder
<1>3. \A p \in Items' : p.replica \in Replicas /\ (p.replica = active \/ Gone(p.replica))
  BY <1>1, NextItemIsTyped DEF LockInv, NewcomersHoldNothing
<1>4. NewcomersHoldNothing'
  BY <1>3 DEF NewcomersHoldNothing
<1>5. ActiveHasAllBefore'
  <2> SUFFICES ASSUME NEW p \in Items', p.replica = active'
               PROVE  /\ p.seq \in sent' \cup removed'
                      /\ \A k \in spooled : k <= p.seq => k \in sent' \cup removed'
    BY DEF ActiveHasAllBefore
  <2>1. p.replica = active /\ sent \cup removed \subseteq sent' \cup removed'
    BY <1>3
  <2>2. F[p] \in Items /\ F[p].replica = active /\ F[p].seq = p.seq
    BY <1>1, <2>1
  <2> QED
    BY <2>1, <2>2 DEF LockInv, ActiveHasAllBefore
<1>6. UnpublishedAreQueued'
  <2> SUFFICES ASSUME NEW p \in Items', p.replica = active', ~p.ack, p.stage # Downstream, p.seq \in removed'
               PROVE  FALSE
    BY DEF UnpublishedAreQueued
  <2>1. p.replica = active /\ p.seq \in removed
    BY <1>3
  <2>2. F[p] \in Items /\ F[p].replica = active /\ F[p].seq = p.seq /\ ~F[p].ack
    BY <1>1, <2>1
  <2>3. F[p].stage # Downstream
    <3>1. p.stage \in Nat /\ F[p].stage \in Nat /\ p.stage <= F[p].stage /\ p.stage \in 1 .. 5
      BY <1>1, <2>2, ItemIsTyped, NextItemIsTyped
    <3> QED
      BY <3>1 DEF Downstream
  <2> QED
    BY <2>1, <2>2, <2>3 DEF LockInv, UnpublishedAreQueued
<1> QED
  BY <1>2, <1>4, <1>5, <1>6 DEF LockInv

-----------------------------------------------------------------------------
(* What each step moves.                                                   *)

\* The loop takes the first of the inbox.
LEMMA PopMoves ==
    ASSUME TypeOK, NEW r \in Replicas, Pop(r)
    PROVE  ItemsMove
<1>1. /\ pc[r] = "poll" /\ pc'[r] = "publish" /\ cur'[r] = inbox[r][1] /\ 1 \in DOMAIN inbox[r]
      /\ \A s \in Replicas : s # r => pc'[s] = pc[s] /\ cur'[s] = cur[s] /\ inbox'[s] = inbox[s]
      /\ UNCHANGED <<ackBuf, wire, out>>
      /\ \A i \in DOMAIN inbox'[r] :
            inbox'[r][i] = inbox[r][i + 1] /\ i + 1 \in DOMAIN inbox[r] /\ 1 <= i
      /\ inbox' \in [Replicas -> Seq(Recs)]
  <2>1. inbox[r] \in Seq(Recs) /\ inbox[r] # <<>>
    BY DEF TypeOK, Pop
  <2>2. /\ Tail(inbox[r]) \in Seq(Recs) /\ Len(Tail(inbox[r])) = Len(inbox[r]) - 1
        /\ \A i \in 1 .. Len(Tail(inbox[r])) : Tail(inbox[r])[i] = inbox[r][i + 1]
    BY <2>1, HeadTailProperties
  <2>3. /\ Len(inbox[r]) \in Nat /\ Len(inbox[r]) # 0 /\ DOMAIN inbox[r] = 1 .. Len(inbox[r])
        /\ DOMAIN Tail(inbox[r]) = 1 .. Len(inbox[r]) - 1 /\ Head(inbox[r]) = inbox[r][1]
    BY <2>1, <2>2, EmptySeq, LenProperties
  <2>4. /\ pc[r] = "poll" /\ pc'[r] = "publish" /\ cur'[r] = Head(inbox[r]) /\ inbox'[r] = Tail(inbox[r])
        /\ \A s \in Replicas : s # r => pc'[s] = pc[s] /\ cur'[s] = cur[s] /\ inbox'[s] = inbox[s]
        /\ UNCHANGED <<ackBuf, wire, out>>
        /\ inbox' \in [Replicas -> Seq(Recs)]
    BY <2>2 DEF Pop, Goto, wireVars, queueVars, TypeOK
  <2>5. \A i \in 1 .. Len(inbox[r]) - 1 : i + 1 \in 1 .. Len(inbox[r]) /\ 1 <= i
    BY <2>3
  <2>6. 1 \in 1 .. Len(inbox[r])
    BY <2>3
  <2> QED
    BY <2>2, <2>3, <2>4, <2>5, <2>6
<1> DEFINE moved(p) == p.replica = r /\ p.stage \in {4, 5}
           f(p) == IF moved(p)
                   THEN Item(5, r, IF p.stage = 4 THEN 1 ELSE p.at + 1, FALSE, p.seq, p.redelivered)
                   ELSE p
<1>2. ASSUME NEW p \in Items'
      PROVE  /\ f(p) \in Items /\ f(p).replica = p.replica /\ f(p).seq = p.seq /\ p.stage <= f(p).stage
             /\ ~p.ack => ~f(p).ack /\ f(p).redelivered = p.redelivered
  <2>1. CASE moved(p)
    <3> DEFINE at == IF p.stage = 4 THEN 1 ELSE p.at + 1
    <3>1. at \in DOMAIN inbox[r] /\ at \in Nat /\ IsCopyIn(p, inbox[r][at])
      <4>1. CASE p.stage = 4
        BY <1>1, <2>1, <4>1, WhereItemsAre
      <4>2. CASE p.stage = 5
        <5>1. p.at \in DOMAIN inbox'[r] /\ IsCopyIn(p, inbox'[r][p.at]) /\ p.at \in Nat
          BY <2>1, <4>2, WhereItemsAre, NextItemIsTyped
        <5> QED
          BY <1>1, <4>2, <5>1
      <4> QED
        BY <2>1, <4>1, <4>2
    <3>2. f(p) = Item(5, r, at, FALSE, p.seq, p.redelivered)
      BY <2>1
    <3> HIDE DEF at, f
    <3>3. f(p) \in ItemTypes
      BY <3>1, <3>2, NextItemIsTyped DEF ItemTypes, Item
    <3>4. f(p) \in Items
      BY <3>1, <3>2, <3>3, AnItem DEF Item, IsCopyIn
    <3> QED
      BY <2>1, <3>2, <3>4 DEF Item
  <2>2. CASE ~moved(p)
    <3>1. /\ p.replica \in Replicas /\ (p.stage = 4 \/ p.stage = 5 => p.replica # r)
          /\ p.replica = r => pc'[p.replica] # "ack"
      BY <1>1, <2>2, NextItemIsTyped
    <3>2. p \in Items /\ p.stage <= p.stage
      BY <1>1, <3>1, WhereItemsAre, AnItemThatStayed
    <3> QED
      BY <2>2, <3>2
  <2> QED
    BY <2>1, <2>2
<1>3. ASSUME NEW p \in Items', NEW q \in Items', Before(p, q), ~q.ack
      PROVE  Before(f(p), f(q))
  <2>1. q.replica = r /\ q.stage = 5 => 1 <= q.at
    BY <1>1, WhereItemsAre
  <2>2. /\ q.replica \in Replicas /\ p.at \in Nat /\ q.at \in Nat
        /\ p.stage \in 1 .. 5 /\ q.stage \in 1 .. 5
    BY NextItemIsTyped
  <2>3. p.replica = q.replica /\ (p.stage < q.stage \/ (p.stage = q.stage /\ p.at < q.at))
    BY <1>3 DEF Before
  <2>4. CASE moved(p) /\ moved(q)
    <3>1. p.stage \in {4, 5} /\ q.stage \in {4, 5}
      BY <2>4
    <3>2. (IF p.stage = 4 THEN 1 ELSE p.at + 1) < (IF q.stage = 4 THEN 1 ELSE q.at + 1)
      BY <2>1, <2>2, <2>3, <2>4, <3>1, WhereItemsAre
    <3> QED
      BY <2>4, <3>2 DEF Before, Item
  <2>5. CASE ~moved(p) /\ moved(q)
    <3>1. p.stage < 5 /\ p.replica = r
      BY <2>2, <2>3, <2>5
    <3> QED
      BY <2>5, <3>1 DEF Before, Item
  <2>6. CASE ~moved(q)
    <3>1. ~moved(p)
      BY <2>2, <2>3, <2>6
    <3> QED
      BY <1>3, <2>6, <3>1
  <2> QED
    BY <2>4, <2>5, <2>6
<1> HIDE DEF f
<1> DEFINE F == [p \in Items' |-> f(p)]
<1>4. F \in [Items' -> Items] /\ \A p \in Items' : F[p] = f(p)
  BY <1>2
<1> HIDE DEF F
<1> QED
  BY <1>2, <1>3, <1>4 DEF ItemsMove

\* The output is written behind what is on the connection, and the loop is left with the
\* acknowledgement, whether publish has failed or not.
LEMMA PublishMoves ==
    ASSUME IInv, NEW r \in Replicas, PublishOk(r) \/ PublishErr(r)
    PROVE  ItemsMove
<1>1. /\ pc[r] = "publish" /\ pc'[r] = "ack"
      /\ \A s \in Replicas : s # r => pc'[s] = pc[s]
      /\ UNCHANGED <<inbox, cur, ackBuf, out>>
      /\ TypeOK /\ cur[r] \in Recs
      /\ cur[r].seq \in Inputs /\ cur[r].redelivered \in BOOLEAN
  <2>1. TypeOK /\ pc[r] = "publish" /\ cur[r] \in Recs
    BY DEF IInv, LoopHoldsAnInput, PublishOk, PublishErr
  <2> QED
    BY <2>1 DEF PublishOk, PublishErr, Goto, TypeOK, Recs
<1>2. \A s \in Replicas : \A i \in DOMAIN wire'[s] :
         \/ i \in DOMAIN wire[s] /\ wire'[s][i] = wire[s][i]
         \/ /\ s = r /\ i \notin DOMAIN wire[s] /\ wire'[s][i] = OutFrame(r, cur[r])
            /\ \A j \in DOMAIN wire'[s] : j <= i
  <2>1. CASE PublishOk(r)
    <3>1. <<OutFrame(r, cur[r])>> \in Seq(Frames) /\ Send(r, <<OutFrame(r, cur[r])>>)
      BY <1>1, <2>1, FramesAreTyped DEF PublishOk
    <3>2. PICK frames \in Seq(Frames) : frames = <<OutFrame(r, cur[r])>> /\ Send(r, frames)
      BY <3>1
    <3>3. Len(frames) = 1 /\ frames[1] = OutFrame(r, cur[r])
      BY <3>2
    <3>4. \A s \in Replicas : s # r \/ ~link[r] => wire'[s] = wire[s]
      BY <1>1, <3>2, Sending
    <3>5. ASSUME link[r]
          PROVE  /\ Len(wire'[r]) = Len(wire[r]) + 1 /\ DOMAIN wire'[r] = 1 .. Len(wire'[r])
                 /\ \A i \in 1 .. Len(wire[r]) : wire'[r][i] = wire[r][i]
                 /\ wire'[r][Len(wire[r]) + 1] = OutFrame(r, cur[r])
      <4>1. /\ Len(wire'[r]) = Len(wire[r]) + Len(frames) /\ DOMAIN wire'[r] = 1 .. Len(wire'[r])
            /\ \A i \in 1 .. Len(wire[r]) : wire'[r][i] = wire[r][i]
            /\ \A i \in 1 .. Len(frames) : wire'[r][Len(wire[r]) + i] = frames[i]
        BY <1>1, <3>2, <3>5, Sending
      <4> QED
        BY <3>3, <4>1
    <3>6. Len(wire[r]) \in Nat /\ DOMAIN wire[r] = 1 .. Len(wire[r])
      BY <1>1, WireIsTyped
    <3> QED
      BY <3>4, <3>5, <3>6
  <2>2. CASE PublishErr(r)
    BY <2>2 DEF PublishErr, wireVars
  <2> QED
    BY <2>1, <2>2
<1> DEFINE moved(p) == /\ p.replica = r
                       /\ \/ p.stage = 2 /\ p.at \notin DOMAIN wire[r]
                          \/ p.stage = 3 /\ p.at = 2
           f(p) == IF moved(p) THEN Item(4, r, 1, FALSE, p.seq, cur[r].redelivered) ELSE p
<1>3. ASSUME NEW p \in Items'
      PROVE  /\ f(p) \in Items /\ f(p).replica = p.replica /\ f(p).seq = p.seq /\ p.stage <= f(p).stage
             /\ ~p.ack => ~f(p).ack /\ f(p).redelivered = p.redelivered
  <2>1. CASE moved(p)
    <3>1. p.seq = cur[r].seq /\ (~p.ack => p.redelivered = cur[r].redelivered)
      <4>1. CASE p.stage = 2
        <5>1. wire'[r][p.at] = OutFrame(r, cur[r])
          BY <1>2, <2>1, <4>1, WhereItemsAre
        <5>2. wire'[r][p.at].kind = "out" /\ wire'[r][p.at].row.seq = cur[r].seq
              /\ wire'[r][p.at].row.redelivered = cur[r].redelivered
          BY <5>1 DEF OutFrame
        <5> QED
          BY <2>1, <4>1, <5>2, WhereItemsAre DEF IsCopyIn
      <4>2. CASE p.stage = 3
        <5>1. p.ack /\ p.at = 2
          BY <2>1, <4>2, WhereItemsAre
        <5> QED
          BY <1>1, <2>1, <4>2, <5>1, WhereItemsAre
      <4> QED
        BY <2>1, <4>1, <4>2
    <3>2. f(p) = Item(4, r, 1, FALSE, p.seq, cur[r].redelivered)
      BY <2>1
    <3> HIDE DEF f
    <3>3. f(p) \in ItemTypes
      BY <1>1, <3>1, <3>2, NextItemIsTyped DEF ItemTypes, Item
    <3>4. f(p) \in Items
      BY <1>1, <3>1, <3>2, <3>3, AnItem DEF Item, IsCopyIn
    <3>5. p.stage <= 4
      BY <2>1
    <3> QED
      BY <2>1, <3>1, <3>2, <3>4, <3>5 DEF Item
  <2>2. CASE ~moved(p)
    <3>1. p.replica \in Replicas
      BY NextItemIsTyped
    <3>2. ASSUME p.stage = 2
          PROVE  p.at \in DOMAIN wire[p.replica] /\ wire'[p.replica][p.at] = wire[p.replica][p.at]
      <4>1. p.at \in DOMAIN wire'[p.replica]
        BY <3>2, WhereItemsAre
      <4>2. p.replica # r \/ p.at \in DOMAIN wire[p.replica]
        BY <2>2, <3>2
      <4> QED
        BY <1>2, <3>1, <4>1, <4>2
    <3>3. p.stage = 3 => p.seq \in ackBuf[p.replica] \/ p.replica # r
      BY <1>1, <2>2, WhereItemsAre
    <3>4. p \in Items /\ p.stage <= p.stage
      <4>1. CASE p.stage = 3 /\ p.replica = r
        <5>1. p.at = 1 /\ p.ack /\ p \in ItemTypes
          BY <2>2, <4>1, WhereItemsAre, NextItemIsTyped
        <5>2. p \in Items
          BY <3>3, <4>1, <5>1, AnItem
        <5> QED
          BY <4>1, <5>2
      <4>2. CASE p.stage # 3 \/ p.replica # r
        BY <1>1, <3>1, <3>2, <4>2, WhereItemsAre, AnItemThatStayed
      <4> QED
        BY <4>1, <4>2
    <3> QED
      BY <2>2, <3>4
  <2> QED
    BY <2>1, <2>2
<1>4. ASSUME NEW p \in Items', NEW q \in Items', Before(p, q), ~q.ack
      PROVE  Before(f(p), f(q))
  <2>1. /\ q.replica \in Replicas /\ p.at \in Nat /\ q.at \in Nat
        /\ p.stage \in 1 .. 5 /\ q.stage \in 1 .. 5
    BY NextItemIsTyped
  <2>2. p.replica = q.replica /\ (p.stage < q.stage \/ (p.stage = q.stage /\ p.at < q.at))
    BY <1>4 DEF Before
  <2>3. q.stage # 3 /\ (q.replica = r => q.stage # 4)
    BY <1>1, <1>4, WhereItemsAre
  <2>4. CASE moved(p)
    <3>1. ASSUME q.stage = 2, p.stage = 2
          PROVE  FALSE
      <4>1. p.at \in DOMAIN wire'[r] /\ q.at \in DOMAIN wire'[r] /\ p.at \notin DOMAIN wire[r]
        <5>1. p.at \in DOMAIN wire'[p.replica] /\ q.at \in DOMAIN wire'[q.replica]
          BY <3>1, WhereItemsAre
        <5>2. p.replica = r /\ q.replica = r /\ p.at \notin DOMAIN wire[r]
          BY <2>2, <2>4, <3>1
        <5> QED
          BY <5>1, <5>2
      <4>2. q.at <= p.at
        BY <1>2, <4>1
      <4>3. p.at < q.at
        BY <2>2, <3>1
      <4> QED
        BY <2>1, <4>2, <4>3
    <3>2. q.stage = 5 /\ ~moved(q)
      <4>1. p.stage \in {2, 3} /\ q.replica = r
        BY <2>2, <2>4
      <4>2. q.stage \in 2 .. 5
        BY <2>1, <2>2, <4>1
      <4>3. q.stage # 2
        BY <2>1, <2>2, <3>1, <4>1
      <4> QED
        BY <2>3, <4>1, <4>2, <4>3
    <3>3. f(p) = Item(4, r, 1, FALSE, p.seq, cur[r].redelivered) /\ f(q) = q
      BY <2>4, <3>2
    <3>4. p.replica = r /\ q.replica = r
      BY <2>2, <2>4
    <3> HIDE DEF f, moved
    <3> QED
      BY <3>2, <3>3, <3>4 DEF Before, Item
  <2>5. CASE ~moved(p) /\ moved(q)
    <3>1. p.stage < 4 /\ p.replica = r
      BY <2>1, <2>2, <2>3, <2>5
    <3> QED
      BY <2>5, <3>1 DEF Before, Item
  <2>6. CASE ~moved(p) /\ ~moved(q)
    BY <1>4, <2>6
  <2> QED
    BY <2>4, <2>5, <2>6
<1> HIDE DEF f
<1> DEFINE F == [p \in Items' |-> f(p)]
<1>5. F \in [Items' -> Items] /\ \A p \in Items' : F[p] = f(p)
  BY <1>3
<1> HIDE DEF F
<1> QED
  BY <1>3, <1>4, <1>5 DEF ItemsMove

\* The acknowledgement the loop was left with is noted.
LEMMA AckMoves ==
    ASSUME TypeOK, NEW r \in Replicas, Ack(r)
    PROVE  ItemsMove
<1>1. /\ pc[r] = "ack" /\ pc'[r] = "poll" /\ ackBuf'[r] = ackBuf[r] \cup {cur[r].seq}
      /\ \A s \in Replicas : s # r => pc'[s] = pc[s] /\ cur'[s] = cur[s] /\ ackBuf'[s] = ackBuf[s]
      /\ UNCHANGED <<inbox, wire, out>>
  BY DEF Ack, Goto, wireVars, queueVars, TypeOK
<1> DEFINE moved(p) == p.replica = r /\ p.stage = 3 /\ p.seq \notin ackBuf[r]
           f(p) == IF moved(p) THEN Item(3, r, 2, TRUE, p.seq, FALSE) ELSE p
<1>2. ASSUME NEW p \in Items'
      PROVE  /\ f(p) \in Items /\ f(p).replica = p.replica /\ f(p).seq = p.seq /\ p.stage <= f(p).stage
             /\ ~p.ack => ~f(p).ack /\ f(p).redelivered = p.redelivered
  <2>1. CASE moved(p)
    <3>1. p.seq = cur[r].seq /\ p.ack
      BY <1>1, <2>1, WhereItemsAre
    <3>2. f(p) = Item(3, r, 2, TRUE, p.seq, FALSE)
      BY <2>1
    <3> HIDE DEF f
    <3>3. f(p) \in ItemTypes
      BY <3>2, NextItemIsTyped DEF ItemTypes, Item
    <3>4. f(p) \in Items
      BY <1>1, <3>1, <3>2, <3>3, AnItem DEF Item
    <3>5. p.stage <= 3
      BY <2>1
    <3> QED
      BY <2>1, <3>1, <3>2, <3>4, <3>5 DEF Item
  <2>2. CASE ~moved(p)
    <3>1. /\ p.replica \in Replicas
          /\ p.stage = 3 => p.seq \in ackBuf[p.replica] \/ p.replica # r
          /\ p.replica = r => pc'[r] # "publish" /\ pc'[r] # "ack"
      BY <1>1, <2>2, NextItemIsTyped
    <3>2. p \in Items /\ p.stage <= p.stage
      BY <1>1, <3>1, WhereItemsAre, AnItemThatStayed
    <3> QED
      BY <2>2, <3>2
  <2> QED
    BY <2>1, <2>2
<1>3. ASSUME NEW p \in Items', NEW q \in Items', Before(p, q), ~q.ack
      PROVE  Before(f(p), f(q))
  <2>1. q.stage # 3 /\ p.stage \in 1 .. 5 /\ q.stage \in 1 .. 5
    BY <1>3, WhereItemsAre, NextItemIsTyped
  <2>2. p.replica = q.replica /\ (p.stage < q.stage \/ (p.stage = q.stage /\ p.at < q.at))
    BY <1>3 DEF Before
  <2>3. CASE moved(p)
    BY <2>1, <2>2, <2>3 DEF Before, Item
  <2>4. CASE ~moved(p)
    BY <1>3, <2>1, <2>4
  <2> QED
    BY <2>3, <2>4
<1> HIDE DEF f
<1> DEFINE F == [p \in Items' |-> f(p)]
<1>4. F \in [Items' -> Items] /\ \A p \in Items' : F[p] = f(p)
  BY <1>2
<1> HIDE DEF F
<1> QED
  BY <1>2, <1>3, <1>4 DEF ItemsMove

\* What is written behind the frames that are there when acknowledgements leave.
LEMMA AcksLeave ==
    ASSUME TypeOK, NEW r \in Replicas, FlushAcks(r) \/ Stop(r)
    PROVE  \A s \in Replicas : \A i \in DOMAIN wire'[s] :
              \/ i \in DOMAIN wire[s] /\ wire'[s][i] = wire[s][i]
              \/ /\ s = r /\ i \notin DOMAIN wire[s]
                 /\ wire'[s][i].kind \in {"ack", "unbind"}
                 /\ wire'[s][i].kind = "ack" => wire'[s][i].acks = ackBuf[r]
<1>1. \A j \in 1 .. Len(PendingAcks(r)) : PendingAcks(r)[j].kind = "ack" /\ PendingAcks(r)[j].acks = ackBuf[r]
  BY DEF PendingAcks, AckFrame
<1>2. PICK frames \in Seq(Frames) :
         /\ Send(r, frames)
         /\ \A j \in 1 .. Len(frames) :
               /\ frames[j].kind \in {"ack", "unbind"}
               /\ frames[j].kind = "ack" => frames[j].acks = ackBuf[r]
  <2>1. CASE FlushAcks(r)
    BY <1>1, <2>1, FramesAreTyped DEF FlushAcks
  <2>2. CASE Stop(r)
    <3> DEFINE all == PendingAcks(r) \o <<UnbindFrame>>
    <3>1. PendingAcks(r) \in Seq(Frames) /\ <<UnbindFrame>> \in Seq(Frames) /\ Len(PendingAcks(r)) \in Nat
      BY FramesAreTyped, LenProperties DEF Frames
    <3>2. /\ Len(all) = Len(PendingAcks(r)) + 1
          /\ \A j \in 1 .. Len(all) :
                all[j] = IF j <= Len(PendingAcks(r)) THEN PendingAcks(r)[j] ELSE UnbindFrame
      <4>1. Len(<<UnbindFrame>>) = 1 /\ <<UnbindFrame>>[1] = UnbindFrame
        OBVIOUS
      <4> QED
        BY <3>1, <4>1, ConcatProperties
    <3>3. \A j \in 1 .. Len(all) :
             /\ all[j].kind \in {"ack", "unbind"}
             /\ all[j].kind = "ack" => all[j].acks = ackBuf[r]
      BY <1>1, <3>1, <3>2 DEF UnbindFrame
    <3>4. all \in Seq(Frames) /\ Send(r, all)
      BY <2>2, FramesAreTyped DEF Stop
    <3> HIDE DEF all
    <3> QED
      BY <3>3, <3>4
  <2> QED
    BY <2>1, <2>2
<1> SUFFICES ASSUME NEW s \in Replicas, NEW i \in DOMAIN wire'[s]
             PROVE  \/ i \in DOMAIN wire[s] /\ wire'[s][i] = wire[s][i]
                    \/ /\ s = r /\ i \notin DOMAIN wire[s]
                       /\ wire'[s][i].kind \in {"ack", "unbind"}
                       /\ wire'[s][i].kind = "ack" => wire'[s][i].acks = ackBuf[r]
  OBVIOUS
<1>3. CASE s # r \/ ~link[r]
  BY <1>2, <1>3, Sending
<1>4. CASE s = r /\ link[r] /\ i \in 1 .. Len(wire[r])
  BY <1>2, <1>4, Sending, WireIsTyped
<1>5. CASE s = r /\ link[r] /\ i \notin 1 .. Len(wire[r])
  <2>1. PICK j \in 1 .. Len(frames) : i = Len(wire[r]) + j
    BY <1>2, <1>5, Sending
  <2>2. wire'[r][i] = frames[j]
    BY <1>2, <1>5, <2>1, Sending
  <2> QED
    BY <1>2, <1>5, <2>2, WireIsTyped
<1> QED
  BY <1>3, <1>4, <1>5

\* The acknowledgements that were noted leave behind everything that was sent.
LEMMA FlushAndStopMove ==
    ASSUME TypeOK, NEW r \in Replicas, FlushAcks(r) \/ Stop(r)
    PROVE  ItemsMove
<1>1. /\ \A s \in Replicas : pc'[s] = pc[s] \/ pc'[s] = "stopped"
      /\ \A s \in Replicas : ackBuf'[s] \subseteq ackBuf[s]
      /\ \A s \in Replicas : inbox'[s] = inbox[s] \/ inbox'[s] = <<>>
      /\ ackBuf[r] \subseteq Inputs
      /\ UNCHANGED <<cur, out>>
  BY DEF FlushAcks, Stop, Goto, TypeOK
<1>2. \A s \in Replicas : \A i \in DOMAIN wire'[s] :
         \/ i \in DOMAIN wire[s] /\ wire'[s][i] = wire[s][i]
         \/ /\ s = r /\ i \notin DOMAIN wire[s]
            /\ wire'[s][i].kind \in {"ack", "unbind"}
            /\ wire'[s][i].kind = "ack" => wire'[s][i].acks = ackBuf[r]
  BY AcksLeave
<1>3. /\ \A s \in Replicas : DOMAIN wire[s] = 1 .. Len(wire[s]) /\ Len(wire[s]) \in Nat
  BY WireIsTyped
<1> DEFINE moved(p) == p.replica = r /\ p.stage = 2 /\ p.at \notin DOMAIN wire[r]
           f(p) == IF moved(p) THEN Item(3, r, 1, TRUE, p.seq, FALSE) ELSE p
<1>4. ASSUME NEW p \in Items'
      PROVE  /\ f(p) \in Items /\ f(p).replica = p.replica /\ f(p).seq = p.seq /\ p.stage <= f(p).stage
             /\ ~p.ack => ~f(p).ack /\ f(p).redelivered = p.redelivered
             /\ moved(p) => p.ack
  <2>1. CASE moved(p)
    <3>1. p.seq \in ackBuf[r] /\ p.ack
      <4>1. p.at \in DOMAIN wire'[r] /\ wire'[r][p.at].kind # "out"
        BY <1>2, <2>1, WhereItemsAre
      <4> QED
        BY <1>2, <2>1, <4>1, WhereItemsAre
    <3>2. f(p) = Item(3, r, 1, TRUE, p.seq, FALSE)
      BY <2>1
    <3> HIDE DEF f
    <3>3. f(p) \in ItemTypes
      BY <3>2, NextItemIsTyped DEF ItemTypes, Item
    <3>4. f(p) \in Items
      BY <3>1, <3>2, <3>3, AnItem DEF Item
    <3>5. p.stage <= 3
      BY <2>1
    <3> QED
      BY <2>1, <3>1, <3>2, <3>4, <3>5 DEF Item
  <2>2. CASE ~moved(p)
    <3>1. p.replica \in Replicas
      BY NextItemIsTyped
    <3>2. ASSUME p.stage = 2
          PROVE  p.at \in DOMAIN wire[p.replica] /\ wire'[p.replica][p.at] = wire[p.replica][p.at]
      <4>1. p.at \in DOMAIN wire'[p.replica]
        BY <3>2, WhereItemsAre
      <4>2. p.replica # r \/ p.at \in DOMAIN wire[p.replica]
        BY <2>2, <3>2
      <4> QED
        BY <1>2, <3>1, <4>1, <4>2
    <3>3. p.stage = 5 => p.at \in DOMAIN inbox[p.replica] /\ inbox'[p.replica][p.at] = inbox[p.replica][p.at]
      BY <1>1, <3>1, WhereItemsAre
    <3>4. p \in Items /\ p.stage <= p.stage
      BY <1>1, <3>1, <3>2, <3>3, WhereItemsAre, AnItemThatStayed
    <3> QED
      BY <2>2, <3>4
  <2> QED
    BY <2>1, <2>2
<1>5. ASSUME NEW p \in Items', NEW q \in Items', Before(p, q), ~q.ack
      PROVE  Before(f(p), f(q))
  <2>1. /\ p.stage \in 1 .. 5 /\ q.stage \in 1 .. 5 /\ q.stage # 3 /\ ~moved(q)
        /\ p.at \in Nat /\ q.at \in Nat
    BY <1>4, <1>5, WhereItemsAre, NextItemIsTyped
  <2>2. p.replica = q.replica /\ (p.stage < q.stage \/ (p.stage = q.stage /\ p.at < q.at))
    BY <1>5 DEF Before
  <2>3. CASE moved(p)
    <3>1. ASSUME q.stage = 2
          PROVE  FALSE
      <4>1. q.at \in DOMAIN wire[r] /\ p.at \notin DOMAIN wire[r] /\ p.at < q.at
        BY <2>1, <2>2, <2>3, <3>1
      <4>2. p.at \in DOMAIN wire'[r]
        <5>1. p.at \in DOMAIN wire'[p.replica]
          BY <2>3, WhereItemsAre
        <5> QED
          BY <2>3, <5>1
      <4>3. 1 <= p.at
        <5>1. wire'[r] \in Seq(Frames)
          <6>1. wire' \in [Replicas -> Seq(Frames)]
            BY Sending, FramesAreTyped DEF FlushAcks, Stop
          <6> QED
            BY <6>1
        <5> QED
          BY <4>2, <5>1, LenProperties
      <4> QED
        BY <1>3, <2>1, <4>1, <4>3
    <3>2. q.stage \in {4, 5}
      BY <2>1, <2>2, <2>3, <3>1
    <3>3. f(p) = Item(3, r, 1, TRUE, p.seq, FALSE) /\ f(q) = q /\ p.replica = r
      BY <2>1, <2>3
    <3> HIDE DEF f, moved
    <3> QED
      BY <2>2, <3>2, <3>3 DEF Before, Item
  <2>4. CASE ~moved(p)
    BY <1>5, <2>1, <2>4
  <2> QED
    BY <2>3, <2>4
<1> HIDE DEF f
<1> DEFINE F == [p \in Items' |-> f(p)]
<1>6. F \in [Items' -> Items] /\ \A p \in Items' : F[p] = f(p)
  BY <1>4
<1> HIDE DEF F
<1> QED
  BY <1>4, <1>5, <1>6 DEF ItemsMove

\* The broker takes the first frame: an output goes downstream.
LEMMA BrokerReadsMoves ==
    ASSUME IInv, NEW r \in Replicas, BrokerReads(r)
    PROVE  ItemsMove
<1>1. /\ TypeOK /\ UNCHANGED <<pc, cur, inbox, ackBuf>>
      /\ wire[r] # <<>> /\ wire' = [wire EXCEPT ![r] = Tail(@)]
  BY DEF IInv, BrokerReads, replicaVars
<1>2. /\ \A s \in Replicas : s # r => wire'[s] = wire[s]
      /\ \A i \in DOMAIN wire'[r] : wire'[r][i] = wire[r][i + 1] /\ i + 1 \in DOMAIN wire[r] /\ 1 <= i
      /\ 1 \in DOMAIN wire[r] /\ Head(wire[r]) = wire[r][1] /\ Head(wire[r]) \in Frames
      /\ wire[r][1].kind = "out" => wire[r][1].row \in Rows /\ wire[r][1].row.replica = r
  <2>1. /\ \A s \in Replicas : s # r => wire'[s] = wire[s]
        /\ Head(wire[r]) = wire[r][1] /\ 1 \in DOMAIN wire[r] /\ Head(wire[r]) \in Frames
        /\ DOMAIN wire'[r] = 1 .. Len(wire[r]) - 1
        /\ \A i \in 1 .. Len(wire[r]) - 1 : wire'[r][i] = wire[r][i + 1] /\ i + 1 \in DOMAIN wire[r]
    BY <1>1, Reading
  <2>2. wire[r][1].kind = "out" => wire[r][1].row \in Rows /\ wire[r][1].row.replica = r
    BY <2>1, KindsOfFrames DEF IInv, OwnFrames
  <2>3. Len(wire[r]) \in Nat
    BY <1>1, WireIsTyped
  <2>4. \A i \in 1 .. Len(wire[r]) - 1 : 1 <= i
    BY <2>3
  <2> QED
    BY <2>1, <2>2, <2>4
<1>3. \A i \in DOMAIN out' :
         \/ i \in DOMAIN out /\ out'[i] = out[i]
         \/ /\ i \notin DOMAIN out /\ wire[r][1].kind = "out" /\ out'[i] = wire[r][1].row
            /\ \A j \in DOMAIN out' : j <= i
  <2>1. CASE wire[r][1].kind = "out"
    <3>1. out' = Append(out, wire[r][1].row) /\ wire[r][1].row \in Rows /\ out \in Seq(Rows)
      BY <1>1, <1>2, <2>1, RowsAreTyped DEF BrokerReads
    <3>2. /\ Len(out) \in Nat /\ DOMAIN out = 1 .. Len(out) /\ DOMAIN out' = 1 .. Len(out) + 1
          /\ out'[Len(out) + 1] = wire[r][1].row /\ \A i \in DOMAIN out : out'[i] = out[i]
      BY <3>1
    <3> QED
      BY <2>1, <3>2
  <2>2. CASE wire[r][1].kind # "out"
    <3>1. wire[r][1].kind \in {"ack", "unbind"}
      BY <1>2, <2>2, KindsOfFrames
    <3>2. out' = out
      BY <1>2, <3>1 DEF BrokerReads
    <3> QED
      BY <3>2
  <2> QED
    BY <2>1, <2>2
<1>4. \A i \in DOMAIN out : i \in Nat
  BY <1>1, RowsAreTyped
<1> DEFINE first(p) == p.stage = 1 /\ p.at \notin DOMAIN out
           later(p) == p.replica = r /\ p.stage = 2
           f(p) == IF first(p) THEN Item(2, r, 1, FALSE, p.seq, p.redelivered)
                   ELSE IF later(p) THEN Item(2, r, p.at + 1, p.ack, p.seq, p.redelivered) ELSE p
<1>5. ASSUME NEW p \in Items', first(p)
      PROVE  p.replica = r /\ ~p.ack
  BY <1>2, <1>3, <1>5, WhereItemsAre DEF IsCopyIn
<1>6. ASSUME NEW p \in Items'
      PROVE  /\ f(p) \in Items /\ f(p).replica = p.replica /\ f(p).seq = p.seq /\ p.stage <= f(p).stage
             /\ ~p.ack => ~f(p).ack /\ f(p).redelivered = p.redelivered
  <2>1. CASE first(p)
    <3>1. wire[r][1].kind = "out" /\ IsCopyIn(p, wire[r][1].row)
      BY <1>3, <2>1, WhereItemsAre
    <3>2. f(p) = Item(2, r, 1, FALSE, p.seq, p.redelivered)
      BY <2>1
    <3> HIDE DEF f
    <3>3. f(p) \in ItemTypes
      BY <3>2, NextItemIsTyped DEF ItemTypes, Item
    <3>4. f(p) \in Items
      BY <1>2, <3>1, <3>2, <3>3, AnItem DEF Item, IsCopyIn
    <3> QED
      BY <1>5, <2>1, <3>2, <3>4 DEF Item
  <2>2. CASE ~first(p) /\ later(p)
    <3>1. p.at \in DOMAIN wire'[r] /\ p.at \in Nat
      <4>1. p.at \in DOMAIN wire'[p.replica]
        BY <2>2, WhereItemsAre
      <4> QED
        BY <2>2, <4>1, NextItemIsTyped
    <3>2. wire'[r][p.at] = wire[r][p.at + 1] /\ p.at + 1 \in DOMAIN wire[r] /\ p.at + 1 \in Nat
      BY <1>2, <3>1
    <3>3. \/ wire[r][p.at + 1].kind = "out" /\ IsCopyIn(p, wire[r][p.at + 1].row)
          \/ wire[r][p.at + 1].kind = "ack" /\ p.ack /\ p.seq \in wire[r][p.at + 1].acks
      BY <2>2, <3>2, WhereItemsAre
    <3>4. f(p) = Item(2, r, p.at + 1, p.ack, p.seq, p.redelivered)
      BY <2>2
    <3> HIDE DEF f
    <3>5. f(p) \in ItemTypes
      BY <3>2, <3>4, NextItemIsTyped DEF ItemTypes, Item
    <3>6. f(p) \in Items
      BY <3>2, <3>3, <3>4, <3>5, AnItem DEF Item, IsCopyIn
    <3>7. p.stage <= 2
      BY <2>2
    <3> QED
      BY <2>2, <3>4, <3>6, <3>7 DEF Item
  <2>3. CASE ~first(p) /\ ~later(p)
    <3>1. p.replica \in Replicas /\ (p.stage = 2 => p.replica # r)
      BY <2>3, NextItemIsTyped
    <3>2. p.stage = 1 => p.at \in DOMAIN out /\ out'[p.at] = out[p.at]
      BY <1>3, <2>3, WhereItemsAre
    <3>3. p \in Items /\ p.stage <= p.stage
      BY <1>1, <1>2, <3>1, <3>2, WhereItemsAre, AnItemThatStayed
    <3> QED
      BY <2>3, <3>3
  <2> QED
    BY <2>1, <2>2, <2>3
<1>7. ASSUME NEW p \in Items', NEW q \in Items', Before(p, q), ~q.ack
      PROVE  Before(f(p), f(q))
  <2>1. /\ p.stage \in 1 .. 5 /\ q.stage \in 1 .. 5
        /\ p.at \in Nat /\ q.at \in Nat
    BY NextItemIsTyped
  <2>2. p.replica = q.replica /\ (p.stage < q.stage \/ (p.stage = q.stage /\ p.at < q.at))
    BY <1>7 DEF Before
  <2>3. later(q) => 1 <= q.at
    BY <1>2, WhereItemsAre
  <2>4. ~(first(p) /\ q.stage = 1)
    <3> SUFFICES ASSUME first(p), q.stage = 1 PROVE FALSE
      OBVIOUS
    <3>1. p.at \in DOMAIN out' /\ q.at \in DOMAIN out' /\ p.at \notin DOMAIN out
      BY WhereItemsAre
    <3>2. q.at <= p.at /\ p.at < q.at
      BY <1>3, <2>2, <3>1
    <3> QED
      BY <2>1, <3>2
  <2>5. CASE first(p)
    <3>1. p.replica = r /\ q.replica = r /\ f(p) = Item(2, r, 1, FALSE, p.seq, p.redelivered)
      BY <1>5, <2>2, <2>5
    <3>2. CASE q.stage = 2
      <4>1. f(q) = Item(2, r, q.at + 1, q.ack, q.seq, q.redelivered) /\ 1 <= q.at
        BY <2>3, <3>1, <3>2
      <4> HIDE DEF f
      <4> QED
        BY <2>1, <3>1, <4>1 DEF Before, Item
    <3>3. CASE q.stage # 2
      <4>1. q.stage \in 3 .. 5 /\ f(q) = q
        <5>1. q.stage # 1 /\ q.stage # 2
          BY <2>4, <2>5, <3>3
        <5>2. q.stage \in 3 .. 5
          BY <2>1, <5>1
        <5> QED
          BY <5>1, <5>2
      <4> HIDE DEF f
      <4> QED
        BY <2>1, <3>1, <4>1 DEF Before, Item
    <3> QED
      BY <3>2, <3>3
  <2>6. CASE ~first(p) /\ later(p)
    <3>1. f(p) = Item(2, r, p.at + 1, p.ack, p.seq, p.redelivered) /\ p.stage = 2 /\ q.replica = r
      BY <2>2, <2>6
    <3>2. CASE q.stage = 2
      <4>1. f(q) = Item(2, r, q.at + 1, q.ack, q.seq, q.redelivered) /\ p.at < q.at
        BY <2>2, <3>1, <3>2
      <4> HIDE DEF f
      <4> QED
        BY <2>1, <3>1, <4>1 DEF Before, Item
    <3>3. CASE q.stage # 2
      <4>1. q.stage \in 3 .. 5 /\ f(q) = q
        <5>1. q.stage # 1 /\ q.stage # 2
          BY <2>1, <2>2, <3>1, <3>3
        <5>2. q.stage \in 3 .. 5
          BY <2>1, <5>1
        <5> QED
          BY <5>1, <5>2
      <4> HIDE DEF f
      <4> QED
        BY <2>1, <3>1, <4>1 DEF Before, Item
    <3> QED
      BY <3>2, <3>3
  <2>7. CASE ~first(p) /\ ~later(p)
    <3>1. f(p) = p
      BY <2>7
    <3>2. CASE first(q)
      <4>1. f(q) = Item(2, r, 1, FALSE, q.seq, q.redelivered) /\ q.replica = r /\ p.stage = 1
        BY <1>5, <2>1, <2>2, <3>2
      <4> HIDE DEF f
      <4> QED
        BY <2>2, <3>1, <4>1 DEF Before, Item
    <3>3. CASE ~first(q) /\ later(q)
      <4>1. f(q) = Item(2, r, q.at + 1, q.ack, q.seq, q.redelivered) /\ q.replica = r /\ p.stage = 1
        BY <2>1, <2>2, <2>7, <3>3
      <4> HIDE DEF f
      <4> QED
        BY <2>2, <3>1, <4>1 DEF Before, Item
    <3>4. CASE ~first(q) /\ ~later(q)
      BY <1>7, <3>1, <3>4
    <3> QED
      BY <3>2, <3>3, <3>4
  <2> QED
    BY <2>5, <2>6, <2>7
<1> HIDE DEF f
<1> DEFINE F == [p \in Items' |-> f(p)]
<1>8. F \in [Items' -> Items] /\ \A p \in Items' : F[p] = f(p)
  BY <1>6
<1> HIDE DEF F
<1> QED
  BY <1>6, <1>7, <1>8 DEF ItemsMove

\* The other steps of a replica take nothing but what is left behind off the line.
LEMMA FewerItems ==
    ASSUME TypeOK, NEW r \in Replicas, Bind(r) \/ Signal(r) \/ Kill(r) \/ LoseConnection(r)
    PROVE  ItemsMove
<1>1. /\ \A s \in Replicas : pc'[s] \in {"publish", "ack"} => pc'[s] = pc[s] /\ cur'[s] = cur[s]
      /\ \A s \in Replicas : inbox'[s] = inbox[s] \/ inbox'[s] = <<>>
      /\ \A s \in Replicas : wire'[s] = wire[s] \/ wire'[s] = <<>>
      /\ \A s \in Replicas : ackBuf'[s] \subseteq ackBuf[s]
      /\ out' = out
  BY DEF Bind, Signal, Kill, LoseConnection, Goto, replicaVars, wireVars, TypeOK
<1>2. ASSUME NEW p \in Items'
      PROVE  p \in Items
  BY <1>1, <1>2, WhereItemsAre, NextItemIsTyped, AnItemThatStayed
<1> QED
  BY <1>2, FewerItemsMove

\* Where nothing on the lines changes.
LEMMA SameItems ==
    ASSUME UNCHANGED <<pc, cur, inbox, ackBuf, wire, out>>
    PROVE  ItemsMove
<1>1. Items' \subseteq Items
  BY DEF Items, OnTheLine
<1> QED
  BY <1>1, FewerItemsMove

-----------------------------------------------------------------------------
(* Marks and order.                                                        *)

\* The one item a delivery adds is the last of the inbox.
LEMMA DeliverAddsOne ==
    ASSUME TypeOK, NEW r \in Replicas, Deliver(r), NEW m \in spooled, inbox' = Receive(r, m)
    PROVE  \A p \in Items' :
              \/ p \in Items
              \/ /\ p.replica = r /\ ~p.ack /\ p.seq = m /\ p.stage = 5
                 /\ p.redelivered = (m \in redelivered)
                 /\ \A q \in Items' : ~Before(p, q)
<1>1. UNCHANGED <<pc, cur, ackBuf, wire, out>>
  BY DEF Deliver, wireVars
<1>2. inbox[r] \in Seq(Recs) /\ Len(inbox[r]) \in Nat /\ DOMAIN inbox[r] = 1 .. Len(inbox[r])
  <2>1. inbox[r] \in Seq(Recs)
    BY DEF TypeOK
  <2> QED
    BY <2>1, LenProperties
<1>3. m \in Inputs /\ [seq |-> m, redelivered |-> m \in redelivered] \in Recs
  BY DEF TypeOK, Recs
<1>4. \A s \in Replicas : \A i \in DOMAIN inbox'[s] :
         \/ i \in DOMAIN inbox[s] /\ inbox'[s][i] = inbox[s][i]
         \/ /\ s = r /\ inbox'[s][i] = [seq |-> m, redelivered |-> m \in redelivered]
            /\ \A j \in DOMAIN inbox'[s] : j <= i
  <2> DEFINE rec == [seq |-> m, redelivered |-> m \in redelivered]
  <2>1. CASE m \in Malformed \/ ~Alive(r)
    BY <2>1 DEF Receive
  <2>2. CASE ~(m \in Malformed \/ ~Alive(r))
    <3>1. inbox' = [inbox EXCEPT ![r] = Append(@, rec)]
      BY <2>2 DEF Receive
    <3> HIDE DEF rec
    <3>2. inbox'[r] = Append(inbox[r], rec) /\ \A s \in Replicas : s # r => inbox'[s] = inbox[s]
      BY <3>1 DEF TypeOK
    <3>3. rec \in Recs
      BY <1>3 DEF rec
    <3>4. /\ DOMAIN Append(inbox[r], rec) = 1 .. Len(inbox[r]) + 1
          /\ Append(inbox[r], rec)[Len(inbox[r]) + 1] = rec
          /\ \A i \in 1 .. Len(inbox[r]) : Append(inbox[r], rec)[i] = inbox[r][i]
      BY <1>2, <3>3
    <3> QED
      BY <1>2, <3>2, <3>4 DEF rec
  <2> QED
    BY <2>1, <2>2
<1> SUFFICES ASSUME NEW p \in Items', p \notin Items
             PROVE  /\ p.replica = r /\ ~p.ack /\ p.seq = m /\ p.stage = 5
                    /\ p.redelivered = (m \in redelivered)
                    /\ \A q \in Items' : ~Before(p, q)
  OBVIOUS
<1>5. p.replica \in Replicas /\ p.stage \in 1 .. 5 /\ p.at \in Nat
  BY NextItemIsTyped
<1>6. p.stage = 5
  BY <1>1, <1>5, WhereItemsAre, AnItemThatStayed
<1>7. p.at \in DOMAIN inbox'[p.replica] /\ IsCopyIn(p, inbox'[p.replica][p.at])
  BY <1>6, WhereItemsAre
<1>8. ~(p.at \in DOMAIN inbox[p.replica] /\ inbox'[p.replica][p.at] = inbox[p.replica][p.at])
  BY <1>6, AnItemThatStayed
<1>9. /\ p.replica = r /\ inbox'[r][p.at] = [seq |-> m, redelivered |-> m \in redelivered]
      /\ \A j \in DOMAIN inbox'[r] : j <= p.at
  BY <1>4, <1>5, <1>7, <1>8
<1>10. ~p.ack /\ p.seq = m /\ p.redelivered = (m \in redelivered)
  BY <1>7, <1>9 DEF IsCopyIn
<1>11. ASSUME NEW q \in Items', Before(p, q)
       PROVE  FALSE
  <2>1. q.replica = r /\ q.stage \in 1 .. 5 /\ q.at \in Nat
    BY <1>9, <1>11, NextItemIsTyped DEF Before
  <2>2. q.stage = 5 /\ p.at < q.at
    BY <1>6, <1>11, <2>1 DEF Before
  <2>3. q.at \in DOMAIN inbox'[q.replica]
    BY <2>2, WhereItemsAre
  <2>4. q.at <= p.at
    BY <1>9, <2>1, <2>3
  <2> QED
    BY <1>5, <2>1, <2>2, <2>4
<1> QED
  BY <1>6, <1>9, <1>10, <1>11

\* An input that is delivered for the first time has no copy anywhere; one that is delivered
\* again is marked (failover_publisher.rs:138).
LEMMA DeliverKeepsMarks ==
    ASSUME TypeOK, MarkInv, NEW r \in Replicas, Deliver(r)
    PROVE  MarkInv'
<1>1. PICK m \in spooled \ (sent \cup removed) : sent' = sent \cup {m} /\ inbox' = Receive(r, m)
  BY DEF Deliver
<1>2. UNCHANGED <<redelivered, removed>>
  BY DEF Deliver
<1>3. \A p \in Items' :
         \/ p \in Items
         \/ /\ p.replica = r /\ ~p.ack /\ p.seq = m /\ p.stage = 5
            /\ p.redelivered = (m \in redelivered)
            /\ \A q \in Items' : ~Before(p, q)
  BY <1>1, DeliverAddsOne
<1>4. ItemsWereDelivered'
  BY <1>1, <1>2, <1>3 DEF MarkInv, ItemsWereDelivered
<1>5. ASSUME NEW p \in Items', NEW q \in Items', p # q, ~p.ack, ~q.ack, p.seq = q.seq
      PROVE  p.redelivered \/ q.redelivered
  <2>1. CASE p \in Items /\ q \in Items
    BY <1>5, <2>1 DEF MarkInv, SecondCopiesAreMarked
  <2>2. CASE p \notin Items /\ q \notin Items
    BY <1>3, <1>5, <2>2, CopiesAreOrdered
  <2>3. CASE p \in Items /\ q \notin Items
    BY <1>1, <1>3, <1>5, <2>3 DEF MarkInv, ItemsWereDelivered
  <2>4. CASE p \notin Items /\ q \in Items
    BY <1>1, <1>3, <1>5, <2>4 DEF MarkInv, ItemsWereDelivered
  <2> QED
    BY <2>1, <2>2, <2>3, <2>4
<1> QED
  BY <1>4, <1>5 DEF MarkInv, SecondCopiesAreMarked

\* The Active replica is given the first of the inputs it has not got.
LEMMA DeliverKeepsOrder ==
    ASSUME TypeOK, LockInv, NEW r \in Replicas, Deliver(r)
    PROVE  LockInv'
<1>1. PICK m \in spooled \ (sent \cup removed) :
         /\ \A k \in spooled \ (sent \cup removed) : m <= k
         /\ sent' = sent \cup {m} /\ inbox' = Receive(r, m)
  BY DEF Deliver
<1>2. active = r /\ UNCHANGED <<pc, bound, spooled, active, removed>>
  BY DEF Deliver
<1>3. \A p \in Items' :
         \/ p \in Items
         \/ /\ p.replica = r /\ ~p.ack /\ p.seq = m /\ p.stage = 5
            /\ p.redelivered = (m \in redelivered)
            /\ \A q \in Items' : ~Before(p, q)
  BY <1>1, DeliverAddsOne
<1>4. spooled \subseteq Nat /\ m \in Nat
  BY InputsAssumption DEF TypeOK, Inputs
<1>5. LinesAreInOrder'
  <2> SUFFICES ASSUME NEW p \in Items', NEW q \in Items', Before(p, q), ~q.ack
               PROVE  p.seq < q.seq
    BY DEF LinesAreInOrder, Before
  <2>1. p \in Items
    BY <1>3
  <2>2. CASE q \in Items
    BY <2>1, <2>2 DEF LockInv, LinesAreInOrder
  <2>3. CASE q \notin Items
    <3>1. q.seq = m /\ p.replica = active
      BY <1>2, <1>3, <2>3 DEF Before
    <3>2. ~(m <= p.seq)
      BY <1>1, <2>1, <3>1 DEF LockInv, ActiveHasAllBefore
    <3>3. p.seq \in Nat
      BY <2>1, ItemIsTyped
    <3> QED
      BY <1>4, <3>1, <3>2, <3>3
  <2> QED
    BY <2>2, <2>3
<1>6. NewcomersHoldNothing'
  BY <1>2, <1>3 DEF LockInv, NewcomersHoldNothing, Gone
<1>7. ActiveHasAllBefore'
  <2> SUFFICES ASSUME NEW p \in Items', p.replica = active
               PROVE  /\ p.seq \in sent' \cup removed
                      /\ \A k \in spooled : k <= p.seq => k \in sent' \cup removed
    BY <1>2 DEF ActiveHasAllBefore
  <2>1. CASE p \in Items
    BY <1>1, <2>1 DEF LockInv, ActiveHasAllBefore
  <2>2. CASE p \notin Items
    <3>1. p.seq = m
      BY <1>3, <2>2
    <3>2. ASSUME NEW k \in spooled, k <= m, k \notin sent \cup removed
          PROVE  k = m
      <4>1. m <= k
        BY <1>1, <3>2
      <4> QED
        BY <1>4, <3>2, <4>1
    <3> QED
      BY <1>1, <3>1, <3>2
  <2> QED
    BY <2>1, <2>2
<1>8. UnpublishedAreQueued'
  BY <1>1, <1>2, <1>3 DEF LockInv, UnpublishedAreQueued
<1> QED
  BY <1>5, <1>6, <1>7, <1>8 DEF LockInv

\* What a replica does on its own keeps the marks and the order.
LEMMA ReplicaKeepsOrder ==
    ASSUME IInv, MarkInv, NEW r \in Replicas,
           Bind(r) \/ Pop(r) \/ PublishOk(r) \/ PublishErr(r) \/ Ack(r) \/ FlushAcks(r) \/ Signal(r)
           \/ Stop(r) \/ Kill(r)
    PROVE  MarkInv' /\ (LockInv => LockInv') /\ demotions' = demotions
<1>1. /\ UNCHANGED <<spooled, active, sent, redelivered, removed, demotions>>
      /\ bound' = bound \/ (bound' = bound \cup {r} /\ pc[r] = "start")
  BY DEF Bind, Pop, PublishOk, PublishErr, Ack, FlushAcks, Signal, Stop, Kill, queueVars
<1>2. ItemsMove
  BY PopMoves, PublishMoves, AckMoves, FlushAndStopMove, FewerItems DEF IInv
<1>3. \A s \in Replicas : pc[s] # "start" => pc'[s] # "start"
  BY DEF Bind, Pop, PublishOk, PublishErr, Ack, FlushAcks, Signal, Stop, Kill, Goto, IInv, TypeOK
<1>4. \A s \in Replicas : Gone(s) => Gone(s)'
  BY <1>1, <1>3 DEF Gone
<1>5. MarkInv'
  BY <1>1, <1>2, MovingKeepsMarks
<1>6. ASSUME LockInv
      PROVE  LockInv'
  BY <1>1, <1>2, <1>4, <1>6, MovingKeepsOrder
<1> QED
  BY <1>1, <1>5, <1>6

\* The lock goes to a replica that has nothing on its line.
LEMMA PromoteKeepsOrder ==
    ASSUME IInv, MarkInv, NEW r \in Replicas, Promote(r)
    PROVE  MarkInv' /\ (LockInv => LockInv') /\ demotions' = demotions
<1>1. /\ active = NoReplica /\ active' = r /\ r \in bound
      /\ UNCHANGED <<pc, cur, inbox, ackBuf, wire, out, bound, spooled, sent, redelivered, removed, demotions>>
  BY DEF Promote, replicaVars, wireVars
<1>2. ItemsMove
  BY <1>1, SameItems
<1>3. MarkInv'
  BY <1>1, <1>2, MovingKeepsMarks
<1>4. ASSUME LockInv
      PROVE  LockInv'
  <2>1. \A s \in Replicas : s = active \/ Gone(s) => s # active' /\ Gone(s)'
    BY <1>1, ReplicasAssumption DEF Gone
  <2>2. \A p \in Items' : p.seq \in removed' => p.seq \in removed
    BY <1>1
  <2> QED
    BY <1>1, <1>2, <1>4, <2>1, <2>2, MovingKeepsOrder
<1> QED
  BY <1>1, <1>3, <1>4

\* A flow that loses the lock with its binding leaves a line that nothing is added to.
LEMMA UnbindingKeepsOrder ==
    ASSUME IInv, MarkInv, NEW r \in Replicas, ItemsMove,
           bound' = bound \ {r}, Deactivate(r), pc[r] # "start", UNCHANGED <<pc, spooled, removed>>
    PROVE  MarkInv' /\ (LockInv => LockInv')
<1>1. /\ active' = IF active = r THEN NoReplica ELSE active
      /\ sent' = IF active = r THEN {} ELSE sent
      /\ sent \cup redelivered \subseteq sent' \cup redelivered'
  BY DEF Deactivate
<1>2. MarkInv'
  BY <1>1, MovingKeepsMarks
<1>3. ASSUME LockInv
      PROVE  LockInv'
  <2>1. \A s \in Replicas : s = active \/ Gone(s) => s = active' \/ Gone(s)'
    BY <1>1 DEF Gone
  <2>2. \A s \in Replicas : s = active' => s = active /\ sent \cup removed \subseteq sent' \cup removed'
    BY <1>1, ReplicasAssumption
  <2>3. \A p \in Items' : p.seq \in removed' => p.seq \in removed
    OBVIOUS
  <2> QED
    BY <1>3, <2>1, <2>2, <2>3, MovingKeepsOrder
<1> QED
  BY <1>2, <1>3

\* Acknowledgements are about inputs before those the replica has yet to publish.
LEMMA AcksKeepOrder ==
    ASSUME IInv, MarkInv, NEW r \in Replicas, BrokerReads(r), Head(wire[r]).kind = "ack"
    PROVE  MarkInv' /\ (LockInv => LockInv')
<1>1. /\ removed' = IF active = r THEN removed \cup (Head(wire[r]).acks \cap sent) ELSE removed
      /\ sent' = IF active = r THEN sent \ Head(wire[r]).acks ELSE sent
      /\ UNCHANGED <<pc, bound, spooled, active, redelivered>>
  BY DEF BrokerReads, replicaVars
<1>2. sent' \cup removed' = sent \cup removed
  BY <1>1
<1>3. ItemsMove
  BY BrokerReadsMoves
<1>4. MarkInv'
  BY <1>1, <1>2, <1>3, MovingKeepsMarks
<1>5. ASSUME LockInv
      PROVE  LockInv'
  <2>1. TypeOK /\ Head(wire[r]) = wire[r][1] /\ 1 \in DOMAIN wire[r]
    BY Reading DEF IInv, BrokerReads
  <2>2. ASSUME NEW p \in Items', p.replica = active', ~p.ack, p.stage # Downstream, p.seq \in removed'
        PROVE  p.seq \in removed
    <3> SUFFICES ASSUME active = r, p.seq \in wire[r][1].acks PROVE FALSE
      BY <1>1, <2>1, <2>2
    <3>1. PICK o \in Items : o.replica = r /\ o.seq = p.seq /\ ~o.ack /\ p.stage <= o.stage
      BY <1>1, <1>3, <2>2 DEF ItemsMove
    <3>2. /\ o.stage \in 2 .. 5 /\ o.at \in Nat
          /\ o.stage = 2 => o.at \in DOMAIN wire[r] /\ wire[r][o.at].kind = "out"
      <4>1. p.stage \in 2 .. 5
        BY <2>2, NextItemIsTyped DEF Downstream
      <4>2. o.stage \in 1 .. 5 /\ o.at \in Nat
        BY ItemIsTyped
      <4>3. o.stage \in 2 .. 5
        BY <3>1, <4>1, <4>2
      <4>4. o.stage = 2 => o.at \in DOMAIN wire[r] /\ wire[r][o.at].kind = "out"
        BY <3>1, ItemIsTyped DEF OnTheLine, Downstream, Travelling, Noted, InLoop, Waiting
      <4> QED
        BY <4>2, <4>3, <4>4
    <3>3. wire[r][1].kind = "ack"
      BY <2>1
    <3> DEFINE a == Item(Travelling, r, 1, TRUE, p.seq, FALSE)
    <3>4. a \in Items
      BY <2>1, <3>3, FramesAreItems
    <3>5. DOMAIN wire[r] = 1 .. Len(wire[r]) /\ Len(wire[r]) \in Nat
      BY <2>1, WireIsTyped
    <3>6. o.stage = 2 => 1 < o.at
      BY <3>2, <3>3, <3>5
    <3>7. Before(a, o)
      BY <3>1, <3>2, <3>6 DEF Before, Item, Travelling
    <3>8. p.seq < p.seq
      <4>1. a.seq = p.seq
        BY DEF Item
      <4> HIDE DEF a
      <4> QED
        BY <1>5, <3>1, <3>4, <3>7, <4>1 DEF LockInv, LinesAreInOrder
    <3>9. p.seq \in Nat
      BY NextItemIsTyped
    <3> QED
      BY <3>8, <3>9
  <2>3. \A s \in Replicas : s = active \/ Gone(s) => s = active' \/ Gone(s)'
    BY <1>1 DEF Gone
  <2>4. \A s \in Replicas : s = active' => s = active /\ sent \cup removed \subseteq sent' \cup removed'
    BY <1>1, <1>2
  <2> QED
    BY <1>1, <1>3, <1>5, <2>2, <2>3, <2>4, MovingKeepsOrder
<1> QED
  BY <1>4, <1>5

\* Whatever the broker reads.
LEMMA BrokerReadsKeepsOrder ==
    ASSUME IInv, MarkInv, NEW r \in Replicas, BrokerReads(r)
    PROVE  MarkInv' /\ (LockInv => LockInv') /\ demotions' = demotions
<1>1. /\ TypeOK /\ Head(wire[r]) = wire[r][1] /\ 1 \in DOMAIN wire[r] /\ Head(wire[r]) \in Frames
      /\ UNCHANGED pc
  BY Reading DEF IInv, BrokerReads, replicaVars
<1>2. ItemsMove
  BY BrokerReadsMoves
<1>3. CASE Head(wire[r]).kind = "out"
  <2>1. UNCHANGED <<bound, spooled, active, sent, redelivered, removed, demotions>>
    BY <1>3 DEF BrokerReads, queueVars
  <2>2. MarkInv'
    BY <1>2, <2>1, MovingKeepsMarks
  <2>3. \A s \in Replicas : Gone(s) => Gone(s)'
    BY <1>1, <2>1 DEF Gone
  <2>4. LockInv => LockInv'
    BY <1>2, <2>1, <2>3, MovingKeepsOrder
  <2> QED
    BY <2>1, <2>2, <2>4
<1>4. CASE Head(wire[r]).kind = "ack"
  BY <1>4, AcksKeepOrder DEF BrokerReads
<1>5. CASE Head(wire[r]).kind = "unbind"
  <2>1. bound' = bound \ {r} /\ Deactivate(r) /\ UNCHANGED <<spooled, removed, demotions>>
    BY <1>5 DEF BrokerReads
  <2>2. pc[r] = "stopped"
    BY <1>1, <1>5 DEF IInv, UnbindIsLast
  <2> QED
    BY <1>1, <1>2, <2>1, <2>2, UnbindingKeepsOrder
<1> QED
  BY <1>1, <1>3, <1>4, <1>5, KindsOfFrames

\* A connection that breaks, and a demotion, which ends what the order is about.
LEMMA LossesKeepOrder ==
    ASSUME IInv, MarkInv, NEW r \in Replicas, LoseConnection(r) \/ Demote(r)
    PROVE  MarkInv' /\ (demotions' = 0 => demotions = 0 /\ (LockInv => LockInv'))
<1>1. CASE LoseConnection(r)
  <2>1. ItemsMove
    BY <1>1, FewerItems DEF IInv
  <2>2. /\ bound' = bound \ {r} /\ Deactivate(r) /\ pc[r] # "start"
        /\ UNCHANGED <<pc, spooled, removed, demotions>>
    BY <1>1 DEF LoseConnection, replicaVars
  <2> QED
    BY <2>1, <2>2, UnbindingKeepsOrder
<1>2. CASE Demote(r)
  <2>1. ItemsMove
    BY <1>2, SameItems DEF Demote, replicaVars, wireVars
  <2>2. sent \cup redelivered \cup removed \subseteq sent' \cup redelivered' \cup removed'
    BY <1>2 DEF Demote, Deactivate
  <2>3. demotions' # 0
    BY <1>2, FaultsAssumption DEF Demote, IInv, TypeOK
  <2> QED
    BY <2>1, <2>2, <2>3, MovingKeepsMarks
<1> QED
  BY <1>1, <1>2

-----------------------------------------------------------------------------
(* Graceful handoffs.                                                      *)

\* A run that is graceful after a step was so before: nobody comes back to life.
LEMMA GracefulSoFar ==
    ASSUME TypeOK, NEW r \in Replicas, Graceful',
           \/ Bind(r) \/ Pop(r) \/ PublishOk(r) \/ PublishErr(r) \/ Ack(r)
           \/ FlushAcks(r) \/ Signal(r) \/ Stop(r) \/ Kill(r)
           \/ Promote(r) \/ Deliver(r) \/ BrokerReads(r) \/ LoseConnection(r) \/ Demote(r)
    PROVE  Graceful /\ demotions = 0 /\ ~Kill(r) /\ ~LoseConnection(r) /\ ~Demote(r)
<1>1. ~Kill(r)
  BY DEF Graceful, Kill, Goto, TypeOK
<1>2. ~LoseConnection(r)
  BY DEF Graceful, LoseConnection, TypeOK
<1>3. ~Demote(r)
  BY FaultsAssumption DEF Graceful, Demote, TypeOK
<1>4. UNCHANGED <<link, demotions>>
  <2>1. CASE Bind(r) \/ Pop(r) \/ PublishErr(r) \/ Ack(r) \/ Signal(r) \/ Promote(r) \/ Deliver(r)
    BY <2>1 DEF Bind, Pop, PublishErr, Ack, Signal, Promote, Deliver, wireVars, queueVars
  <2>2. CASE PublishOk(r) \/ FlushAcks(r) \/ Stop(r)
    BY <2>2 DEF PublishOk, FlushAcks, Stop, queueVars
  <2>3. CASE BrokerReads(r)
    <3>1. Head(wire[r]).kind \in {"out", "ack", "unbind"}
      BY <2>3, Reading, KindsOfFrames DEF BrokerReads
    <3> QED
      BY <2>3, <3>1 DEF BrokerReads, queueVars
  <2> QED
    BY <1>1, <1>2, <1>3, <2>1, <2>2, <2>3
<1>5. \A s \in Replicas : pc[s] = "killed" => pc'[s] = "killed"
  <2>1. CASE Bind(r) \/ Pop(r) \/ PublishOk(r) \/ PublishErr(r) \/ Ack(r) \/ FlushAcks(r) \/ Signal(r) \/ Stop(r)
    BY <2>1 DEF Bind, Pop, PublishOk, PublishErr, Ack, FlushAcks, Signal, Stop, Goto, TypeOK
  <2>2. CASE Promote(r) \/ Deliver(r) \/ BrokerReads(r)
    BY <2>2 DEF Promote, Deliver, BrokerReads, replicaVars
  <2> QED
    BY <1>1, <1>2, <1>3, <2>1, <2>2
<1> QED
  BY <1>1, <1>2, <1>3, <1>4, <1>5 DEF Graceful

\* The lock stays where it is: what is published newly is owed, and what was owed is owed still.
LEMMA StillAcknowledged ==
    ASSUME PublishedAreAcknowledged, UNCHANGED active, removed \subseteq removed',
           \A s \in Replicas : \A m \in Inputs : Shown(s, m)' => Shown(s, m) \/ (s = active /\ Owed(s, m)'),
           \A s \in Replicas : \A m \in Inputs : s = active /\ Owed(s, m) => Owed(s, m)' \/ m \in removed'
    PROVE  PublishedAreAcknowledged'
<1> SUFFICES ASSUME NEW s \in Replicas, NEW m \in Inputs, Shown(s, m)'
             PROVE  m \in removed' \/ (s = active' /\ Owed(s, m)')
  BY DEF PublishedAreAcknowledged
<1>1. CASE Shown(s, m)
  <2>1. m \in removed \/ (s = active /\ Owed(s, m))
    BY <1>1 DEF PublishedAreAcknowledged
  <2> QED
    BY <2>1
<1>2. CASE ~Shown(s, m)
  BY <1>2
<1> QED
  BY <1>1, <1>2

\* Steps of the loop that send nothing.
LEMMA LoopKeepsAcknowledged ==
    ASSUME TypeOK, PublishedAreAcknowledged, NEW r \in Replicas,
           Bind(r) \/ Pop(r) \/ PublishErr(r) \/ Ack(r) \/ Signal(r)
    PROVE  PublishedAreAcknowledged'
<1>1. UNCHANGED <<wire, out, active, removed>>
  BY DEF Bind, Pop, PublishErr, Ack, Signal, wireVars, queueVars
<1>2. ASSUME NEW s \in Replicas, NEW m
      PROVE  Shown(s, m)' => Shown(s, m)
  BY <1>1 DEF Shown
<1>3. \A s \in Replicas :
         /\ ackBuf[s] \subseteq ackBuf'[s]
         /\ pc[s] = "ack" => (pc'[s] = "ack" /\ cur'[s] = cur[s]) \/ cur[s].seq \in ackBuf'[s]
  <2>1. CASE Ack(r)
    BY <2>1 DEF Ack, Goto, TypeOK
  <2>2. CASE Bind(r) \/ Pop(r) \/ PublishErr(r) \/ Signal(r)
    BY <2>2 DEF Bind, Pop, PublishErr, Signal, Goto, TypeOK
  <2> QED
    BY <2>1, <2>2
<1>4. ASSUME NEW s \in Replicas, NEW m, Owed(s, m)
      PROVE  Owed(s, m)'
  BY <1>1, <1>3, <1>4 DEF Owed
<1> QED
  BY <1>1, <1>2, <1>4, StillAcknowledged

\* What a replica sends leaves the frames before it alone.
LEMMA FramesRemain ==
    ASSUME TypeOK, NEW r \in Replicas, NEW frames \in Seq(Frames), Send(r, frames),
           NEW s \in Replicas, NEW i \in DOMAIN wire[s]
    PROVE  i \in DOMAIN wire'[s] /\ wire'[s][i] = wire[s][i]
<1>1. CASE s # r \/ ~link[r]
  BY <1>1, Sending
<1>2. CASE s = r /\ link[r]
  <2>1. DOMAIN wire[r] = 1 .. Len(wire[r]) /\ Len(wire[r]) \in Nat /\ Len(frames) \in Nat
    BY WireIsTyped, LenProperties
  <2>2. /\ Len(wire'[r]) = Len(wire[r]) + Len(frames) /\ DOMAIN wire'[r] = 1 .. Len(wire'[r])
        /\ \A j \in 1 .. Len(wire[r]) : wire'[r][j] = wire[r][j]
    BY <1>2, Sending
  <2> QED
    BY <1>2, <2>1, <2>2
<1> QED
  BY <1>1, <1>2

\* The Active replica publishes, and owes the acknowledgement (failover_publisher.rs:183-204).
LEMMA PublishOkKeepsAcknowledged ==
    ASSUME IInv, Graceful, PublishedAreAcknowledged, NEW r \in Replicas, PublishOk(r)
    PROVE  PublishedAreAcknowledged'
<1>1. /\ TypeOK /\ pc[r] = "publish" /\ pc'[r] = "ack" /\ cur[r] \in Recs
      /\ \A s \in Replicas : s # r => pc'[s] = pc[s]
      /\ UNCHANGED <<cur, ackBuf, out, active, removed>>
  BY DEF IInv, LoopHoldsAnInput, PublishOk, Goto, TypeOK, queueVars
<1>2. active = r
  BY <1>1 DEF Graceful, IInv, OnlyTheActivePublishes, MayOutput, Alive
<1> DEFINE sending == <<OutFrame(r, cur[r])>>
<1>3. sending \in Seq(Frames) /\ Send(r, sending)
  BY <1>1, FramesAreTyped DEF PublishOk
<1>4. Len(sending) = 1 /\ sending[1].kind = "out" /\ sending[1].row.seq = cur[r].seq
  BY DEF OutFrame
<1> HIDE DEF sending
<1>5. ASSUME NEW s \in Replicas, NEW m \in Inputs, Shown(s, m)'
      PROVE  Shown(s, m) \/ (s = active /\ Owed(s, m)')
  <2>1. CASE \E i \in DOMAIN out' : out'[i].replica = s /\ out'[i].seq = m
    BY <1>1, <2>1 DEF Shown
  <2>2. CASE \E i \in DOMAIN wire'[s] : wire'[s][i].kind = "out" /\ wire'[s][i].row.seq = m
    <3>1. PICK i \in DOMAIN wire'[s] : wire'[s][i].kind = "out" /\ wire'[s][i].row.seq = m
      BY <2>2
    <3>2. CASE s # r \/ ~link[r]
      BY <1>1, <1>3, <3>1, <3>2, Sending DEF Shown
    <3>3. CASE s = r /\ link[r] /\ i \in 1 .. Len(wire[r])
      <4>1. wire'[r][i] = wire[r][i] /\ i \in DOMAIN wire[r]
        BY <1>1, <1>3, <3>3, Sending, WireIsTyped
      <4> QED
        BY <3>1, <3>3, <4>1 DEF Shown
    <3>4. CASE s = r /\ link[r] /\ i \notin 1 .. Len(wire[r])
      <4>1. PICK j \in 1 .. Len(sending) : i = Len(wire[r]) + j
        BY <1>1, <1>3, <3>1, <3>4, Sending
      <4>2. wire'[r][i] = sending[j] /\ j = 1
        BY <1>1, <1>3, <1>4, <3>4, <4>1, Sending
      <4>3. cur'[r].seq = m /\ pc'[r] = "ack"
        BY <1>1, <1>4, <3>1, <3>4, <4>2
      <4> QED
        BY <1>2, <3>4, <4>3 DEF Owed
    <3> QED
      BY <3>2, <3>3, <3>4
  <2> QED
    BY <1>5, <2>1, <2>2 DEF Shown
<1>6. ASSUME NEW s \in Replicas, NEW m \in Inputs, Owed(s, m)
      PROVE  Owed(s, m)'
  <2>1. CASE m \in ackBuf[s] \/ (pc[s] = "ack" /\ cur[s].seq = m)
    BY <1>1, <2>1 DEF Owed
  <2>2. CASE \E i \in DOMAIN wire[s] : wire[s][i].kind = "ack" /\ m \in wire[s][i].acks
    <3>1. PICK i \in DOMAIN wire[s] : wire[s][i].kind = "ack" /\ m \in wire[s][i].acks
      BY <2>2
    <3>2. i \in DOMAIN wire'[s] /\ wire'[s][i] = wire[s][i]
      BY <1>1, <1>3, FramesRemain
    <3> QED
      BY <3>1, <3>2 DEF Owed
  <2> QED
    BY <1>6, <2>1, <2>2 DEF Owed
<1> QED
  BY <1>1, <1>5, <1>6, StillAcknowledged

\* What was noted is sent, and nothing of it is lost on a connection that is up
\* (failover_publisher.rs:207-211).
LEMMA FlushAndStopKeepAcknowledged ==
    ASSUME IInv, Graceful, PublishedAreAcknowledged, NEW r \in Replicas, FlushAcks(r) \/ Stop(r)
    PROVE  PublishedAreAcknowledged'
<1>1. /\ TypeOK /\ link[r]
      /\ \A s \in Replicas : pc[s] = "ack" => pc'[s] = "ack"
      /\ \A s \in Replicas : s # r => ackBuf'[s] = ackBuf[s]
      /\ UNCHANGED <<cur, out, active, removed>>
  BY DEF IInv, Graceful, FlushAcks, Stop, Goto, TypeOK, queueVars
<1>2. PICK frames \in Seq(Frames) :
         /\ Send(r, frames)
         /\ ackBuf[r] # {} => /\ 1 \in 1 .. Len(frames)
                              /\ frames[1].kind = "ack" /\ frames[1].acks = ackBuf[r]
  <2>1. ackBuf[r] # {} => PendingAcks(r) = <<AckFrame(ackBuf[r])>>
    BY DEF PendingAcks
  <2>2. CASE FlushAcks(r)
    BY <1>1, <2>1, <2>2, FramesAreTyped DEF FlushAcks, AckFrame
  <2>3. CASE Stop(r)
    <3> DEFINE all == PendingAcks(r) \o <<UnbindFrame>>
    <3>1. all \in Seq(Frames) /\ Send(r, all)
      BY <1>1, <2>3, FramesAreTyped DEF Stop
    <3>2. ASSUME ackBuf[r] # {}
          PROVE  1 \in 1 .. Len(all) /\ all[1] = AckFrame(ackBuf[r])
      <4>1. PendingAcks(r) \in Seq(Frames) /\ <<UnbindFrame>> \in Seq(Frames)
        BY <1>1, FramesAreTyped DEF Frames
      <4>2. Len(PendingAcks(r)) = 1 /\ PendingAcks(r)[1] = AckFrame(ackBuf[r]) /\ Len(<<UnbindFrame>>) = 1
        BY <2>1, <3>2
      <4>3. Len(all) = Len(PendingAcks(r)) + Len(<<UnbindFrame>>) /\ all[1] = PendingAcks(r)[1]
        BY <4>1, <4>2, ConcatProperties
      <4> HIDE DEF all
      <4> QED
        BY <4>2, <4>3
    <3> HIDE DEF all
    <3> QED
      BY <3>1, <3>2 DEF AckFrame
  <2> QED
    BY <2>2, <2>3
<1>3. ASSUME NEW s \in Replicas, NEW m \in Inputs, Shown(s, m)'
      PROVE  Shown(s, m)
  BY <1>1, <1>3, AcksLeave DEF Shown
<1>4. ASSUME NEW s \in Replicas, NEW m \in Inputs, Owed(s, m)
      PROVE  Owed(s, m)'
  <2>1. CASE pc[s] = "ack" /\ cur[s].seq = m
    BY <1>1, <2>1 DEF Owed
  <2>2. CASE \E i \in DOMAIN wire[s] : wire[s][i].kind = "ack" /\ m \in wire[s][i].acks
    <3>1. PICK i \in DOMAIN wire[s] : wire[s][i].kind = "ack" /\ m \in wire[s][i].acks
      BY <2>2
    <3>2. i \in DOMAIN wire'[s] /\ wire'[s][i] = wire[s][i]
      BY <1>1, <1>2, FramesRemain
    <3> QED
      BY <3>1, <3>2 DEF Owed
  <2>3. CASE m \in ackBuf[s] /\ s # r
    BY <1>1, <2>3 DEF Owed
  <2>4. CASE m \in ackBuf[s] /\ s = r
    <3>1. 1 \in 1 .. Len(frames) /\ frames[1].kind = "ack" /\ m \in frames[1].acks
      BY <1>2, <2>4
    <3>2. wire'[r][Len(wire[r]) + 1] = frames[1] /\ DOMAIN wire'[r] = 1 .. Len(wire[r]) + Len(frames)
      <4>1. /\ \A i \in 1 .. Len(frames) : wire'[r][Len(wire[r]) + i] = frames[i]
            /\ Len(wire'[r]) = Len(wire[r]) + Len(frames) /\ DOMAIN wire'[r] = 1 .. Len(wire'[r])
        BY <1>1, <1>2, Sending
      <4> QED
        BY <3>1, <4>1
    <3>3. Len(wire[r]) + 1 \in 1 .. Len(wire[r]) + Len(frames)
      <4>1. Len(wire[r]) \in Nat /\ Len(frames) \in Nat
        BY <1>1, WireIsTyped, LenProperties
      <4> QED
        BY <3>1, <4>1
    <3> QED
      BY <2>4, <3>1, <3>2, <3>3 DEF Owed
  <2> QED
    BY <1>4, <2>1, <2>2, <2>3, <2>4 DEF Owed
<1> QED
  BY <1>1, <1>3, <1>4, StillAcknowledged

\* The first frame of r, and what reading it does to the others and to what is downstream.
LEMMA FirstFrame ==
    ASSUME IInv, NEW r \in Replicas, BrokerReads(r)
    PROVE  /\ 1 \in DOMAIN wire[r] /\ Head(wire[r]) = wire[r][1] /\ wire[r][1].kind \in {"out", "ack", "unbind"}
           /\ \A s \in Replicas : s # r => wire'[s] = wire[s]
           /\ \A i \in DOMAIN wire'[r] : wire'[r][i] = wire[r][i + 1] /\ i + 1 \in DOMAIN wire[r]
           /\ \A i \in DOMAIN wire[r] : i # 1 =>
                 \E j \in DOMAIN wire'[r] : wire'[r][j] = wire[r][i]
           /\ wire[r][1].kind = "out" =>
                 /\ wire[r][1].row \in Rows /\ wire[r][1].row.replica = r
                 /\ DOMAIN out' = 1 .. Len(out) + 1 /\ DOMAIN out = 1 .. Len(out) /\ Len(out) \in Nat
                 /\ out'[Len(out) + 1] = wire[r][1].row /\ \A i \in DOMAIN out : out'[i] = out[i]
           /\ wire[r][1].kind # "out" => out' = out
<1>1. TypeOK /\ wire[r] # <<>> /\ wire' = [wire EXCEPT ![r] = Tail(@)]
  BY DEF IInv, BrokerReads
<1>2. /\ \A s \in Replicas : s # r => wire'[s] = wire[s]
      /\ Head(wire[r]) = wire[r][1] /\ 1 \in DOMAIN wire[r] /\ Head(wire[r]) \in Frames
      /\ Len(wire'[r]) = Len(wire[r]) - 1 /\ DOMAIN wire'[r] = 1 .. Len(wire[r]) - 1
      /\ \A i \in 1 .. Len(wire[r]) - 1 : wire'[r][i] = wire[r][i + 1] /\ i + 1 \in DOMAIN wire[r]
  BY <1>1, Reading
<1>3. Len(wire[r]) \in Nat /\ DOMAIN wire[r] = 1 .. Len(wire[r])
  BY <1>1, WireIsTyped
<1>4. wire[r][1].kind \in {"out", "ack", "unbind"}
  BY <1>2, KindsOfFrames
<1>5. ASSUME NEW i \in DOMAIN wire[r], i # 1
      PROVE  \E j \in DOMAIN wire'[r] : wire'[r][j] = wire[r][i]
  <2>1. i - 1 \in 1 .. Len(wire[r]) - 1 /\ (i - 1) + 1 = i
    BY <1>3, <1>5
  <2> QED
    BY <1>2, <2>1
<1>6. ASSUME wire[r][1].kind = "out"
      PROVE  /\ wire[r][1].row \in Rows /\ wire[r][1].row.replica = r
             /\ DOMAIN out' = 1 .. Len(out) + 1 /\ DOMAIN out = 1 .. Len(out) /\ Len(out) \in Nat
             /\ out'[Len(out) + 1] = wire[r][1].row /\ \A i \in DOMAIN out : out'[i] = out[i]
  <2>1. wire[r][1].row \in Rows /\ wire[r][1].row.replica = r
    BY <1>2, <1>6, KindsOfFrames DEF IInv, OwnFrames
  <2>2. out \in Seq(Rows) /\ out' = Append(out, wire[r][1].row)
    BY <1>1, <1>2, <1>6, RowsAreTyped DEF BrokerReads
  <2>3. /\ DOMAIN out' = 1 .. Len(out) + 1 /\ DOMAIN out = 1 .. Len(out) /\ Len(out) \in Nat
        /\ out'[Len(out) + 1] = wire[r][1].row /\ \A i \in DOMAIN out : out'[i] = out[i]
    BY <2>1, <2>2
  <2> QED
    BY <2>1, <2>3
<1>7. wire[r][1].kind # "out" => out' = out
  BY <1>2, <1>4 DEF BrokerReads
<1> QED
  BY <1>2, <1>4, <1>5, <1>6, <1>7

\* Acknowledgements arrive while the replica is Active; when its unbind arrives it owes none.
LEMMA BrokerReadsKeepsAcknowledged ==
    ASSUME IInv, LockInv, StoppedHasNothingNoted, PublishedAreAcknowledged,
           NEW r \in Replicas, BrokerReads(r)
    PROVE  PublishedAreAcknowledged'
<1>1. TypeOK /\ UNCHANGED <<pc, cur, ackBuf>>
  BY DEF IInv, BrokerReads, replicaVars
<1>2. /\ 1 \in DOMAIN wire[r] /\ Head(wire[r]) = wire[r][1] /\ wire[r][1].kind \in {"out", "ack", "unbind"}
      /\ \A s \in Replicas : s # r => wire'[s] = wire[s]
      /\ \A i \in DOMAIN wire'[r] : wire'[r][i] = wire[r][i + 1] /\ i + 1 \in DOMAIN wire[r]
      /\ \A i \in DOMAIN wire[r] : i # 1 => \E j \in DOMAIN wire'[r] : wire'[r][j] = wire[r][i]
  BY FirstFrame
<1>3. ASSUME NEW s \in Replicas, NEW m \in Inputs, Shown(s, m)'
      PROVE  Shown(s, m)
  <2>1. CASE \E i \in DOMAIN wire'[s] : wire'[s][i].kind = "out" /\ wire'[s][i].row.seq = m
    BY <1>2, <2>1 DEF Shown
  <2>2. CASE \E i \in DOMAIN out' : out'[i].replica = s /\ out'[i].seq = m
    <3>1. PICK i \in DOMAIN out' : out'[i].replica = s /\ out'[i].seq = m
      BY <2>2
    <3>2. CASE wire[r][1].kind = "out" /\ i \notin DOMAIN out
      <4>1. i = Len(out) + 1 /\ out'[i] = wire[r][1].row /\ wire[r][1].row.replica = r
        BY <3>1, <3>2, FirstFrame
      <4> QED
        BY <1>2, <3>1, <3>2, <4>1 DEF Shown
    <3>3. CASE i \in DOMAIN out
      <4>1. out'[i] = out[i]
        BY <3>3, FirstFrame
      <4> QED
        BY <3>1, <3>3, <4>1 DEF Shown
    <3>4. CASE wire[r][1].kind # "out"
      <4>1. out' = out
        BY <3>4, FirstFrame
      <4> QED
        BY <3>1, <4>1 DEF Shown
    <3> QED
      BY <3>2, <3>3, <3>4
  <2> QED
    BY <1>3, <2>1, <2>2 DEF Shown
<1>4. ASSUME NEW s \in Replicas, NEW m \in Inputs, Owed(s, m)
      PROVE  Owed(s, m)' \/ (s = r /\ wire[r][1].kind = "ack" /\ m \in wire[r][1].acks)
  <2>1. CASE m \in ackBuf[s] \/ (pc[s] = "ack" /\ cur[s].seq = m)
    BY <1>1, <2>1 DEF Owed
  <2>2. CASE \E i \in DOMAIN wire[s] : wire[s][i].kind = "ack" /\ m \in wire[s][i].acks
    BY <1>2, <2>2 DEF Owed
  <2> QED
    BY <1>4, <2>1, <2>2 DEF Owed
<1>5. CASE wire[r][1].kind = "out"
  <2>1. UNCHANGED <<active, removed>>
    BY <1>2, <1>5 DEF BrokerReads, queueVars
  <2> QED
    BY <1>3, <1>4, <1>5, <2>1, StillAcknowledged
<1>6. CASE wire[r][1].kind = "ack"
  <2>1. /\ removed' = IF active = r THEN removed \cup (wire[r][1].acks \cap sent) ELSE removed
        /\ UNCHANGED active
    BY <1>2, <1>6 DEF BrokerReads
  <2>2. ASSUME active = r, NEW m \in wire[r][1].acks
        PROVE  m \in removed'
    <3> DEFINE a == Item(Travelling, r, 1, TRUE, m, FALSE)
    <3>1. a \in Items
      BY <1>1, <1>2, <1>6, FramesAreItems
    <3>2. a.replica = active /\ a.seq = m
      BY <2>2 DEF Item
    <3> HIDE DEF a
    <3>3. m \in sent \cup removed
      BY <3>1, <3>2 DEF LockInv, ActiveHasAllBefore
    <3> QED
      BY <2>1, <2>2, <3>3
  <2>3. \A s \in Replicas : \A m \in Inputs : s = active /\ Owed(s, m) => Owed(s, m)' \/ m \in removed'
    BY <1>4, <2>2
  <2> QED
    BY <1>3, <2>1, <2>3, StillAcknowledged
<1>7. CASE wire[r][1].kind = "unbind"
  <2>1. active' = (IF active = r THEN NoReplica ELSE active) /\ removed' = removed
    BY <1>2, <1>7 DEF BrokerReads, Deactivate
  <2>2. \A m \in Inputs : ~Owed(r, m)
    <3>1. Len(wire[r]) = 1 /\ pc[r] = "stopped" /\ DOMAIN wire[r] = 1 .. Len(wire[r])
      BY <1>1, <1>2, <1>7, WireIsTyped DEF IInv, UnbindIsLast
    <3>2. ackBuf[r] = {}
      BY <3>1 DEF StoppedHasNothingNoted
    <3>3. \A i \in DOMAIN wire[r] : i = 1
      BY <3>1
    <3> QED
      BY <1>7, <3>1, <3>2, <3>3 DEF Owed
  <2> SUFFICES ASSUME NEW s \in Replicas, NEW m \in Inputs, Shown(s, m)'
               PROVE  m \in removed' \/ (s = active' /\ Owed(s, m)')
    BY DEF PublishedAreAcknowledged
  <2>3. m \in removed \/ (s = active /\ Owed(s, m))
    BY <1>3 DEF PublishedAreAcknowledged
  <2> QED
    BY <1>4, <1>7, <2>1, <2>2, <2>3
<1> QED
  BY <1>2, <1>5, <1>6, <1>7

\* Every graceful step.
LEMMA GracefulStep ==
    ASSUME IInv, demotions = 0 => LockInv, StoppedHasNothingNoted, NEW r \in Replicas, Graceful',
           Graceful => PublishedAreAcknowledged,
           \/ Bind(r) \/ Pop(r) \/ PublishOk(r) \/ PublishErr(r) \/ Ack(r)
           \/ FlushAcks(r) \/ Signal(r) \/ Stop(r) \/ Kill(r)
           \/ Promote(r) \/ Deliver(r) \/ BrokerReads(r) \/ LoseConnection(r) \/ Demote(r)
    PROVE  PublishedAreAcknowledged'
<1>1. TypeOK /\ Graceful /\ demotions = 0 /\ ~Kill(r) /\ ~LoseConnection(r) /\ ~Demote(r)
  BY GracefulSoFar DEF IInv
<1>2. PublishedAreAcknowledged /\ LockInv
  BY <1>1
<1>3. CASE Bind(r) \/ Pop(r) \/ PublishErr(r) \/ Ack(r) \/ Signal(r)
  BY <1>1, <1>2, <1>3, LoopKeepsAcknowledged
<1>4. CASE PublishOk(r) \/ FlushAcks(r) \/ Stop(r)
  BY <1>1, <1>2, <1>4, PublishOkKeepsAcknowledged, FlushAndStopKeepAcknowledged
<1>5. CASE BrokerReads(r)
  BY <1>2, <1>5, BrokerReadsKeepsAcknowledged
<1>6. CASE Promote(r) \/ Deliver(r)
  <2>1. UNCHANGED <<pc, cur, ackBuf, wire, out, removed>> /\ (active' = active \/ active = NoReplica)
    BY <1>6 DEF Promote, Deliver, replicaVars, wireVars
  <2>2. \A s \in Replicas : \A m \in Inputs : (Shown(s, m)' <=> Shown(s, m)) /\ (Owed(s, m)' <=> Owed(s, m))
    BY <2>1 DEF Shown, Owed
  <2> QED
    BY <1>2, <2>1, <2>2, ReplicasAssumption DEF PublishedAreAcknowledged
<1> QED
  BY <1>1, <1>3, <1>4, <1>5, <1>6

\* An output that comes out without a demotion is of an input that is still in the queue.
LEMMA OutputIsOfAQueuedInput ==
    ASSUME IInv, LockInv, demotions = 0, NEW r \in Replicas, BrokerReads(r), wire[r][1].kind = "out"
    PROVE  active = r /\ wire[r][1].row.seq \notin removed
<1>1. 1 \in DOMAIN wire[r] /\ TypeOK
  BY FirstFrame DEF IInv
<1>2. active = r
  BY <1>1 DEF IInv, OnlyTheActivePublishes, MayOutput, OnTheWire
<1> DEFINE p == Item(Travelling, r, 1, FALSE, wire[r][1].row.seq, wire[r][1].row.redelivered)
<1>3. p \in Items
  BY <1>1, FramesAreItems
<1>4. p.replica = active /\ ~p.ack /\ p.stage # Downstream /\ p.seq = wire[r][1].row.seq
  BY <1>2 DEF Item, Downstream, Travelling
<1> HIDE DEF p
<1> QED
  BY <1>2, <1>3, <1>4 DEF LockInv, UnpublishedAreQueued

\* Only the broker's reading of an output adds to what is downstream.
LEMMA OnlyOutputsComeOut ==
    ASSUME IInv, NEW r \in Replicas,
           \/ Bind(r) \/ Pop(r) \/ PublishOk(r) \/ PublishErr(r) \/ Ack(r)
           \/ FlushAcks(r) \/ Signal(r) \/ Stop(r) \/ Kill(r)
           \/ Promote(r) \/ Deliver(r) \/ BrokerReads(r) \/ LoseConnection(r) \/ Demote(r)
    PROVE  out' = out \/ (BrokerReads(r) /\ wire[r][1].kind = "out")
<1>1. CASE BrokerReads(r)
  BY <1>1, FirstFrame
<1>2. CASE ~BrokerReads(r)
  BY <1>2 DEF Bind, Pop, PublishOk, PublishErr, Ack, FlushAcks, Signal, Stop, Kill, Promote, Deliver,
              LoseConnection, Demote
<1> QED
  BY <1>1, <1>2

\* A second output of an input would be of one that has been acknowledged, or out of order.
LEMMA HandoffStaysClean ==
    ASSUME IInv, LockInv, Graceful, PublishedAreAcknowledged, GracefulHandoffIsClean,
           NEW r \in Replicas, BrokerReads(r), wire[r][1].kind = "out"
    PROVE  GracefulHandoffIsClean'
<1>1. TypeOK /\ demotions = 0
  BY DEF IInv, Graceful
<1>2. active = r /\ wire[r][1].row.seq \notin removed
  BY <1>1, OutputIsOfAQueuedInput
<1>3. /\ 1 \in DOMAIN wire[r] /\ wire[r][1].row \in Rows
      /\ DOMAIN out' = 1 .. Len(out) + 1 /\ DOMAIN out = 1 .. Len(out) /\ Len(out) \in Nat
      /\ out'[Len(out) + 1] = wire[r][1].row /\ \A i \in DOMAIN out : out'[i] = out[i]
  BY FirstFrame
<1>4. ASSUME NEW i \in DOMAIN out
      PROVE  out[i].seq # wire[r][1].row.seq
  <2>1. out[i].replica \in Replicas /\ out[i].seq \in Inputs
    BY <1>1, RowsAreTyped DEF Rows
  <2>2. CASE out[i].replica = r
    <3> DEFINE p == Item(Downstream, out[i].replica, i, FALSE, out[i].seq, out[i].redelivered)
               q == Item(Travelling, r, 1, FALSE, wire[r][1].row.seq, wire[r][1].row.redelivered)
    <3>1. p \in Items /\ q \in Items
      BY <1>1, <1>3, OutputsAreItems, FramesAreItems
    <3>2. Before(p, q) /\ ~q.ack /\ p.seq = out[i].seq /\ q.seq = wire[r][1].row.seq
      BY <2>2 DEF Before, Item, Downstream, Travelling
    <3> HIDE DEF p, q
    <3>3. out[i].seq < wire[r][1].row.seq
      BY <3>1, <3>2 DEF LockInv, LinesAreInOrder
    <3>4. out[i].seq \in Nat
      BY <2>1, InputsAssumption DEF Inputs
    <3> QED
      BY <3>3, <3>4
  <2>3. CASE out[i].replica # r
    <3>1. Shown(out[i].replica, out[i].seq)
      BY DEF Shown
    <3>2. out[i].seq \in removed
      BY <1>2, <2>1, <2>3, <3>1 DEF PublishedAreAcknowledged
    <3> QED
      BY <1>2, <3>2
  <2> QED
    BY <2>2, <2>3
<1>5. ASSUME NEW i \in DOMAIN out', NEW j \in DOMAIN out', i # j
      PROVE  out'[i].seq # out'[j].seq
  <2>1. CASE i \in DOMAIN out /\ j \in DOMAIN out
    BY <1>3, <1>5, <2>1 DEF GracefulHandoffIsClean
  <2>2. CASE i \notin DOMAIN out
    <3>1. i = Len(out) + 1 /\ j \in DOMAIN out
      BY <1>3, <1>5, <2>2
    <3> QED
      BY <1>3, <1>4, <3>1
  <2>3. CASE j \notin DOMAIN out
    <3>1. j = Len(out) + 1 /\ i \in DOMAIN out
      BY <1>3, <1>5, <2>3
    <3> QED
      BY <1>3, <1>4, <3>1
  <2> QED
    BY <2>1, <2>2, <2>3
<1> QED
  BY <1>5 DEF GracefulHandoffIsClean

-----------------------------------------------------------------------------
(* The theorems.                                                           *)

\* At first there is nothing on any line.
LEMMA OrderInvHoldsAtFirst == Init => OrderInv
<1> SUFFICES ASSUME Init PROVE OrderInv
  OBVIOUS
<1> USE DEF Init, Start
<1>1. Items = {}
  <2> SUFFICES ASSUME NEW p \in Items PROVE FALSE
    OBVIOUS
  <2> QED
    BY ItemIsTyped DEF OnTheLine
<1>2. MarkInv /\ LockInv
  BY <1>1 DEF MarkInv, LockInv, ItemsWereDelivered, SecondCopiesAreMarked, LinesAreInOrder,
              NewcomersHoldNothing, ActiveHasAllBefore, UnpublishedAreQueued
<1>3. StoppedHasNothingNoted /\ PublishedAreAcknowledged /\ GracefulHandoffIsClean
  BY DEF StoppedHasNothingNoted, PublishedAreAcknowledged, Shown, GracefulHandoffIsClean
<1> QED
  BY <1>2, <1>3 DEF OrderInv

\* Every action keeps the invariant.
LEMMA StepsKeepOrderInv ==
    ASSUME IInv, OrderInv, [Next]_vars
    PROVE  OrderInv'
<1>1. ASSUME NEW r \in Replicas,
             \/ Bind(r) \/ Pop(r) \/ PublishOk(r) \/ PublishErr(r) \/ Ack(r)
             \/ FlushAcks(r) \/ Signal(r) \/ Stop(r) \/ Kill(r)
             \/ Promote(r) \/ Deliver(r) \/ BrokerReads(r) \/ LoseConnection(r) \/ Demote(r)
      PROVE  OrderInv'
  <2>1. MarkInv' /\ (demotions' = 0 => LockInv')
    <3>1. CASE Bind(r) \/ Pop(r) \/ PublishOk(r) \/ PublishErr(r) \/ Ack(r) \/ FlushAcks(r) \/ Signal(r)
               \/ Stop(r) \/ Kill(r)
      BY <3>1, ReplicaKeepsOrder DEF OrderInv
    <3>2. CASE Promote(r) \/ BrokerReads(r) \/ LoseConnection(r) \/ Demote(r)
      BY <3>2, PromoteKeepsOrder, BrokerReadsKeepsOrder, LossesKeepOrder DEF OrderInv
    <3>3. CASE Deliver(r)
      <4>1. demotions' = demotions
        BY <3>3 DEF Deliver
      <4> QED
        BY <3>3, <4>1, DeliverKeepsMarks, DeliverKeepsOrder DEF IInv, OrderInv
    <3> QED
      BY <1>1, <3>1, <3>2, <3>3
  <2>2. StoppedHasNothingNoted'
    <3>1. CASE Bind(r) \/ Pop(r) \/ PublishOk(r) \/ PublishErr(r) \/ Ack(r) \/ FlushAcks(r) \/ Signal(r)
               \/ Stop(r) \/ Kill(r)
      BY <3>1 DEF OrderInv, StoppedHasNothingNoted, IInv, TypeOK, Goto, Alive,
                  Bind, Pop, PublishOk, PublishErr, Ack, FlushAcks, Signal, Stop, Kill
    <3>2. CASE Promote(r) \/ Deliver(r) \/ BrokerReads(r) \/ LoseConnection(r) \/ Demote(r)
      <4>1. UNCHANGED <<pc, ackBuf>>
        BY <3>2 DEF Promote, Deliver, BrokerReads, LoseConnection, Demote, replicaVars
      <4> QED
        BY <4>1 DEF OrderInv, StoppedHasNothingNoted
    <3> QED
      BY <1>1, <3>1, <3>2
  <2>3. ASSUME Graceful'
        PROVE  PublishedAreAcknowledged' /\ GracefulHandoffIsClean'
    <3>1. PublishedAreAcknowledged'
      BY <1>1, <2>3, GracefulStep DEF OrderInv
    <3>2. Graceful /\ demotions = 0
      BY <1>1, <2>3, GracefulSoFar DEF IInv
    <3>3. LockInv /\ PublishedAreAcknowledged /\ GracefulHandoffIsClean
      BY <3>2 DEF OrderInv
    <3>4. CASE out' = out
      BY <3>1, <3>2, <3>3, <3>4 DEF GracefulHandoffIsClean
    <3>5. CASE BrokerReads(r) /\ wire[r][1].kind = "out"
      BY <3>1, <3>2, <3>3, <3>5, HandoffStaysClean
    <3>6. GracefulHandoffIsClean'
      BY <1>1, <3>4, <3>5, OnlyOutputsComeOut
    <3> QED
      BY <3>1, <3>6
  <2> QED
    BY <2>1, <2>2, <2>3 DEF OrderInv
<1>2. CASE Finished \/ UNCHANGED vars
  <2>1. UNCHANGED <<pc, inbox, cur, ackBuf, wire, link, bound, spooled, active, sent,
                    redelivered, removed, demotions, out>>
    BY <1>2 DEF Finished, vars, replicaVars, wireVars, queueVars
  <2>2. ItemsMove
    BY <2>1, SameItems
  <2>3. MarkInv' /\ (demotions' = 0 => LockInv')
    <3>1. MarkInv'
      BY <2>1, <2>2, MovingKeepsMarks DEF OrderInv
    <3>2. ASSUME demotions = 0
          PROVE  LockInv'
      <4>1. LockInv /\ \A s \in Replicas : Gone(s) => Gone(s)'
        BY <2>1, <3>2 DEF OrderInv, Gone
      <4> QED
        BY <2>1, <2>2, <4>1, MovingKeepsOrder
    <3> QED
      BY <2>1, <3>1, <3>2
  <2>4. /\ StoppedHasNothingNoted'
        /\ Graceful' => PublishedAreAcknowledged' /\ GracefulHandoffIsClean'
    BY <2>1 DEF OrderInv, StoppedHasNothingNoted, Graceful, PublishedAreAcknowledged, Shown, Owed,
                GracefulHandoffIsClean
  <2> QED
    BY <2>3, <2>4 DEF OrderInv
<1> QED
  BY <1>1, <1>2 DEF Next

\* OrderInv is an invariant of the replicas, their connections and the queue, whatever crashes
\* and is redelivered (failover_publisher.rs:128-218).
THEOREM OrderInvariance == Spec => []OrderInv
<1>1. IInv /\ OrderInv /\ [Next]_vars => OrderInv'
  BY StepsKeepOrderInv
<1> QED
  BY <1>1, OrderInvHoldsAtFirst, Invariance, PTL DEF Spec

\* Downstream can tell a second output, whatever dies when and wherever the lock goes: of two
\* outputs of one input one is marked as a redelivery (failover_publisher.rs:138, 186).
THEOREM SecondOutputsAreMarked == Spec => []DuplicatesAreMarked
<1>1. IInv /\ OrderInv => DuplicatesAreMarked
  <2> SUFFICES ASSUME TypeOK, SecondCopiesAreMarked, NEW i \in DOMAIN out, NEW j \in DOMAIN out,
                      i # j, out[i].seq = out[j].seq
               PROVE  out[i].redelivered \/ out[j].redelivered
    BY DEF IInv, OrderInv, MarkInv, DuplicatesAreMarked
  <2> DEFINE p == Item(Downstream, out[i].replica, i, FALSE, out[i].seq, out[i].redelivered)
             q == Item(Downstream, out[j].replica, j, FALSE, out[j].seq, out[j].redelivered)
  <2>1. p \in Items /\ q \in Items
    BY OutputsAreItems
  <2>2. /\ p.at = i /\ q.at = j /\ ~p.ack /\ ~q.ack /\ p.seq = q.seq
        /\ p.redelivered = out[i].redelivered /\ q.redelivered = out[j].redelivered
    BY DEF Item
  <2> HIDE DEF p, q
  <2> QED
    BY <2>1, <2>2 DEF SecondCopiesAreMarked
<1> QED
  BY <1>1, Invariance, OrderInvariance, PTL

\* Without a demotion a replica publishes in the order of the queue
\* (failover_publisher.rs:160, 178-183).
THEOREM QueueOrderIsKept == Spec => []OutputsFollowTheQueue
<1>1. IInv /\ OrderInv => OutputsFollowTheQueue
  <2> SUFFICES ASSUME TypeOK, LinesAreInOrder, NEW i \in DOMAIN out, NEW j \in DOMAIN out,
                      i < j, out[i].replica = out[j].replica
               PROVE  out[i].seq < out[j].seq
    BY DEF IInv, OrderInv, LockInv, OutputsFollowTheQueue
  <2> DEFINE p == Item(Downstream, out[i].replica, i, FALSE, out[i].seq, out[i].redelivered)
             q == Item(Downstream, out[j].replica, j, FALSE, out[j].seq, out[j].redelivered)
  <2>1. p \in Items /\ q \in Items
    BY OutputsAreItems
  <2>2. Before(p, q) /\ ~q.ack /\ p.seq = out[i].seq /\ q.seq = out[j].seq
    BY DEF Item, Before
  <2> HIDE DEF p, q
  <2> QED
    BY <2>1, <2>2 DEF LinesAreInOrder
<1> QED
  BY <1>1, Invariance, OrderInvariance, PTL

\* "The graceful handoff is clean and duplicate-free" (failover-rig/README.md:73): while nothing
\* crashes no input is published twice, however SIGTERM falls.
THEOREM HandoffIsClean == Spec => []GracefulHandoffIsClean
<1>1. OrderInv => GracefulHandoffIsClean
  BY DEF OrderInv, GracefulHandoffIsClean
<1> QED
  BY <1>1, OrderInvariance, PTL

\* Once the broker has deleted an input no output of it comes out any more, as long as the lock
\* is lost only with the binding (failover_publisher.rs:7-10, failover-rig/README.md:59-73).
THEOREM DoneIsDone == Spec => AckedInputsStayDone
<1>1. ASSUME IInv, OrderInv, [Next]_vars, demotions = 0
      PROVE  \A i \in DOMAIN out' \ DOMAIN out : out'[i].seq \notin removed
  <2>1. ASSUME NEW r \in Replicas, BrokerReads(r), wire[r][1].kind = "out"
        PROVE  \A i \in DOMAIN out' \ DOMAIN out : out'[i].seq \notin removed
    <3>1. wire[r][1].row.seq \notin removed
      BY <1>1, <2>1, OutputIsOfAQueuedInput DEF OrderInv
    <3>2. /\ DOMAIN out' = 1 .. Len(out) + 1 /\ DOMAIN out = 1 .. Len(out) /\ Len(out) \in Nat
          /\ out'[Len(out) + 1] = wire[r][1].row
      BY <1>1, <2>1, FirstFrame
    <3>3. \A i \in DOMAIN out' \ DOMAIN out : i = Len(out) + 1
      BY <3>2
    <3> QED
      BY <3>1, <3>2, <3>3
  <2>2. out' = out \/ \E r \in Replicas : BrokerReads(r) /\ wire[r][1].kind = "out"
    <3>1. CASE Finished \/ UNCHANGED vars
      BY <3>1 DEF Finished, vars
    <3>2. ASSUME NEW r \in Replicas,
                 \/ Bind(r) \/ Pop(r) \/ PublishOk(r) \/ PublishErr(r) \/ Ack(r)
                 \/ FlushAcks(r) \/ Signal(r) \/ Stop(r) \/ Kill(r)
                 \/ Promote(r) \/ Deliver(r) \/ BrokerReads(r) \/ LoseConnection(r) \/ Demote(r)
          PROVE  out' = out \/ \E s \in Replicas : BrokerReads(s) /\ wire[s][1].kind = "out"
      BY <1>1, <3>2, OnlyOutputsComeOut
    <3> QED
      BY <1>1, <3>1, <3>2 DEF Next
  <2> QED
    BY <2>1, <2>2
<1>2. IInv /\ OrderInv /\ [Next]_vars =>
         [demotions = 0 => \A i \in DOMAIN out' \ DOMAIN out : out'[i].seq \notin removed]_vars
  BY <1>1
<1> QED
  BY <1>2, Invariance, OrderInvariance, PTL DEF Spec, AckedInputsStayDone
=============================================================================
