----------------------------- MODULE FailoverRig -----------------------------
(***************************************************************************)
(* The whole failover rig (failover-rig/run.sh): the load generator        *)
(* (examples/load_gen.rs), the replicas on the exclusive queue             *)
(* (FailoverPublisher) and the recorder of what they publish               *)
(* (examples/output_recorder.rs).                                          *)
(*                                                                         *)
(* The generator's persistent messages reach the queue in its order; the   *)
(* recorder's subscription carries the outputs in theirs.  run.sh starts   *)
(* the recorder 1.5 s before the replicas: it is subscribed from the start *)
(* here, and runs as long as they do.                                      *)
(***************************************************************************)
EXTENDS FailoverPublisher

CONSTANTS
    SomeAreSkipped      \* session.publish of the generator may return an error

ASSUME SkippedAssumption == SomeAreSkipped \in BOOLEAN

VARIABLES
    seq,        \* the input the generator publishes next
    inFlight,   \* published, not yet in the queue
    written     \* rows in OUT_FILE, and what count says

generatorVars == <<seq, inFlight>>
rigVars == <<vars, generatorVars, written>>

RigInit ==
    /\ Start({})
    /\ seq = 1 /\ inFlight = {}
    /\ written = 0

-----------------------------------------------------------------------------
(* The load generator.                                                     *)

\* session.publish of the next input; an error is logged and the number used up.
Publish(accepted) ==
    /\ seq <= N
    /\ accepted \/ SomeAreSkipped
    /\ inFlight' = IF accepted THEN inFlight \cup {seq} ELSE inFlight
    /\ seq' = seq + 1
    /\ UNCHANGED <<vars, written>>

\* The broker puts what it receives into the queue.
Spool ==
    /\ \E m \in inFlight :
          /\ \A k \in inFlight : m <= k
          /\ inFlight' = inFlight \ {m}
          /\ spooled' = spooled \cup {m}
    /\ UNCHANGED <<replicaVars, wireVars, bound, active, sent, redelivered, removed, demotions, out,
                   seq, written>>

\* After half a second the session goes, with what is not there by then.
EndLoad ==
    /\ seq > N
    /\ inFlight' = {}
    /\ UNCHANGED <<vars, seq, written>>

-----------------------------------------------------------------------------
(* The recorder.                                                           *)

\* Variant of Write: a redelivered output is taken for a duplicate.
WriteFirstDeliveries ==
    /\ \E i \in written + 1 .. Len(out) : ~out[i].redelivered
    /\ written' = written + 1
    /\ UNCHANGED <<vars, generatorVars>>

\* on_message: the next output becomes a row of the file, and is counted.
Write ==
    /\ written + 1 <= Len(out)
    /\ written' = written + 1
    /\ UNCHANGED <<vars, generatorVars>>

-----------------------------------------------------------------------------
Generator == (\E accepted \in BOOLEAN : Publish(accepted)) \/ EndLoad

Rig ==
    \/ Next /\ UNCHANGED <<generatorVars, written>>
    \/ Generator \/ Spool
    \/ Write

\* Main loops run, the library's timer expires, the broker serves its queue and
\* notices dead connections.
RigFairness ==
    /\ \A r \in Replicas :
        /\ WF_rigVars(Bind(r) /\ UNCHANGED <<generatorVars, written>>)
        /\ WF_rigVars(MainLoop(r) /\ UNCHANGED <<generatorVars, written>>)
        /\ WF_rigVars(FlushAcks(r) /\ UNCHANGED <<generatorVars, written>>)
        /\ WF_rigVars(Promote(r) /\ UNCHANGED <<generatorVars, written>>)
        /\ WF_rigVars(Deliver(r) /\ UNCHANGED <<generatorVars, written>>)
        /\ WF_rigVars(BrokerReads(r) /\ UNCHANGED <<generatorVars, written>>)
        /\ WF_rigVars(pc[r] = "killed" /\ LoseConnection(r) /\ UNCHANGED <<generatorVars, written>>)
    /\ WF_rigVars(Generator) /\ WF_rigVars(Spool) /\ WF_rigVars(Write)

RigSpec == RigInit /\ [][Rig]_rigVars /\ RigFairness

-----------------------------------------------------------------------------
(* Properties.                                                             *)

Recorded == {out[i].seq : i \in 1 .. written}

\* Every input that got into the queue and parses ends up in the recording, also
\* when the leader goes down with it half done, as long as one replica stays
\* healthy (failover_publisher.rs:7-10, output_recorder.rs:1-3).
EveryInputIsRecorded ==
    \/ <>(\A r \in Replicas : ~Healthy(r))
    \/ \A m \in Inputs \ Malformed : (m \in spooled) ~> (m \in Recorded)
=============================================================================
