--------------------------- MODULE ApplicationProofs ---------------------------
(***************************************************************************)
(* For any number of threads and whatever calls they make: types and the   *)
(* session mutex, one initialisation of the C library, batches that stay   *)
(* together, events and messages that come through in order.               *)
(***************************************************************************)
EXTENDS Application, SequenceTheorems, FiniteSetTheorems, WellFoundedInduction, TLAPS

-----------------------------------------------------------------------------
(* The inductive invariant.                                                *)

UnderTheMutex == {"send", "subscribe", "bind"}

\* The session mutex is held by exactly the thread that is in a C call of the session.
MutexIsHeld ==
    /\ \A t \in Threads : pc[t] \in UnderTheMutex => innerLock = t
    /\ innerLock # NoThread => pc[innerLock] \in UnderTheMutex

\* Where a thread is says what it calls.
InACall ==
    \A t \in Threads :
        /\ pc[t] \in {"once", "initialize", "check"} => Calling(t, "context")
        /\ pc[t] \in {"lock"} \cup UnderTheMutex => ~IsDone(t) /\ Call(t).op \in SharedOps
        /\ pc[t] = "send" => Call(t).op \in {"publish", "publish_multiple"}

\* Between two chunks a call has sent some of its messages and not all.
BatchesAdvance ==
    \A t \in Threads : sent[t] > 0 => pc[t] = "send" /\ sent[t] < Batch(t)

\* The closure of the OnceLock runs on one thread, before anything depends on it.
InitialisedOnce ==
    /\ \A t, u \in Threads : pc[t] = "initialize" /\ pc[u] = "initialize" => t = u
    /\ \A t \in Threads : pc[t] = "initialize" => globalInit = "running"
    /\ \A t \in Threads : pc[t] = "check" => globalInit = "set"
    /\ globalInit # "set" => library = <<>> /\ contexts = {}
    /\ \A t \in Threads : pc[t] = "check" /\ Call(t).crypto # "none" /\ <<t, at[t]>> \notin warned =>
           library = <<Call(t).crypto>>

\* Every call that has ended has its result.
ResultsAreOfTheCalls == \A t \in Threads : Len(results[t]) = at[t] - 1

IInv ==
    /\ TypeOK
    /\ program \in Programs
    /\ MutexIsHeld
    /\ InACall
    /\ BatchesAdvance
    /\ InitialisedOnce
    /\ OneConfigurationWins
    /\ ResultsAreOfTheCalls

-----------------------------------------------------------------------------
(* Codes and results.                                                      *)

\* from_raw finds a name; Ok is the name of SOLCLIENT_OK alone (src/lib.rs).
LEMMA FromRawFindsAName ==
    ASSUME NEW raw
    PROVE  FromRaw(raw) \in Codes /\ (FromRaw(raw) = "Ok" => raw = RawCodes.Ok)
<1>1. "Fail" \in DOMAIN RawCodes /\ RawCodes["Ok"] = RawCodes.Ok
  BY DEF RawCodes
<1>2. FromRaw(raw) \in DOMAIN RawCodes
  BY <1>1 DEF FromRaw
<1>3. FromRaw(raw) = "Ok" => RawCodes["Ok"] = raw
  BY DEF FromRaw
<1> QED
  BY <1>1, <1>2, <1>3 DEF Codes

LEMMA NamesOfCodes ==
    /\ FromRaw(RawCodes.Ok) = "Ok" /\ FromRaw(RawCodes.NotReady) = "NotReady"
    /\ FromRaw(RawCodes.Fail) = "Fail" /\ FromRaw(RawCodes.Incomplete) = "Incomplete"
BY DEF FromRaw, RawCodes

\* What a step of thread t does to the calls: it goes on, or its call ends with a result.
GoesOn(t) ==
    /\ UNCHANGED <<program, at, results>>
    /\ \E step \in Steps : pc' = [pc EXCEPT ![t] = step]

EndsWith(t, result) ==
    /\ UNCHANGED program
    /\ pc' = [pc EXCEPT ![t] = "ready"]
    /\ at' = [at EXCEPT ![t] = @ + 1]
    /\ results' = [results EXCEPT ![t] = Append(@, result)]

LEMMA GotoGoesOn ==
    ASSUME NEW t \in Threads, NEW step \in Steps, Goto(t, step)
    PROVE  GoesOn(t)
BY DEF Goto, GoesOn

LEMMA ReturnFromEnds ==
    ASSUME NEW t \in Threads, NEW raw, ReturnFrom(t, raw)
    PROVE  FromRaw(raw) \in Codes /\ EndsWith(t, FromRaw(raw))
BY FromRawFindsAName DEF ReturnFrom, Return, EndsWith

-----------------------------------------------------------------------------
(* A step of one thread.                                                   *)

\* The thread goes on to where its call may be, or its call ends with a result.
CallStep(t) ==
    \/ /\ GoesOn(t)
       /\ pc'[t] \in {"once", "initialize", "check"} => Calling(t, "context")
       /\ pc'[t] \in {"lock"} \cup UnderTheMutex => ~IsDone(t) /\ Call(t).op \in SharedOps
       /\ pc'[t] = "send" => Call(t).op \in {"publish", "publish_multiple"}
    \/ \E result \in Codes : EndsWith(t, result)

\* It leaves the mutex alone, takes it, or gives it back.
MutexStep(t) ==
    \/ innerLock' = innerLock /\ (pc'[t] \in UnderTheMutex <=> pc[t] \in UnderTheMutex)
    \/ innerLock = NoThread /\ innerLock' = t /\ pc'[t] \in UnderTheMutex
    \/ pc[t] \in UnderTheMutex /\ innerLock' = NoThread /\ pc'[t] \notin UnderTheMutex

OnlyMoves(t) == \A u \in Threads \ {t} : pc'[u] = pc[u] /\ at'[u] = at[u] /\ results'[u] = results[u]

LEMMA CallStepMoves ==
    ASSUME IInv, NEW t \in Threads, CallStep(t)
    PROVE  /\ UNCHANGED program /\ OnlyMoves(t)
           /\ at' \in [Threads -> Nat \ {0}] /\ pc' \in [Threads -> Steps]
           /\ results' \in [Threads -> Seq(Codes)]
<1>1. /\ at \in [Threads -> Nat \ {0}] /\ pc \in [Threads -> Steps]
      /\ results \in [Threads -> Seq(Codes)]
  BY DEF IInv, TypeOK
<1>2. CASE GoesOn(t)
  BY <1>1, <1>2 DEF GoesOn, OnlyMoves
<1>3. CASE \E result \in Codes : EndsWith(t, result)
  <2>1. PICK result \in Codes : EndsWith(t, result)
    BY <1>3
  <2>2. "ready" \in Steps /\ Append(results[t], result) \in Seq(Codes)
    BY <1>1, AppendProperties DEF Steps
  <2> QED
    BY <1>1, <2>1, <2>2 DEF EndsWith, OnlyMoves
<1> QED
  BY <1>2, <1>3 DEF CallStep

LEMMA CallStepKeepsCalls ==
    ASSUME IInv, NEW t \in Threads, CallStep(t)
    PROVE  InACall' /\ ResultsAreOfTheCalls'
<1>1. UNCHANGED program /\ OnlyMoves(t)
  BY CallStepMoves
<1>2. at \in [Threads -> Nat \ {0}] /\ pc \in [Threads -> Steps] /\ results \in [Threads -> Seq(Codes)]
  BY DEF IInv, TypeOK
<1>3. InACall'
  <2>1. CASE GoesOn(t)
    <3>1. /\ pc'[t] \in {"once", "initialize", "check"} => Calling(t, "context")
          /\ pc'[t] \in {"lock"} \cup UnderTheMutex => ~IsDone(t) /\ Call(t).op \in SharedOps
          /\ pc'[t] = "send" => Call(t).op \in {"publish", "publish_multiple"}
      BY <1>2, <2>1 DEF CallStep, GoesOn, EndsWith, UnderTheMutex
    <3> QED
      BY <1>1, <1>2, <2>1, <3>1 DEF IInv, InACall, OnlyMoves, GoesOn, Calling, IsDone, Call
  <2>2. CASE ~GoesOn(t)
    <3>1. pc'[t] = "ready"
      BY <1>2, <2>2 DEF CallStep, EndsWith
    <3> QED
      BY <1>1, <3>1 DEF IInv, InACall, OnlyMoves, Calling, IsDone, Call, UnderTheMutex
  <2> QED
    BY <2>1, <2>2
<1>4. ResultsAreOfTheCalls'
  <2>1. \A u \in Threads : Len(results[u]) = at[u] - 1
    BY DEF IInv, ResultsAreOfTheCalls
  <2>2. \A u \in Threads \ {t} : Len(results'[u]) = at'[u] - 1
    BY <1>1, <2>1 DEF OnlyMoves
  <2>3. Len(results'[t]) = at'[t] - 1
    <3>1. CASE GoesOn(t)
      BY <2>1, <3>1 DEF GoesOn
    <3>2. CASE \E result \in Codes : EndsWith(t, result)
      <4>1. PICK result \in Codes : EndsWith(t, result)
        BY <3>2
      <4>2. results[t] \in Seq(Codes) /\ results'[t] = Append(results[t], result) /\ at'[t] = at[t] + 1
        BY <1>2, <4>1 DEF EndsWith
      <4> QED
        BY <1>2, <2>1, <4>2
    <3> QED
      BY <3>1, <3>2 DEF CallStep
  <2> QED
    BY <2>2, <2>3 DEF ResultsAreOfTheCalls
<1> QED
  BY <1>3, <1>4

LEMMA MutexStepKeepsTheMutex ==
    ASSUME IInv, NEW t \in Threads, OnlyMoves(t), MutexStep(t)
    PROVE  MutexIsHeld' /\ innerLock' \in Threads \cup {NoThread}
BY ThreadsAssumption DEF IInv, TypeOK, MutexIsHeld, MutexStep, OnlyMoves

\* Who is not in RawContext::new does nothing to the initialisation.
LEMMA InitialisationStays ==
    ASSUME IInv, NEW t \in Threads, CallStep(t), UNCHANGED initVars,
           pc[t] \notin {"initialize", "check"}, pc'[t] \notin {"initialize", "check"}
    PROVE  InitialisedOnce' /\ OneConfigurationWins' /\ globalInit' \in {"empty", "running", "set"}
<1>1. UNCHANGED program /\ OnlyMoves(t) /\ UNCHANGED <<globalInit, initRaw, library, warned, contexts>>
  BY CallStepMoves DEF initVars
<1>2. InitialisedOnce'
  BY <1>1 DEF IInv, InitialisedOnce, OnlyMoves, Call
<1>3. OneConfigurationWins'
  BY <1>1 DEF IInv, OneConfigurationWins, CallOf
<1> QED
  BY <1>1, <1>2, <1>3 DEF IInv, TypeOK

LEMMA GotoSteps ==
    ASSUME IInv, NEW t \in Threads, NEW step \in Steps \ ({"once", "initialize", "check", "lock"} \cup UnderTheMutex),
           Goto(t, step)
    PROVE  CallStep(t) /\ pc'[t] = step
BY GotoGoesOn DEF IInv, TypeOK, Goto, CallStep, UnderTheMutex

LEMMA ReturnSteps ==
    ASSUME IInv, NEW t \in Threads, NEW code \in Codes, Return(t, code)
    PROVE  CallStep(t) /\ pc'[t] = "ready"
BY DEF Return, EndsWith, CallStep, IInv, TypeOK

LEMMA ReturnFromSteps ==
    ASSUME IInv, NEW t \in Threads, NEW raw, ReturnFrom(t, raw)
    PROVE  CallStep(t) /\ pc'[t] = "ready"
BY ReturnSteps, FromRawFindsAName DEF ReturnFrom

-----------------------------------------------------------------------------
(* The session (src/async_support.rs).                                     *)

SessionTypes ==
    /\ sent \in [Threads -> Nat]
    /\ wire \in Seq(Threads \X Nat \X Nat)
    /\ flows \subseteq Threads
    /\ eventsTaken \in BOOLEAN

SessionKeeps(t) ==
    /\ CallStep(t) /\ MutexStep(t) /\ SessionTypes' /\ BatchesAdvance'
    /\ pc[t] \notin {"initialize", "check"} /\ pc'[t] \notin {"initialize", "check"}

\* A call that is not sending leaves the batches of the others where they are.
LEMMA BatchesStay ==
    ASSUME IInv, NEW t \in Threads, CallStep(t), pc[t] # "send", UNCHANGED sent
    PROVE  BatchesAdvance'
<1>1. \A u \in Threads \ {t} : pc'[u] = pc[u] /\ Batch(u)' = Batch(u)
  BY CallStepMoves DEF OnlyMoves, Batch, Call
<1>2. sent[t] \in Nat /\ ~(sent[t] > 0)
  BY DEF IInv, TypeOK, BatchesAdvance
<1> QED
  BY <1>1, <1>2 DEF IInv, BatchesAdvance

\* Calls that do not touch the mutex.
LEMMA UnlockedSteps ==
    ASSUME IInv, NEW t \in Threads,
           \/ RefuseQueueName(t) \/ BeginRecv(t) \/ BeginFlowRecv(t) \/ NoFlow(t)
           \/ RecvSome(t) \/ RecvNone(t) \/ TryRecv(t) \/ TakeEventReceiver(t)
    PROVE  SessionKeeps(t)
<1>1. UNCHANGED <<innerLock, sent, wire, flows>> /\ eventsTaken' \in {eventsTaken, TRUE}
  BY DEF RefuseQueueName, BeginRecv, BeginFlowRecv, NoFlow, RecvSome, RecvNone, TryRecv, TakeEventReceiver,
         sessionVars, lockVars, contextVars, channelVars, Take
<1>2. pc[t] \in {"ready", "recv", "flow_recv"}
  BY DEF RefuseQueueName, BeginRecv, BeginFlowRecv, NoFlow, RecvSome, RecvNone, TryRecv, TakeEventReceiver, ReadyFor
<1>3. CASE BeginRecv(t) \/ BeginFlowRecv(t)
  <2>1. CallStep(t) /\ pc'[t] \in {"recv", "flow_recv"}
    BY <1>3, GotoSteps DEF BeginRecv, BeginFlowRecv, Steps, UnderTheMutex
  <2> QED
    BY <1>1, <1>2, <2>1, BatchesStay DEF SessionKeeps, SessionTypes, MutexStep, UnderTheMutex, IInv, TypeOK
<1>4. CASE ~(BeginRecv(t) \/ BeginFlowRecv(t))
  <2>1. \E code \in {"InvalidArgsNulError", "NoFlow", "Some", "None", "Empty", "Closed"} : Return(t, code)
    BY <1>4 DEF RefuseQueueName, NoFlow, RecvSome, RecvNone, TryRecv, TakeEventReceiver
  <2>2. CallStep(t) /\ pc'[t] = "ready"
    BY <2>1, ReturnSteps DEF Codes
  <2> QED
    BY <1>1, <1>2, <2>2, BatchesStay DEF SessionKeeps, SessionTypes, MutexStep, UnderTheMutex, IInv, TypeOK
<1> QED
  BY <1>3, <1>4

\* self.inner.lock() before the C call of a session function.
LEMMA LockingSteps ==
    ASSUME IInv, NEW t \in Threads, Enter(t) \/ Lock(t)
    PROVE  SessionKeeps(t)
<1>1. CASE Enter(t)
  <2>1. /\ pc[t] = "ready" /\ ~IsDone(t) /\ Call(t).op \in SharedOps /\ Goto(t, "lock")
        /\ UNCHANGED <<innerLock, sent, wire, flows, eventsTaken>>
    BY <1>1 DEF Enter, ReadyFor, Calling, sessionVars, lockVars, contextVars, channelVars
  <2>2. GoesOn(t) /\ pc'[t] = "lock"
    BY <2>1, GotoGoesOn DEF Steps, Goto, IInv, TypeOK
  <2>3. CallStep(t)
    BY <2>1, <2>2 DEF CallStep, UnderTheMutex
  <2> QED
    BY <2>1, <2>2, <2>3, BatchesStay DEF SessionKeeps, CallStep, SessionTypes, MutexStep, UnderTheMutex, IInv, TypeOK
<1>2. CASE Lock(t)
  <2> DEFINE step == LockedStep[Call(t).op]
  <2>1. /\ pc[t] = "lock" /\ ~IsDone(t) /\ Call(t).op \in SharedOps /\ innerLock = NoThread /\ innerLock' = t
        /\ Goto(t, step) /\ UNCHANGED <<sent, wire, flows, eventsTaken>>
    BY <1>2 DEF Lock, contextVars, channelVars, IInv, InACall
  <2>2. /\ step \in UnderTheMutex /\ step \in Steps /\ step # "lock"
        /\ step = "send" => Call(t).op \in {"publish", "publish_multiple"}
    BY <2>1 DEF LockedStep, SharedOps, UnderTheMutex, Steps
  <2> HIDE DEF step
  <2>3. GoesOn(t) /\ pc'[t] = step
    BY <2>1, <2>2, GotoGoesOn DEF Goto, IInv, TypeOK
  <2>4. CallStep(t)
    BY <2>1, <2>2, <2>3 DEF CallStep, UnderTheMutex
  <2> QED
    BY <2>1, <2>2, <2>3, <2>4, BatchesStay DEF SessionKeeps, CallStep, SessionTypes, MutexStep, UnderTheMutex, IInv, TypeOK
<1> QED
  BY <1>1, <1>2

\* Subscriptions and binds end under the mutex.
LEMMA SubscribeAndBindSteps ==
    ASSUME IInv, NEW t \in Threads, NEW raw, RefuseTopic(t) \/ SetSubscription(t, raw) \/ BindReturns(t, raw)
    PROVE  SessionKeeps(t)
<1>1. /\ UNCHANGED <<sent, wire, eventsTaken>> /\ innerLock' = NoThread /\ pc[t] \in UnderTheMutex \ {"send"}
      /\ flows' \in {flows, flows \cup {t}}
  BY DEF RefuseTopic, SetSubscription, BindReturns, contextVars, channelVars, UnderTheMutex
<1>2. Return(t, "InvalidArgsNulError") \/ ReturnFrom(t, raw)
  BY DEF RefuseTopic, SetSubscription, BindReturns
<1>3. CallStep(t) /\ pc'[t] = "ready"
  BY <1>2, ReturnSteps, ReturnFromSteps DEF Codes
<1> QED
  BY <1>1, <1>3, BatchesStay DEF SessionKeeps, SessionTypes, MutexStep, UnderTheMutex, IInv, TypeOK

\* How many messages a call has, and the next chunk of them.
LEMMA ChunksAreTyped ==
    ASSUME IInv, NEW t \in Threads, pc[t] = "send"
    PROVE  /\ Batch(t) \in Nat /\ sent[t] \in Nat
           /\ Call(t).op \in {"publish", "publish_multiple"} /\ at[t] \in Nat \ {0}
           /\ Batch(t) > 0 => ChunkSize(t) \in Nat \ {0} /\ sent[t] + ChunkSize(t) <= Batch(t)
<1>1. /\ ~IsDone(t) /\ Call(t).op \in {"publish", "publish_multiple"} /\ at[t] \in Nat \ {0}
      /\ sent[t] \in Nat /\ program \in Programs
  BY DEF IInv, TypeOK, InACall, UnderTheMutex
<1>2. at[t] \in DOMAIN program[t]
  BY <1>1, ProgramsAssumption DEF IsDone
<1>3. Batch(t) \in Nat
  BY <1>1, <1>2, SizesAssumption DEF Batch, Call
<1>4. sent[t] > 0 => sent[t] < Batch(t)
  BY DEF IInv, BatchesAdvance
<1>5. Batch(t) > 0 => ChunkSize(t) \in Nat \ {0} /\ sent[t] + ChunkSize(t) <= Batch(t)
  BY <1>1, <1>3, <1>4, ChunkAssumption DEF ChunkSize
<1> QED
  BY <1>1, <1>3, <1>5

\* The messages of a chunk go behind those that are on the wire.
LEMMA WritingMessages ==
    ASSUME IInv, NEW t \in Threads, pc[t] = "send", NEW n \in Nat, wire' = wire \o Messages(t, n)
    PROVE  /\ wire' \in Seq(Threads \X Nat \X Nat)
           /\ Len(wire) \in Nat /\ DOMAIN wire = 1 .. Len(wire)
           /\ Len(wire') = Len(wire) + n /\ DOMAIN wire' = 1 .. Len(wire) + n
           /\ \A i \in 1 .. Len(wire) : wire'[i] = wire[i]
           /\ \A k \in 1 .. n : wire'[Len(wire) + k] = <<t, at[t], sent[t] + k>>
<1> DEFINE chunk == Messages(t, n)
<1>1. at[t] \in Nat /\ sent[t] \in Nat
  BY ChunksAreTyped
<1>2. \A k \in 1 .. n : <<t, at[t], sent[t] + k>> \in Threads \X Nat \X Nat
  BY <1>1
<1>3. chunk \in [1 .. n -> Threads \X Nat \X Nat] /\ \A k \in 1 .. n : chunk[k] = <<t, at[t], sent[t] + k>>
  BY <1>2 DEF Messages
<1> HIDE DEF chunk
<1>4. chunk \in Seq(Threads \X Nat \X Nat) /\ Len(chunk) = n
  BY <1>3
<1>5. wire \in Seq(Threads \X Nat \X Nat) /\ Len(wire) \in Nat /\ DOMAIN wire = 1 .. Len(wire)
  BY LenProperties DEF IInv, TypeOK
<1>6. wire' = wire \o chunk
  BY DEF chunk
<1>7. /\ wire' \in Seq(Threads \X Nat \X Nat) /\ Len(wire') = Len(wire) + n
      /\ \A i \in 1 .. Len(wire) + n : wire'[i] = IF i <= Len(wire) THEN wire[i] ELSE chunk[i - Len(wire)]
  BY <1>4, <1>5, <1>6, ConcatProperties
<1>8. DOMAIN wire' = 1 .. Len(wire) + n
  BY <1>7, LenProperties
<1>9. \A i \in 1 .. Len(wire) : wire'[i] = wire[i]
  BY <1>5, <1>7
<1>10. \A k \in 1 .. n : wire'[Len(wire) + k] = chunk[k]
  <2> TAKE k \in 1 .. n
  <2>1. Len(wire) + k \in 1 .. Len(wire) + n /\ ~(Len(wire) + k <= Len(wire)) /\ (Len(wire) + k) - Len(wire) = k
    BY <1>5
  <2>2. wire'[Len(wire) + k] = chunk[(Len(wire) + k) - Len(wire)]
    BY <1>7, <2>1
  <2> QED
    BY <2>1, <2>2
<1> QED
  BY <1>3, <1>5, <1>7, <1>8, <1>9, <1>10

\* Chunks go out under the mutex; the last, or one that fails, gives it back.
LEMMA SendSteps ==
    ASSUME IInv, NEW t \in Threads, NEW raw, NEW n \in Nat,
           SendNothing(t) \/ SendChunk(t) \/ SendFails(t, raw, n)
    PROVE  SessionKeeps(t)
<1>1. pc[t] = "send" /\ UNCHANGED <<flows, eventsTaken>>
  BY DEF SendNothing, SendChunk, SendFails, contextVars, channelVars
<1>2. /\ Batch(t) \in Nat /\ sent[t] \in Nat /\ sent \in [Threads -> Nat]
      /\ Batch(t) > 0 => ChunkSize(t) \in Nat \ {0} /\ sent[t] + ChunkSize(t) <= Batch(t)
  BY <1>1, ChunksAreTyped DEF IInv, TypeOK
<1>3. wire' \in Seq(Threads \X Nat \X Nat)
  BY <1>1, <1>2, WritingMessages DEF SendNothing, SendChunk, SendFails, IInv, TypeOK
<1>4. CASE SendChunk(t) /\ sent[t] + ChunkSize(t) # Batch(t)
  <2>1. UNCHANGED <<innerLock, callVars>> /\ sent' = [sent EXCEPT ![t] = @ + ChunkSize(t)] /\ Batch(t) > 0
    BY <1>4 DEF SendChunk
  <2>2. sent' \in [Threads -> Nat] /\ sent'[t] < Batch(t) /\ \A u \in Threads \ {t} : sent'[u] = sent[u]
    BY <1>2, <1>4, <2>1
  <2>3. CallStep(t)
    <3>1. pc' = [pc EXCEPT ![t] = pc[t]] /\ pc[t] \in Steps
      BY <2>1 DEF callVars, IInv, TypeOK
    <3>2. GoesOn(t)
      BY <2>1, <3>1 DEF callVars, GoesOn
    <3> QED
      BY <1>1, <2>1, <3>2 DEF callVars, CallStep, IInv, InACall, UnderTheMutex
  <2>4. BatchesAdvance'
    BY <1>1, <2>1, <2>2 DEF callVars, IInv, BatchesAdvance, Batch, Call
  <2> QED
    BY <1>1, <1>3, <2>1, <2>2, <2>3, <2>4 DEF callVars, SessionKeeps, SessionTypes, MutexStep, IInv, TypeOK
<1>5. CASE ~(SendChunk(t) /\ sent[t] + ChunkSize(t) # Batch(t))
  <2>1. Return(t, "Ok") \/ ReturnFrom(t, raw) \/ ReturnFrom(t, RawCodes.Ok)
    BY <1>5 DEF SendNothing, SendFails, SendChunk
  <2>2. "Ok" \in Codes
    BY DEF Codes, RawCodes
  <2>3. CallStep(t) /\ pc'[t] = "ready"
    BY <2>1, <2>2, ReturnSteps, ReturnFromSteps
  <2>4. innerLock' = NoThread
    BY <1>5 DEF SendNothing, SendFails, SendChunk
  <2>5. sent' \in [Threads -> Nat] /\ sent'[t] = 0 /\ \A u \in Threads \ {t} : sent'[u] = sent[u]
    <3>1. CASE SendNothing(t)
      <4>1. Batch(t) = 0 /\ sent' = sent
        BY <3>1 DEF SendNothing
      <4>2. sent[t] = 0
        BY <1>2, <4>1 DEF IInv, BatchesAdvance
      <4> QED
        BY <1>2, <4>1, <4>2
    <3>2. CASE ~SendNothing(t)
      <4>1. sent' = [sent EXCEPT ![t] = 0]
        BY <1>5, <3>2 DEF SendFails, SendChunk
      <4> QED
        BY <1>2, <4>1
    <3> QED
      BY <3>1, <3>2
  <2>6. BatchesAdvance'
    <3>1. \A u \in Threads \ {t} : pc'[u] = pc[u] /\ Batch(u)' = Batch(u)
      BY <2>3, CallStepMoves DEF OnlyMoves, Batch, Call
    <3> QED
      BY <2>5, <3>1 DEF IInv, BatchesAdvance
  <2> QED
    BY <1>1, <1>3, <2>3, <2>4, <2>5, <2>6 DEF SessionKeeps, SessionTypes, MutexStep, UnderTheMutex, IInv, TypeOK
<1> QED
  BY <1>4, <1>5

LEMMA SessionStepKeeps ==
    ASSUME IInv, NEW t \in Threads, SessionStep(t)
    PROVE  SessionKeeps(t)
<1>1. CASE \/ RefuseQueueName(t) \/ BeginRecv(t) \/ BeginFlowRecv(t) \/ NoFlow(t)
           \/ RecvSome(t) \/ RecvNone(t) \/ TryRecv(t) \/ TakeEventReceiver(t)
  BY <1>1, UnlockedSteps
<1>2. CASE Enter(t) \/ Lock(t)
  BY <1>2, LockingSteps
<1>3. CASE RefuseTopic(t) \/ \E raw \in BindCodes : SetSubscription(t, raw) \/ BindReturns(t, raw)
  BY <1>3, SubscribeAndBindSteps
<1>4. CASE SendNothing(t) \/ SendChunk(t) \/ \E raw \in SendCodes, n \in 0 .. ChunkLimit : SendFails(t, raw, n)
  BY <1>4, SendSteps, ChunkAssumption
<1> QED
  BY <1>1, <1>2, <1>3, <1>4 DEF SessionStep

LEMMA SessionStepPreserves ==
    ASSUME IInv, NEW t \in Threads, SessionStep(t), UNCHANGED <<initVars, requestVars>>
    PROVE  IInv'
<1>1. SessionKeeps(t)
  BY SessionStepKeeps
<1>2. CallStep(t) /\ OnlyMoves(t) /\ MutexStep(t)
  BY <1>1, CallStepMoves DEF SessionKeeps
<1>3. UNCHANGED <<globalInit, initRaw, listening>>
  BY DEF initVars, requestVars
<1>4. TypeOK'
  BY <1>1, <1>2, <1>3, CallStepMoves, MutexStepKeepsTheMutex DEF SessionKeeps, SessionTypes, TypeOK, IInv
<1>5. program' \in Programs /\ MutexIsHeld'
  BY <1>2, CallStepMoves, MutexStepKeepsTheMutex DEF IInv
<1>6. InACall' /\ ResultsAreOfTheCalls'
  BY <1>2, <1>3, CallStepKeepsCalls
<1>7. InitialisedOnce' /\ OneConfigurationWins'
  BY <1>1, <1>2, InitialisationStays DEF SessionKeeps
<1> QED
  BY <1>1, <1>4, <1>5, <1>6, <1>7 DEF IInv, SessionKeeps

-----------------------------------------------------------------------------
(* Requests and replies (src/session.rs, examples/request_reply.rs).       *)

LEMMA RequestStepMoves ==
    ASSUME IInv, NEW t \in Threads, RequestStep(t)
    PROVE  CallStep(t) /\ pc'[t] \in {"ready", "request", "await", "reply"}
<1>1. \/ \E step \in {"request", "await", "reply"} : Goto(t, step)
      \/ \E code \in {"Ignored", "Panicked", "Replied"} : Return(t, code)
      \/ \E raw \in Int : ReturnFrom(t, raw)
  BY DEF RequestStep, SendRequest, RequestReturns, RequestFails, TakeRequest, Listen, PublishReply, EndResponder,
         RawCodes
<1>2. CASE \E step \in {"request", "await", "reply"} : Goto(t, step)
  BY <1>2, GotoSteps DEF Steps, UnderTheMutex
<1>3. CASE \E code \in {"Ignored", "Panicked", "Replied"} : Return(t, code)
  BY <1>3, ReturnSteps DEF Codes
<1>4. CASE \E raw \in Int : ReturnFrom(t, raw)
  BY <1>4, ReturnFromSteps
<1> QED
  BY <1>1, <1>2, <1>3, <1>4

LEMMA RequestStepPreserves ==
    ASSUME IInv, NEW t \in Threads, RequestStep(t), UNCHANGED <<initVars, sessionVars>>
    PROVE  IInv'
<1>1. UNCHANGED <<globalInit, initRaw, innerLock, sent, wire, flows, eventsTaken>>
  BY DEF initVars, sessionVars, lockVars, contextVars, channelVars
<1>2. pc[t] \in {"ready", "request", "await", "reply"} /\ listening' \in {listening, TRUE, FALSE}
  BY DEF RequestStep, SendRequest, RequestReturns, RequestFails, TakeRequest, Listen, PublishReply,
         EndResponder, requestVars, ReadyFor
<1>3. CallStep(t) /\ pc'[t] \in {"ready", "request", "await", "reply"}
  BY RequestStepMoves
<1>4. OnlyMoves(t) /\ MutexStep(t)
  BY <1>1, <1>2, <1>3, CallStepMoves DEF MutexStep, UnderTheMutex
<1>5. TypeOK'
  BY <1>1, <1>2, <1>3, CallStepMoves DEF TypeOK, IInv
<1>6. program' \in Programs /\ MutexIsHeld'
  BY <1>3, <1>4, CallStepMoves, MutexStepKeepsTheMutex DEF IInv
<1>7. InACall' /\ ResultsAreOfTheCalls'
  BY <1>1, <1>3, CallStepKeepsCalls
<1>8. InitialisedOnce' /\ OneConfigurationWins'
  BY <1>2, <1>3, InitialisationStays
<1>9. BatchesAdvance'
  BY <1>1, <1>2, <1>3, BatchesStay
<1> QED
  BY <1>5, <1>6, <1>7, <1>8, <1>9 DEF IInv

-----------------------------------------------------------------------------
(* Contexts (src/context.rs).                                              *)

LEMMA GlobalInitStepMoves ==
    ASSUME IInv, NEW t \in Threads, GlobalInitStep(t)
    PROVE  CallStep(t) /\ pc'[t] \in {"ready", "once", "initialize", "check"}
<1>1. Calling(t, "context")
  BY DEF GlobalInitStep, RefuseCrypto, EnterContext, BeginInit, Join, RefuseContext, EndInit, CreateContext,
         ReadyFor, IInv, InACall
<1>2. CASE \E step \in {"once", "initialize", "check"} : Goto(t, step)
  <2>1. GoesOn(t) /\ pc'[t] \in {"once", "initialize", "check"}
    BY <1>2, GotoGoesOn DEF Steps, Goto, IInv, TypeOK
  <2> QED
    BY <1>1, <2>1 DEF CallStep, UnderTheMutex
<1>3. CASE Return(t, "InvalidGlobalProperty")
  BY <1>3, ReturnSteps DEF Codes
<1>4. CASE \E raw \in Int : ReturnFrom(t, raw)
  BY <1>4, ReturnFromSteps
<1>5. CASE RefuseContext(t)
  BY <1>5, ReturnFromSteps DEF RefuseContext
<1> QED
  BY <1>2, <1>3, <1>4, <1>5
  DEF GlobalInitStep, RefuseCrypto, EnterContext, BeginInit, Join, EndInit, CreateContext, RawCodes

LEMMA GlobalInitStepPreserves ==
    ASSUME IInv, NEW t \in Threads, GlobalInitStep(t), UNCHANGED <<sessionVars, requestVars>>
    PROVE  IInv'
<1>1. UNCHANGED <<innerLock, sent, wire, flows, eventsTaken, listening>>
  BY DEF sessionVars, lockVars, contextVars, channelVars, requestVars
<1>2. /\ pc[t] \in {"ready", "once", "initialize", "check"}
      /\ globalInit' \in {"running", "set"} \cup {globalInit}
  BY DEF GlobalInitStep, RefuseCrypto, EnterContext, BeginInit, Join, RefuseContext, EndInit, CreateContext,
         ReadyFor, initVars
<1>3. CallStep(t) /\ pc'[t] \in {"ready", "once", "initialize", "check"}
  BY GlobalInitStepMoves
<1>4. UNCHANGED program /\ OnlyMoves(t) /\ MutexStep(t)
  BY <1>1, <1>2, <1>3, CallStepMoves DEF MutexStep, UnderTheMutex
<1>5. TypeOK'
  BY <1>1, <1>2, <1>3, CallStepMoves DEF TypeOK, IInv
<1>6. program' \in Programs /\ MutexIsHeld'
  BY <1>4, MutexStepKeepsTheMutex DEF IInv
<1>7. InACall' /\ ResultsAreOfTheCalls'
  BY <1>2, <1>3, CallStepKeepsCalls
<1>8. BatchesAdvance'
  BY <1>1, <1>2, <1>3, BatchesStay
<1>9. InitialisedOnce' /\ OneConfigurationWins'
  <2> USE <1>4 DEF OnlyMoves, IInv, InitialisedOnce, OneConfigurationWins, CallOf, Call
  <2>1. CASE RefuseCrypto(t)
    BY <2>1, <1>3, SMTT(30) DEF RefuseCrypto, Return, initVars, TypeOK
  <2>2. CASE BeginInit(t)
    BY <2>2 DEF BeginInit, Goto, TypeOK
  <2>3. CASE Join(t)
    BY <2>3 DEF Join, Goto, TypeOK
  <2>4. CASE RefuseContext(t)
    BY <2>4, <1>3, SMTT(30) DEF RefuseContext, ReturnFrom, Return, initVars, TypeOK
  <2>5. ASSUME NEW raw \in {RawCodes.Ok, RawCodes.Fail}, EndInit(t, raw)
        PROVE  InitialisedOnce' /\ OneConfigurationWins'
    <3>1. library = <<>> /\ contexts = {} /\ globalInit = "running"
      BY <2>5 DEF EndInit
    <3>2. library' = <<Call(t).crypto>> /\ Len(library') = 1 /\ at'[t] = at[t]
      BY <2>5, <3>1 DEF EndInit, Goto
    <3> QED
      BY <2>5, <3>1, <3>2 DEF EndInit, Goto, TypeOK
  <2>7. CASE EnterContext(t)
    BY <2>7 DEF EnterContext, Goto, initVars, TypeOK
  <2>6. ASSUME NEW raw \in {RawCodes.Ok, RawCodes.Fail}, CreateContext(t, raw)
        PROVE  InitialisedOnce' /\ OneConfigurationWins'
    <3>1. initRaw = RawCodes.Ok /\ globalInit = "set" /\ pc'[t] = "ready"
      BY <2>6, FromRawFindsAName DEF CreateContext, IsOk, ReturnFrom, Return, TypeOK
    <3>2. UNCHANGED <<globalInit, initRaw, library, warned>> /\ contexts' \subseteq contexts \cup {<<t, at[t]>>}
      BY <2>6 DEF CreateContext
    <3> QED
      BY <2>6, <3>1, <3>2 DEF CreateContext
  <2> QED
    BY <2>1, <2>2, <2>3, <2>4, <2>5, <2>6, <2>7 DEF GlobalInitStep
<1> QED
  BY <1>5, <1>6, <1>7, <1>8, <1>9 DEF IInv

-----------------------------------------------------------------------------
(* What is no step of an application thread.                               *)

LEMMA OthersLeaveTheCalls ==
    ASSUME ContextThread \/ Environment
    PROVE  /\ UNCHANGED <<callVars, initVars, innerLock, sent, wire, flows, eventsTaken>>
           /\ listening' = listening
BY DEF ContextThread, ContextStep, HandleInbound, Drain, Take, BrokerAnswersBind, Environment, Arrival, Arrives,
       RequestNetwork, StrayArrives, LateReply, callVars, initVars, sessionVars, lockVars, contextVars,
       channelVars, requestVars

LEMMA QuietPreserves ==
    ASSUME IInv, UNCHANGED <<callVars, initVars, innerLock, sent, wire, flows, eventsTaken, listening>>
    PROVE  IInv'
<1> USE DEF IInv, callVars, initVars
<1>1. TypeOK' /\ program' \in Programs
  BY DEF TypeOK
<1>2. MutexIsHeld' /\ InACall' /\ BatchesAdvance'
  BY DEF MutexIsHeld, InACall, BatchesAdvance, Calling, IsDone, Call, Batch
<1>3. InitialisedOnce' /\ OneConfigurationWins' /\ ResultsAreOfTheCalls'
  BY DEF InitialisedOnce, OneConfigurationWins, ResultsAreOfTheCalls, Call, CallOf
<1> QED
  BY <1>1, <1>2, <1>3

LEMMA InitEstablishes == Init => IInv
<1> SUFFICES ASSUME Init PROVE IInv
  OBVIOUS
<1> USE ThreadsAssumption DEF Init, CallsInit, GlobalInitInit, SessionCallsInit, RequestReplyInit
<1>1. TypeOK
  <2>1. at \in [Threads -> Nat \ {0}] /\ pc \in [Threads -> Steps]
    BY DEF Steps
  <2>2. results \in [Threads -> Seq(Codes)]
    <3>1. <<>> \in Seq(Codes)
      OBVIOUS
    <3> QED
      BY <3>1
  <2>3. sent \in [Threads -> Nat] /\ wire \in Seq(Threads \X Nat \X Nat) /\ flows \subseteq Threads
    OBVIOUS
  <2>4. globalInit \in {"empty", "running", "set"} /\ innerLock \in Threads \cup {NoThread}
    OBVIOUS
  <2>5. {eventsTaken, listening} \subseteq BOOLEAN
    OBVIOUS
  <2> QED
    BY <2>1, <2>2, <2>3, <2>4, <2>5 DEF TypeOK
<1>2. MutexIsHeld /\ InACall /\ BatchesAdvance
  BY DEF MutexIsHeld, InACall, BatchesAdvance, UnderTheMutex
<1>3. InitialisedOnce /\ OneConfigurationWins
  BY DEF InitialisedOnce, OneConfigurationWins
<1>4. ResultsAreOfTheCalls
  BY DEF ResultsAreOfTheCalls
<1> QED
  BY <1>1, <1>2, <1>3, <1>4 DEF IInv

\* IInv is an invariant of whatever the threads call (src/context.rs, src/async_support.rs,
\* src/session.rs).
THEOREM Invariance == Spec => []IInv
<1>1. ASSUME IInv, [Next]_vars
      PROVE  IInv'
  <2>1. ASSUME NEW t \in Threads, ThreadStep(t)
        PROVE  IInv'
    BY <1>1, <2>1, GlobalInitStepPreserves, SessionStepPreserves, RequestStepPreserves DEF ThreadStep
  <2>2. CASE ContextThread \/ Environment
    BY <1>1, <2>2, OthersLeaveTheCalls, QuietPreserves
  <2>3. CASE Quiet \/ UNCHANGED vars
    BY <1>1, <2>3, QuietPreserves
    DEF Quiet, vars, sessionVars, lockVars, contextVars, channelVars, requestVars
  <2> QED
    BY <1>1, <2>1, <2>2, <2>3 DEF Next
<1> QED
  BY InitEstablishes, <1>1, PTL DEF Spec

\* Every variable keeps its type.
THEOREM TypeCorrect == Spec => []TypeOK
BY Invariance, PTL DEF IInv

OneAtATime == \A t, u \in Threads : {pc[t], pc[u]} \subseteq UnderTheMutex => t = u

\* The session mutex excludes: two threads are never in C calls of the session at once
\* (async_support.rs, self.inner.lock()).
THEOREM MutualExclusion == Spec => []OneAtATime
<1>1. IInv => OneAtATime
  BY DEF IInv, MutexIsHeld, OneAtATime
<1> QED
  BY <1>1, Invariance, PTL

\* However many threads create contexts, and in whatever order: one initialisation, and no
\* configuration is dropped without a word (context.rs:198-201).
THEOREM ConfigurationIsDecidedOnce == Spec => []OneConfigurationWins
BY Invariance, PTL DEF IInv

-----------------------------------------------------------------------------
(* Batches (src/session.rs:66-109).                                        *)

PublishOps == {"publish", "publish_multiple"}

\* A call that publishes is on its way to the mutex, or sends.
PublishesAreSent ==
    \A t \in Threads : pc[t] \notin {"ready", "lock", "send"} => Call(t).op \notin PublishOps

\* What a call has sent of its batch is the end of the wire.
WireEndsInTheBatch ==
    \A t \in Threads : sent[t] > 0 => Len(wire) > 0 /\ wire[Len(wire)] = <<t, at[t], sent[t]>>

\* Messages are of calls that were made; those of a call that is going on were counted.
WireIsOfTheCalls ==
    \A i \in DOMAIN wire, t \in Threads :
        wire[i][1] = t => wire[i][2] <= at[t] /\ (wire[i][2] = at[t] => sent[t] > 0)

\* A message begins the batch of a call that has nothing on the wire, or is next to its
\* predecessor.
InPlace(i) ==
    \/ wire[i][3] = 1 /\ \A j \in 1 .. i - 1 : <<wire[j][1], wire[j][2]>> # <<wire[i][1], wire[i][2]>>
    \/ wire[i] = <<wire[i - 1][1], wire[i - 1][2], wire[i - 1][3] + 1>>

AllInPlace ==
    /\ \A i \in DOMAIN wire \ {1} : InPlace(i)
    /\ Len(wire) > 0 => wire[1][3] = 1

SizeOf(t, i) == IF program[t][i].op = "publish" THEN 1 ELSE program[t][i].size

\* A call that returned Ok has its last message on the wire.
WholeBatches ==
    \A t \in Threads : \A i \in DOMAIN results[t] :
        program[t][i].op \in PublishOps /\ results[t][i] = "Ok" /\ SizeOf(t, i) > 0 =>
            \E j \in DOMAIN wire : wire[j] = <<t, i, SizeOf(t, i)>>

BatchInv ==
    /\ PublishesAreSent
    /\ WireEndsInTheBatch
    /\ WireIsOfTheCalls
    /\ AllInPlace
    /\ WholeBatches

\* From "ready" a publish goes to the mutex, and nothing else happens at "lock".
LEMMA PublishersLock ==
    ASSUME NEW t \in Threads, ThreadStep(t)
    PROVE  /\ pc[t] = "ready" /\ Call(t).op \in PublishOps => Enter(t)
           /\ pc[t] = "lock" => Lock(t)
BY DEF PublishOps, ThreadStep, GlobalInitStep, SessionStep, RequestStep, RefuseCrypto, EnterContext, BeginInit, Join, RefuseContext,
       EndInit, CreateContext, RefuseQueueName, SendNothing, SendChunk, SendFails, RefuseTopic, SetSubscription,
       BindReturns, BeginRecv, BeginFlowRecv, NoFlow, RecvSome, RecvNone, TryRecv, TakeEventReceiver, SendRequest,
       RequestReturns, RequestFails, TakeRequest, Listen, PublishReply, Enter, Lock, ReadyFor, Calling

LEMMA ThreadStepMoves ==
    ASSUME IInv, NEW t \in Threads, ThreadStep(t)
    PROVE  CallStep(t)
BY GlobalInitStepMoves, SessionStepKeeps, RequestStepMoves DEF ThreadStep, SessionKeeps

\* What a thread does elsewhere than at "send" writes nothing, and ends no publish.
LEMMA OthersDoNotPublish ==
    ASSUME IInv, PublishesAreSent, NEW t \in Threads, ThreadStep(t), pc[t] # "send"
    PROVE  /\ PublishesAreSent' /\ UNCHANGED <<wire, sent>>
           /\ ~GoesOn(t) => Call(t).op \notin PublishOps
<1>1. CallStep(t) /\ UNCHANGED program /\ OnlyMoves(t)
  BY ThreadStepMoves, CallStepMoves
<1>2. UNCHANGED <<wire, sent>>
  BY DEF ThreadStep, SessionStep, RefuseQueueName, Enter, Lock, SendNothing, SendChunk, SendFails, RefuseTopic,
         SetSubscription, BindReturns, BeginRecv, BeginFlowRecv, NoFlow, RecvSome, RecvNone, TryRecv,
         TakeEventReceiver, sessionVars, lockVars
<1>3. ASSUME Call(t).op \in PublishOps
      PROVE  GoesOn(t) /\ pc'[t] \in {"ready", "lock", "send"}
  <2>1. CASE pc[t] = "ready"
    <3>1. Goto(t, "lock")
      BY <1>3, <2>1, PublishersLock DEF Enter
    <3> QED
      BY <3>1, GotoGoesOn DEF Steps, Goto, IInv, TypeOK
  <2>2. CASE pc[t] = "lock"
    <3>1. Goto(t, "send")
      BY <1>3, <2>2, PublishersLock DEF Lock, LockedStep, PublishOps
    <3> QED
      BY <3>1, GotoGoesOn DEF Steps, Goto, IInv, TypeOK
  <2> QED
    BY <1>3, <2>1, <2>2 DEF PublishesAreSent
<1>4. PublishesAreSent'
  <2>1. \A u \in Threads \ {t} : pc'[u] = pc[u] /\ Call(u)' = Call(u)
    BY <1>1 DEF OnlyMoves, Call
  <2>2. pc'[t] \notin {"ready", "lock", "send"} => GoesOn(t) /\ Call(t)' = Call(t)
    BY <1>1 DEF CallStep, EndsWith, GoesOn, Call, IInv, TypeOK
  <2> QED
    BY <1>3, <2>1, <2>2 DEF PublishesAreSent
<1> QED
  BY <1>2, <1>3, <1>4

\* A thread that writes nothing may end a call, but none that publishes.
LEMMA OthersKeepBatches ==
    ASSUME IInv, BatchInv, NEW t \in Threads, ThreadStep(t), pc[t] # "send"
    PROVE  BatchInv'
<1>1. PublishesAreSent' /\ UNCHANGED <<wire, sent>> /\ (~GoesOn(t) => Call(t).op \notin PublishOps)
  BY OthersDoNotPublish DEF BatchInv
<1>2. CallStep(t) /\ UNCHANGED program /\ OnlyMoves(t)
  BY ThreadStepMoves, CallStepMoves
<1>3. sent[t] = 0 /\ at \in [Threads -> Nat \ {0}] /\ at'[t] \in {at[t], at[t] + 1}
  BY <1>2 DEF IInv, TypeOK, BatchesAdvance, CallStep, GoesOn, EndsWith
<1>4. WireEndsInTheBatch'
  BY <1>1, <1>2, <1>3 DEF BatchInv, WireEndsInTheBatch, OnlyMoves
<1>5. WireIsOfTheCalls'
  <2>1. \A i \in DOMAIN wire : wire[i] \in Threads \X Nat \X Nat
    BY ElementOfSeq, LenProperties DEF IInv, TypeOK
  <2>2. \A i \in DOMAIN wire : wire[i][2] \in Nat
    BY <2>1
  <2> QED
    BY <1>1, <1>2, <1>3, <2>2 DEF BatchInv, WireIsOfTheCalls, OnlyMoves
<1>6. AllInPlace'
  BY <1>1 DEF BatchInv, AllInPlace, InPlace
<1>7. WholeBatches'
  <2> SUFFICES ASSUME NEW u \in Threads, NEW i \in DOMAIN results'[u], program[u][i].op \in PublishOps,
                      results'[u][i] = "Ok", SizeOf(u, i) > 0
               PROVE  \E j \in DOMAIN wire : wire[j] = <<u, i, SizeOf(u, i)>>
    BY <1>1, <1>2 DEF WholeBatches, SizeOf
  <2>1. CASE u # t \/ GoesOn(t)
    <3>1. results'[u] = results[u]
      BY <1>2, <2>1 DEF OnlyMoves, GoesOn
    <3> QED
      BY <3>1 DEF BatchInv, WholeBatches
  <2>2. CASE u = t /\ ~GoesOn(t)
    <3>1. PICK result \in Codes : EndsWith(t, result)
      BY <1>2, <2>2 DEF CallStep
    <3>2. results[t] \in Seq(Codes) /\ Len(results[t]) = at[t] - 1 /\ at[t] \in Nat
      BY <1>3 DEF IInv, TypeOK, ResultsAreOfTheCalls
    <3>3. results'[t] = Append(results[t], result)
      BY <3>1, <3>2 DEF EndsWith, IInv, TypeOK
    <3>4. /\ DOMAIN results'[t] = 1 .. at[t] /\ DOMAIN results[t] = 1 .. at[t] - 1
          /\ \A k \in 1 .. at[t] - 1 : results'[t][k] = results[t][k]
      BY <3>2, <3>3
    <3>5. i # at[t]
      BY <1>1, <2>2 DEF Call
    <3>6. i \in DOMAIN results[t] /\ results'[t][i] = results[t][i]
      BY <2>2, <3>2, <3>4, <3>5
    <3> QED
      BY <2>2, <3>6 DEF BatchInv, WholeBatches
  <2> QED
    BY <2>1, <2>2
<1> QED
  BY <1>1, <1>4, <1>5, <1>6, <1>7 DEF BatchInv

\* The messages of a chunk take their places: they begin the batch, or go on where it ended.
LEMMA ChunksTakeTheirPlaces ==
    ASSUME IInv, BatchInv, NEW t \in Threads, pc[t] = "send", NEW n \in Nat, wire' = wire \o Messages(t, n)
    PROVE  AllInPlace'
<1>1. /\ Len(wire) \in Nat /\ DOMAIN wire = 1 .. Len(wire)
      /\ Len(wire') = Len(wire) + n /\ DOMAIN wire' = 1 .. Len(wire) + n
      /\ \A i \in 1 .. Len(wire) : wire'[i] = wire[i]
      /\ \A k \in 1 .. n : wire'[Len(wire) + k] = <<t, at[t], sent[t] + k>>
  BY WritingMessages
<1>2. sent[t] \in Nat
  BY ChunksAreTyped
<1>3. ASSUME sent[t] > 0
      PROVE  Len(wire) > 0 /\ wire[Len(wire)] = <<t, at[t], sent[t]>>
  BY <1>3 DEF BatchInv, WireEndsInTheBatch
<1>4. ASSUME sent[t] = 0, NEW j \in 1 .. Len(wire)
      PROVE  <<wire[j][1], wire[j][2]>> # <<t, at[t]>>
  BY <1>1, <1>4 DEF BatchInv, WireIsOfTheCalls
<1>5. ASSUME NEW i \in DOMAIN wire' \ {1}
      PROVE  InPlace(i)'
  <2>1. CASE i \in 1 .. Len(wire)
    <3>1. i - 1 \in 1 .. Len(wire) /\ \A j \in 1 .. i - 1 : j \in 1 .. Len(wire)
      BY <1>1, <1>5, <2>1
    <3>2. wire'[i] = wire[i] /\ wire'[i - 1] = wire[i - 1] /\ \A j \in 1 .. i - 1 : wire'[j] = wire[j]
      BY <1>1, <2>1, <3>1
    <3>3. InPlace(i)
      BY <1>1, <1>5, <2>1 DEF BatchInv, AllInPlace
    <3> QED
      BY <3>2, <3>3 DEF InPlace
  <2>2. CASE i = Len(wire) + 1 /\ sent[t] > 0
    <3>1. wire'[i] = <<t, at[t], sent[t] + 1>> /\ i - 1 = Len(wire) /\ wire'[i - 1] = <<t, at[t], sent[t]>>
      BY <1>1, <1>3, <1>5, <2>2
    <3> QED
      BY <3>1 DEF InPlace
  <2>3. CASE i = Len(wire) + 1 /\ sent[t] = 0
    <3>1. wire'[i] = <<t, at[t], 1>> /\ i - 1 = Len(wire)
      BY <1>1, <1>2, <1>5, <2>3
    <3>2. \A j \in 1 .. i - 1 : <<wire'[j][1], wire'[j][2]>> # <<t, at[t]>>
      BY <1>1, <1>4, <2>3, <3>1
    <3> QED
      BY <3>1, <3>2 DEF InPlace
  <2>4. CASE i > Len(wire) + 1
    <3>1. PICK k \in 1 .. n - 1 : i = Len(wire) + (k + 1)
      <4>1. i - Len(wire) - 1 \in 1 .. n - 1 /\ i = Len(wire) + ((i - Len(wire) - 1) + 1)
        BY <1>1, <1>5, <2>4
      <4> QED
        BY <4>1
    <3>2. k \in 1 .. n /\ k + 1 \in 1 .. n /\ i - 1 = Len(wire) + k
      BY <1>1, <3>1
    <3>3. wire'[i] = <<t, at[t], sent[t] + (k + 1)>> /\ wire'[i - 1] = <<t, at[t], sent[t] + k>>
      BY <1>1, <3>1, <3>2
    <3>4. sent[t] + (k + 1) = (sent[t] + k) + 1
      <4>1. \A a, b \in Nat : a + (b + 1) = (a + b) + 1
        OBVIOUS
      <4>2. k \in Nat
        BY <3>2
      <4> QED
        BY <1>2, <4>1, <4>2
    <3> QED
      BY <3>3, <3>4 DEF InPlace
  <2> QED
    BY <1>1, <1>2, <1>5, <2>1, <2>2, <2>3, <2>4
<1>6. ASSUME Len(wire') > 0
      PROVE  wire'[1][3] = 1
  <2>1. CASE Len(wire) > 0
    BY <1>1, <2>1 DEF BatchInv, AllInPlace
  <2>2. CASE Len(wire) = 0
    <3>1. sent[t] = 0 /\ 1 \in 1 .. n
      BY <1>1, <1>2, <1>3, <1>6, <2>2
    <3>2. wire'[1] = <<t, at[t], 1>>
      BY <1>1, <2>2, <3>1
    <3> QED
      BY <3>2
  <2>3. Len(wire) > 0 \/ Len(wire) = 0
    BY <1>1
  <2> QED
    BY <2>1, <2>2, <2>3
<1> QED
  BY <1>5, <1>6 DEF AllInPlace

\* What a step at "send" writes, and when the call goes on or ends with it.
LEMMA SendOutcomes ==
    ASSUME IInv, NEW t \in Threads, ThreadStep(t), pc[t] = "send"
    PROVE  \E n \in Nat :
              /\ wire' = wire \o Messages(t, n)
              /\ \/ n > 0 /\ sent' = [sent EXCEPT ![t] = @ + n] /\ UNCHANGED callVars
                 \/ /\ sent' = [sent EXCEPT ![t] = 0]
                    /\ \E result \in Codes :
                          /\ EndsWith(t, result)
                          /\ result = "Ok" /\ Batch(t) > 0 => n > 0 /\ sent[t] + n = Batch(t)
<1>1. SendNothing(t) \/ SendChunk(t) \/ \E raw \in SendCodes, n \in 0 .. ChunkLimit : SendFails(t, raw, n)
  BY DEF ThreadStep, GlobalInitStep, SessionStep, RequestStep, RefuseCrypto, EnterContext, BeginInit, Join, RefuseContext,
         EndInit, CreateContext, RefuseQueueName, RefuseTopic, SetSubscription, BindReturns, BeginRecv, BeginFlowRecv,
         NoFlow, RecvSome, RecvNone, TryRecv, TakeEventReceiver, SendRequest, RequestReturns, RequestFails,
         TakeRequest, Listen, PublishReply, Enter, Lock, ReadyFor, Calling
<1>2. /\ Batch(t) \in Nat /\ sent[t] \in Nat /\ sent \in [Threads -> Nat] /\ TypeOK
      /\ Batch(t) > 0 => ChunkSize(t) \in Nat \ {0} /\ sent[t] + ChunkSize(t) <= Batch(t)
      /\ sent[t] > 0 => sent[t] < Batch(t)
  BY ChunksAreTyped DEF IInv, TypeOK, BatchesAdvance
<1>3. CASE SendNothing(t)
  <2>1. Messages(t, 0) = <<>> /\ wire \in Seq(Threads \X Nat \X Nat)
    BY <1>2 DEF Messages, TypeOK
  <2>2. wire' = wire \o Messages(t, 0)
    BY <1>3, <2>1 DEF SendNothing
  <2>3. Batch(t) = 0 /\ sent' = sent /\ Return(t, "Ok")
    BY <1>3 DEF SendNothing
  <2>4. sent' = [sent EXCEPT ![t] = 0]
    BY <1>2, <2>3
  <2>5. "Ok" \in Codes
    BY DEF Codes, RawCodes
  <2>6. EndsWith(t, "Ok")
    BY <2>3 DEF Return, EndsWith
  <2>7. 0 \in Nat /\ ~(Batch(t) > 0)
    BY <2>3
  <2> QED
    BY <2>2, <2>4, <2>5, <2>6, <2>7
<1>4. CASE SendChunk(t)
  <2>1. wire' = wire \o Messages(t, ChunkSize(t)) /\ ChunkSize(t) \in Nat \ {0}
    BY <1>2, <1>4 DEF SendChunk
  <2>2. CASE sent[t] + ChunkSize(t) = Batch(t)
    <3>1. sent' = [sent EXCEPT ![t] = 0] /\ ReturnFrom(t, RawCodes.Ok)
      BY <1>4, <2>2 DEF SendChunk
    <3>2. PICK result \in Codes : EndsWith(t, result)
      BY <1>2, <3>1, ReturnFromEnds
    <3>3. ChunkSize(t) \in Nat /\ ChunkSize(t) > 0
      BY <2>1
    <3> QED
      BY <2>1, <2>2, <3>1, <3>2, <3>3
  <2>3. CASE sent[t] + ChunkSize(t) # Batch(t)
    <3>1. sent' = [sent EXCEPT ![t] = @ + ChunkSize(t)] /\ UNCHANGED callVars
      BY <1>4, <2>3 DEF SendChunk
    <3>2. ChunkSize(t) \in Nat /\ ChunkSize(t) > 0
      BY <2>1
    <3> QED
      BY <2>1, <3>1, <3>2
  <2> QED
    BY <2>2, <2>3
<1>5. ASSUME NEW raw \in SendCodes, NEW n \in 0 .. ChunkLimit, SendFails(t, raw, n)
      PROVE  /\ wire' = wire \o Messages(t, n) /\ n \in Nat /\ sent' = [sent EXCEPT ![t] = 0]
             /\ \E result \in Codes : EndsWith(t, result) /\ result # "Ok"
  <2>1. wire' = wire \o Messages(t, n) /\ n \in Nat /\ sent' = [sent EXCEPT ![t] = 0] /\ ReturnFrom(t, raw)
    BY <1>5, ChunkAssumption DEF SendFails
  <2>2. FromRaw(raw) # "Ok"
    BY NamesOfCodes DEF SendCodes
  <2>3. PICK result \in Codes : EndsWith(t, result) /\ result = FromRaw(raw)
    BY <1>2, <2>1, ReturnFromEnds
  <2> QED
    BY <2>1, <2>2, <2>3
<1> QED
  BY <1>1, <1>3, <1>4, <1>5

\* A chunk leaves every batch whole or in progress.
LEMMA SendKeepsBatches ==
    ASSUME IInv, BatchInv, NEW t \in Threads, ThreadStep(t), pc[t] = "send"
    PROVE  BatchInv'
<1>1. PICK n \in Nat :
         /\ wire' = wire \o Messages(t, n)
         /\ \/ n > 0 /\ sent' = [sent EXCEPT ![t] = @ + n] /\ UNCHANGED callVars
            \/ /\ sent' = [sent EXCEPT ![t] = 0]
               /\ \E result \in Codes :
                     /\ EndsWith(t, result)
                     /\ result = "Ok" /\ Batch(t) > 0 => n > 0 /\ sent[t] + n = Batch(t)
  BY SendOutcomes
<1> DEFINE GoOn == n > 0 /\ sent' = [sent EXCEPT ![t] = @ + n] /\ UNCHANGED callVars
           End(result) == /\ sent' = [sent EXCEPT ![t] = 0] /\ EndsWith(t, result)
                          /\ result = "Ok" /\ Batch(t) > 0 => n > 0 /\ sent[t] + n = Batch(t)
<1>2. /\ Len(wire) \in Nat /\ DOMAIN wire = 1 .. Len(wire)
      /\ Len(wire') = Len(wire) + n /\ DOMAIN wire' = 1 .. Len(wire) + n
      /\ \A i \in 1 .. Len(wire) : wire'[i] = wire[i]
      /\ \A k \in 1 .. n : wire'[Len(wire) + k] = <<t, at[t], sent[t] + k>>
  BY <1>1, WritingMessages
<1>3. /\ sent[t] \in Nat /\ sent \in [Threads -> Nat] /\ at \in [Threads -> Nat \ {0}] /\ pc \in [Threads -> Steps]
      /\ Batch(t) \in Nat
  BY ChunksAreTyped DEF IInv, TypeOK
<1>4. CallStep(t) /\ UNCHANGED program /\ OnlyMoves(t)
  BY ThreadStepMoves, CallStepMoves
<1>5. GoOn \/ \E result \in Codes : End(result)
  BY <1>1
<1>6. \A u \in Threads \ {t} : sent'[u] = 0
  <2>1. \A u \in Threads \ {t} : sent[u] = 0
    BY <1>3 DEF IInv, MutexIsHeld, BatchesAdvance, UnderTheMutex
  <2> QED
    BY <1>3, <1>5, <2>1
<1>7. AllInPlace'
  BY <1>1, ChunksTakeTheirPlaces
<1>8. PublishesAreSent'
  <2>1. \A u \in Threads \ {t} : pc'[u] = pc[u] /\ Call(u)' = Call(u)
    BY <1>4 DEF OnlyMoves, Call
  <2>2. pc'[t] \in {"ready", "send"}
    BY <1>3, <1>5 DEF callVars, EndsWith
  <2> QED
    BY <2>1, <2>2 DEF BatchInv, PublishesAreSent
<1>9. WireEndsInTheBatch'
  <2>1. CASE GoOn
    <3>1. sent'[t] = sent[t] + n /\ at'[t] = at[t] /\ n \in 1 .. n
      BY <1>3, <2>1 DEF callVars
    <3>2. wire'[Len(wire')] = <<t, at'[t], sent'[t]>> /\ Len(wire') > 0
      BY <1>2, <2>1, <3>1
    <3> QED
      BY <1>6, <3>2 DEF WireEndsInTheBatch
  <2>2. CASE \E result \in Codes : End(result)
    <3>1. sent'[t] = 0
      BY <1>3, <2>2
    <3> QED
      BY <1>6, <3>1 DEF WireEndsInTheBatch
  <2> QED
    BY <1>5, <2>1, <2>2
<1>10. /\ at'[t] \in Nat /\ at'[t] >= at[t] /\ (at'[t] = at[t] => sent'[t] > 0)
       /\ \A u \in Threads \ {t} : at'[u] = at[u] /\ sent'[u] = sent[u]
  <2>1. \A u \in Threads \ {t} : at'[u] = at[u] /\ sent'[u] = sent[u]
    BY <1>3, <1>4, <1>5 DEF OnlyMoves
  <2>2. CASE GoOn
    <3>1. at'[t] = at[t] /\ sent'[t] = sent[t] + n /\ sent[t] + n > 0
      BY <1>3, <2>2 DEF callVars
    <3> QED
      BY <1>3, <2>1, <3>1
  <2>3. CASE \E result \in Codes : End(result)
    <3>1. at'[t] = at[t] + 1
      BY <1>3, <2>3 DEF EndsWith
    <3> QED
      BY <1>3, <2>1, <3>1
  <2> QED
    BY <1>5, <2>2, <2>3
<1>11. WireIsOfTheCalls'
  <2> SUFFICES ASSUME NEW i \in DOMAIN wire', NEW u \in Threads, wire'[i][1] = u
               PROVE  wire'[i][2] <= at'[u] /\ (wire'[i][2] = at'[u] => sent'[u] > 0)
    BY DEF WireIsOfTheCalls
  <2>1. CASE i \in 1 .. Len(wire)
    <3>1. wire'[i] = wire[i] /\ wire[i] \in Threads \X Nat \X Nat
      BY <1>2, <2>1, ElementOfSeq DEF IInv, TypeOK
    <3>2. wire[i][2] \in Nat
      BY <3>1
    <3>3. wire[i][2] <= at[u] /\ (wire[i][2] = at[u] => sent[u] > 0)
      BY <1>2, <2>1, <3>1 DEF BatchInv, WireIsOfTheCalls
    <3>4. CASE u = t
      <4>1. wire[i][2] <= at'[t] /\ (wire[i][2] = at'[t] => at'[t] = at[t])
        BY <1>3, <1>10, <3>2, <3>3, <3>4
      <4> QED
        BY <1>10, <3>1, <3>4, <4>1
    <3>5. CASE u # t
      BY <1>10, <3>1, <3>3, <3>5
    <3> QED
      BY <3>4, <3>5
  <2>2. CASE i \notin 1 .. Len(wire)
    <3>1. PICK k \in 1 .. n : i = Len(wire) + k
      <4>1. i - Len(wire) \in 1 .. n /\ i = Len(wire) + (i - Len(wire))
        BY <1>2, <2>2
      <4> QED
        BY <4>1
    <3>2. wire'[i] = <<t, at[t], sent[t] + k>>
      BY <1>2, <3>1
    <3>3. u = t /\ wire'[i][2] = at[t]
      BY <3>2
    <3>4. at[t] <= at'[t] /\ (at[t] = at'[t] => sent'[t] > 0)
      BY <1>3, <1>10
    <3> QED
      BY <3>3, <3>4
  <2> QED
    BY <2>1, <2>2
<1>12. WholeBatches'
  <2> SUFFICES ASSUME NEW u \in Threads, NEW i \in DOMAIN results'[u], program[u][i].op \in PublishOps,
                      results'[u][i] = "Ok", SizeOf(u, i) > 0
               PROVE  \E j \in DOMAIN wire' : wire'[j] = <<u, i, SizeOf(u, i)>>
    BY <1>4 DEF WholeBatches, SizeOf
  <2>1. CASE i \in DOMAIN results[u] /\ results'[u][i] = results[u][i]
    <3>1. PICK j \in DOMAIN wire : wire[j] = <<u, i, SizeOf(u, i)>>
      BY <2>1 DEF BatchInv, WholeBatches
    <3>2. j \in DOMAIN wire' /\ wire'[j] = wire[j]
      BY <1>2
    <3> QED
      BY <3>1, <3>2
  <2>2. CASE ~(i \in DOMAIN results[u] /\ results'[u][i] = results[u][i])
    <3>1. u = t /\ ~GoOn
      BY <1>4, <2>2 DEF OnlyMoves, callVars
    <3>2. PICK result \in Codes : End(result)
      BY <1>5, <3>1
    <3>3. results[t] \in Seq(Codes) /\ Len(results[t]) = at[t] - 1 /\ at[t] \in Nat
      BY <1>3 DEF IInv, TypeOK, ResultsAreOfTheCalls
    <3>4. results'[t] = Append(results[t], result)
      BY <3>2, <3>3 DEF EndsWith, IInv, TypeOK
    <3>5. /\ DOMAIN results'[t] = 1 .. at[t] /\ DOMAIN results[t] = 1 .. at[t] - 1
          /\ \A k \in 1 .. at[t] - 1 : results'[t][k] = results[t][k]
          /\ results'[t][at[t]] = result
      BY <3>3, <3>4
    <3>6. i = at[t]
      <4>1. i \in 1 .. at[t]
        BY <3>1, <3>5
      <4>2. i \notin 1 .. at[t] - 1
        BY <2>2, <3>1, <3>5
      <4> QED
        BY <3>3, <4>1, <4>2
    <3>7. Batch(t) = SizeOf(u, i)
      BY <3>1, <3>6 DEF Batch, SizeOf, Call
    <3>8. n > 0 /\ sent[t] + n = Batch(t)
      BY <3>1, <3>2, <3>5, <3>6, <3>7
    <3>9. n \in 1 .. n /\ Len(wire) + n \in 1 .. Len(wire) + n
      BY <1>2, <3>8
    <3>10. Len(wire) + n \in DOMAIN wire' /\ wire'[Len(wire) + n] = <<u, i, SizeOf(u, i)>>
      BY <1>2, <3>1, <3>6, <3>7, <3>8, <3>9
    <3> QED
      BY <3>10
  <2> QED
    BY <2>1, <2>2
<1> QED
  BY <1>7, <1>8, <1>9, <1>11, <1>12 DEF BatchInv

\* The messages of a batch stay together and in order, and a call that returned Ok has
\* written them all, whoever else publishes (session.rs:66-109).
THEOREM BatchesGoTogether == Spec => []BatchesStayTogether
<1>1. Init => BatchInv
  BY DEF Init, CallsInit, SessionCallsInit, BatchInv, PublishesAreSent, WireEndsInTheBatch, WireIsOfTheCalls,
         AllInPlace, WholeBatches
<1>2. ASSUME IInv, BatchInv, [Next]_vars
      PROVE  BatchInv'
  <2>1. ASSUME NEW t \in Threads, ThreadStep(t)
        PROVE  BatchInv'
    BY <1>2, <2>1, OthersKeepBatches, SendKeepsBatches
  <2>2. CASE ContextThread \/ Environment \/ Quiet \/ UNCHANGED vars
    <3>1. UNCHANGED <<callVars, sent, wire>>
      BY <2>2, OthersLeaveTheCalls DEF Quiet, vars, sessionVars, lockVars
    <3> QED
      BY <1>2, <3>1 DEF BatchInv, PublishesAreSent, WireEndsInTheBatch, WireIsOfTheCalls, AllInPlace, InPlace,
                        WholeBatches, SizeOf, Call, callVars
  <2> QED
    BY <1>2, <2>1, <2>2 DEF Next
<1>3. ASSUME IInv, BatchInv
      PROVE  BatchesStayTogether
  <2>1. wire \in Seq(Threads \X Nat \X Nat) /\ Len(wire) \in Nat /\ DOMAIN wire = 1 .. Len(wire)
    BY <1>3, LenProperties DEF IInv, TypeOK
  <2>2. wire # <<>> => Len(wire) > 0
    BY <2>1, EmptySeq
  <2>3. wire # <<>> => wire[1][3] = 1
    BY <1>3, <2>2 DEF BatchInv, AllInPlace
  <2>4. \A i \in DOMAIN wire \ {1} : InPlace(i)
    BY <1>3 DEF BatchInv, AllInPlace
  <2>5. ASSUME NEW call \in Ended, CallOf(call).op \in PublishOps, Result(call) = "Ok",
               NEW size, size = IF CallOf(call).op = "publish" THEN 1 ELSE CallOf(call).size, size > 0
        PROVE  \E i \in DOMAIN wire : wire[i] = <<call[1], call[2], size>>
    <3>1. PICK t \in Threads : \E i \in DOMAIN results[t] : call = <<t, i>>
      BY <2>5 DEF Ended
    <3>2. PICK i \in DOMAIN results[t] : call = <<t, i>>
      BY <3>1
    <3> QED
      BY <1>3, <2>5, <3>2 DEF BatchInv, WholeBatches, SizeOf, CallOf, Result
  <2> QED
    BY <2>3, <2>4, <2>5 DEF BatchesStayTogether, InPlace, PublishOps
<1> QED
  BY <1>1, <1>2, <1>3, Invariance, PTL DEF Spec
-----------------------------------------------------------------------------
(* Events and messages (src/async_support.rs:356-364).                     *)

\* Of places of a sequence one is the first.
LEMMA SmallestPlace ==
    ASSUME NEW S \in SUBSET Nat, S # {}
    PROVE  \E n \in S : \A m \in S : n <= m
<1>1. PICK R : IsWellFoundedOn(R, Nat) /\ \A x, y \in Nat : y < x => <<y, x>> \in R
  <2>1. \A x, y \in Nat : y < x => <<y, x>> \in OpToRel(<, Nat)
    BY DEF OpToRel
  <2> QED
    BY <2>1, NatLessThanWellFounded
<1>2. PICK n \in S : \A m \in S : ~ (<<m, n>> \in R)
  BY <1>1, WFMin
<1>3. ASSUME NEW m \in S
      PROVE  n <= m
  <2>1. n \in Nat /\ m \in Nat /\ ~ (m < n)
    BY <1>1, <1>2
  <2> QED
    BY <2>1
<1> QED
  BY <1>3

Heard(kind) == received[kind] \o channel[kind]

\* What comes out of the channels: numbered messages, and events by their names.
Things ==
    Nat \cup {SessionEvents[i] : i \in DOMAIN SessionEvents} \cup {FlowEvents[i] : i \in DOMAIN FlowEvents}

Items == [kind : Kinds \cup {"bind"}, value : Nat \cup RawEvents \cup Threads]

ArrivalTypes ==
    /\ inbound \in Seq(Items)
    /\ \A i \in DOMAIN inbound : inbound[i].kind = "message" => inbound[i].value \in Nat
    /\ {arrived, channel, received} \subseteq [Kinds -> Seq(Things)]

\* place[i] is the place among things of the i-th item that waits: the things behind the
\* first n wait, each once, and in order.
HavePlaces(place, items, kind, n, things) ==
    /\ \A i \in DOMAIN items : Waits(kind, items[i]) =>
          place[i] \in n + 1 .. Len(things) /\ Passed(kind, items[i].value) = <<things[place[i]]>>
    /\ \A i, j \in DOMAIN items : Waits(kind, items[i]) /\ Waits(kind, items[j]) /\ i < j => place[i] < place[j]
    /\ \A k \in n + 1 .. Len(things) : \E i \in DOMAIN items : Waits(kind, items[i]) /\ place[i] = k

RestWaits(items, kind, n, things) == \E place : HavePlaces(place, items, kind, n, things)

\* s is the beginning of t.
Begins(s, t) == Len(s) <= Len(t) /\ \A n \in 1 .. Len(s) : s[n] = t[n]

\* What came out is the beginning of what arrived, and the rest waits, in order.
ArrivalInv ==
    /\ ArrivalTypes
    /\ \A kind \in Kinds :
          /\ Begins(Heard(kind), arrived[kind])
          /\ RestWaits(inbound, kind, Len(Heard(kind)), arrived[kind])

\* An event the crate knows, and a message, is passed on as one thing.
LEMMA PassedIsTyped ==
    ASSUME NEW kind \in Kinds, NEW value, kind = "message" => value \in Nat
    PROVE  /\ Passed(kind, value) \in Seq(Things)
           /\ Passed(kind, value) # <<>> => \E thing \in Things : Passed(kind, value) = <<thing>>
<1>1. CASE kind = "message"
  BY <1>1 DEF Passed, Things
<1>2. ASSUME NEW table \in {SessionEvents, FlowEvents}
      PROVE  Translate(table, value) = <<>> \/ \E thing \in Things : Translate(table, value) = <<thing>>
  <2>1. CASE value + 1 \in DOMAIN table
    <3>1. table[value + 1] \in Things
      BY <2>1 DEF Things
    <3> QED
      BY <2>1, <3>1 DEF Translate
  <2>2. CASE value + 1 \notin DOMAIN table
    BY <2>2 DEF Translate
  <2> QED
    BY <2>1, <2>2
<1>3. CASE kind # "message"
  <2>1. Passed(kind, value) = Translate(SessionEvents, value) \/ Passed(kind, value) = Translate(FlowEvents, value)
    BY <1>3 DEF Passed
  <2>2. Passed(kind, value) = <<>> \/ \E thing \in Things : Passed(kind, value) = <<thing>>
    BY <1>2, <2>1
  <2>3. \A thing \in Things : <<thing>> \in Seq(Things)
    OBVIOUS
  <2>4. <<>> \in Seq(Things)
    OBVIOUS
  <2> QED
    BY <2>2, <2>3, <2>4
<1> QED
  BY <1>1, <1>3

\* Something arrives: it gets the next place if it waits.
LEMMA ArrivalGetsAPlace ==
    ASSUME NEW items \in Seq(Items), NEW item \in Items, NEW kind \in Kinds, NEW n \in Nat,
           NEW things \in Seq(Things), n <= Len(things), RestWaits(items, kind, n, things),
           item.kind = "message" => item.value \in Nat
    PROVE  RestWaits(Append(items, item), kind, n, IF item.kind = kind THEN things \o Passed(kind, item.value) ELSE things)
<1> DEFINE later == Append(items, item)
           more == IF item.kind = kind THEN things \o Passed(kind, item.value) ELSE things
           place(p) == [i \in 1 .. Len(items) + 1 |-> IF i <= Len(items) THEN p[i] ELSE Len(things) + 1]
<1>1. PICK p : HavePlaces(p, items, kind, n, things)
  BY DEF RestWaits
<1>2. /\ DOMAIN items = 1 .. Len(items) /\ DOMAIN later = 1 .. Len(items) + 1 /\ Len(items) \in Nat
      /\ \A i \in 1 .. Len(items) : later[i] = items[i]
      /\ later[Len(items) + 1] = item
  OBVIOUS
<1>3. /\ \A i \in 1 .. Len(items) : place(p)[i] = p[i]
      /\ place(p)[Len(items) + 1] = Len(things) + 1
  BY <1>2
<1>4. CASE Waits(kind, item)
  <2>1. PICK thing \in Things : Passed(kind, item.value) = <<thing>>
    BY <1>4, PassedIsTyped DEF Waits
  <2>2. /\ Len(more) = Len(things) + 1 /\ Len(things) \in Nat /\ more[Len(things) + 1] = thing
        /\ \A k \in 1 .. Len(things) : more[k] = things[k]
    BY <1>4, <2>1 DEF Waits
  <2> HIDE DEF later, more, place
  <2>3. \A i \in 1 .. Len(items) : Waits(kind, items[i]) =>
            p[i] \in n + 1 .. Len(things) /\ Passed(kind, items[i].value) = <<things[p[i]]>>
    BY <1>1, <1>2 DEF HavePlaces
  <2>4. \A i \in 1 .. Len(items) : Waits(kind, later[i]) =>
            place(p)[i] \in n + 1 .. Len(things) /\ Passed(kind, later[i].value) = <<more[place(p)[i]]>>
    <3>1. \A k \in n + 1 .. Len(things) : k \in 1 .. Len(things)
      OBVIOUS
    <3> QED
      BY <1>2, <1>3, <2>2, <2>3, <3>1
  <2>5. \A i \in DOMAIN later : Waits(kind, later[i]) =>
            place(p)[i] \in n + 1 .. Len(more) /\ Passed(kind, later[i].value) = <<more[place(p)[i]]>>
    <3> SUFFICES ASSUME NEW i \in DOMAIN later, Waits(kind, later[i])
                 PROVE  place(p)[i] \in n + 1 .. Len(more) /\ Passed(kind, later[i].value) = <<more[place(p)[i]]>>
      OBVIOUS
    <3>1. CASE i \in 1 .. Len(items)
      BY <2>2, <2>4, <3>1
    <3>2. CASE i = Len(items) + 1
      BY <1>2, <1>3, <2>1, <2>2, <3>2
    <3> QED
      BY <1>2, <3>1, <3>2
  <2>6. \A i, j \in DOMAIN later :
            Waits(kind, later[i]) /\ Waits(kind, later[j]) /\ i < j => place(p)[i] < place(p)[j]
    <3> SUFFICES ASSUME NEW i \in DOMAIN later, NEW j \in DOMAIN later,
                        Waits(kind, later[i]), Waits(kind, later[j]), i < j
                 PROVE  place(p)[i] < place(p)[j]
      OBVIOUS
    <3>1. i \in 1 .. Len(items) /\ place(p)[i] \in n + 1 .. Len(things)
      BY <1>2, <2>4
    <3>2. CASE j \in 1 .. Len(items)
      BY <1>1, <1>2, <1>3, <3>1, <3>2 DEF HavePlaces
    <3>3. CASE j = Len(items) + 1
      BY <1>3, <2>2, <3>1, <3>3
    <3> QED
      BY <1>2, <3>2, <3>3
  <2>7. \A k \in n + 1 .. Len(more) : \E i \in DOMAIN later : Waits(kind, later[i]) /\ place(p)[i] = k
    <3> SUFFICES ASSUME NEW k \in n + 1 .. Len(more)
                 PROVE  \E i \in DOMAIN later : Waits(kind, later[i]) /\ place(p)[i] = k
      OBVIOUS
    <3>1. CASE k \in n + 1 .. Len(things)
      <4>1. PICK i \in DOMAIN items : Waits(kind, items[i]) /\ p[i] = k
        BY <1>1, <3>1 DEF HavePlaces
      <4> QED
        BY <1>2, <1>3, <4>1
    <3>2. CASE k = Len(things) + 1
      BY <1>2, <1>3, <1>4, <3>2
    <3> QED
      BY <2>2, <3>1, <3>2
  <2>8. HavePlaces(place(p), later, kind, n, more)
    BY <2>5, <2>6, <2>7 DEF HavePlaces
  <2> QED
    BY <2>8 DEF RestWaits, later, more
<1>5. CASE ~Waits(kind, item)
  <2>1. more = things
    BY <1>5 DEF Waits
  <2> HIDE DEF later, more, place
  <2>2. \A i \in DOMAIN later : Waits(kind, later[i]) => i \in DOMAIN items /\ later[i] = items[i]
    BY <1>2, <1>5
  <2>3. HavePlaces(p, later, kind, n, things)
    BY <1>1, <1>2, <2>2 DEF HavePlaces
  <2> QED
    BY <2>1, <2>3 DEF RestWaits, later, more
<1> QED
  BY <1>4, <1>5

\* s without its i-th element.
Without(s, i, t) ==
    Len(t) = Len(s) - 1 /\ \A k \in 1 .. Len(t) : t[k] = IF k < i THEN s[k] ELSE s[k + 1]

\* An item goes that was not to come out, or that was the first to come out and has.
LEMMA ItemGoes ==
    ASSUME NEW items \in Seq(Items), NEW fewer \in Seq(Items), NEW j \in DOMAIN items, Without(items, j, fewer),
           NEW kind \in Kinds, NEW n \in Nat, NEW m \in Nat, NEW things \in Seq(Things),
           RestWaits(items, kind, n, things),
           IF Waits(kind, items[j]) THEN j = 1 /\ m = n + 1 ELSE m = n
    PROVE  /\ RestWaits(fewer, kind, m, things)
           /\ Waits(kind, items[j]) => m <= Len(things) /\ Passed(kind, items[j].value) = <<things[m]>>
<1> DEFINE was(i) == IF i < j THEN i ELSE i + 1
           place(p) == [i \in 1 .. Len(fewer) |-> p[was(i)]]
<1>1. PICK p : HavePlaces(p, items, kind, n, things)
  BY DEF RestWaits
<1>2. /\ DOMAIN items = 1 .. Len(items) /\ DOMAIN fewer = 1 .. Len(fewer) /\ Len(fewer) = Len(items) - 1
      /\ Len(items) \in Nat /\ Len(fewer) \in Nat /\ Len(things) \in Nat
  BY DEF Without
<1>3. \A i \in 1 .. Len(fewer) : was(i) \in DOMAIN items \ {j} /\ fewer[i] = items[was(i)] /\ place(p)[i] = p[was(i)]
  BY <1>2 DEF Without
<1>4. \A i, k \in 1 .. Len(fewer) : i < k => was(i) < was(k)
  OBVIOUS
<1>5. \A k \in DOMAIN items \ {j} : \E i \in 1 .. Len(fewer) : was(i) = k
  <2> SUFFICES ASSUME NEW k \in DOMAIN items, k # j PROVE \E i \in 1 .. Len(fewer) : was(i) = k
    OBVIOUS
  <2>1. CASE k < j
    <3>1. k \in 1 .. Len(fewer) /\ was(k) = k
      BY <1>2, <2>1
    <3> QED
      BY <3>1
  <2>2. CASE k > j
    <3>1. k - 1 \in 1 .. Len(fewer) /\ was(k - 1) = k
      BY <1>2, <2>2
    <3> QED
      BY <3>1
  <2> QED
    BY <1>2, <2>1, <2>2
<1> HIDE DEF was, place
<1>6. Waits(kind, items[j]) =>
          /\ p[j] = m /\ m <= Len(things) /\ Passed(kind, items[j].value) = <<things[m]>>
          /\ \A i \in DOMAIN items \ {j} : Waits(kind, items[i]) => p[i] \in m + 1 .. Len(things)
  <2> SUFFICES ASSUME Waits(kind, items[j])
               PROVE  /\ p[j] = m /\ m <= Len(things) /\ Passed(kind, items[j].value) = <<things[m]>>
                      /\ \A i \in DOMAIN items \ {j} : Waits(kind, items[i]) => p[i] \in m + 1 .. Len(things)
    OBVIOUS
  <2>1. p[j] \in n + 1 .. Len(things) /\ Passed(kind, items[j].value) = <<things[p[j]]>>
    BY <1>1 DEF HavePlaces
  <2>2. \A i \in DOMAIN items \ {j} : Waits(kind, items[i]) => p[i] \in n + 1 .. Len(things) /\ p[j] < p[i]
    <3> SUFFICES ASSUME NEW i \in DOMAIN items, i # j, Waits(kind, items[i])
                 PROVE  p[i] \in n + 1 .. Len(things) /\ p[j] < p[i]
      OBVIOUS
    <3>1. j < i
      BY <1>2
    <3> QED
      BY <1>1, <3>1 DEF HavePlaces
  <2>3. n + 1 \in n + 1 .. Len(things)
    BY <1>2, <2>1
  <2>4. PICK i \in DOMAIN items : Waits(kind, items[i]) /\ p[i] = n + 1
    BY <1>1, <2>3 DEF HavePlaces
  <2>5. i = j
    BY <1>2, <2>1, <2>2, <2>4
  <2> QED
    BY <1>2, <2>1, <2>2, <2>4, <2>5
<1>7. \A i \in 1 .. Len(fewer) : Waits(kind, fewer[i]) =>
          place(p)[i] \in m + 1 .. Len(things) /\ Passed(kind, fewer[i].value) = <<things[place(p)[i]]>>
  <2>1. \A i \in DOMAIN items : Waits(kind, items[i]) =>
            p[i] \in n + 1 .. Len(things) /\ Passed(kind, items[i].value) = <<things[p[i]]>>
    BY <1>1 DEF HavePlaces
  <2> QED
    BY <1>3, <1>6, <2>1
<1>8. \A i, k \in 1 .. Len(fewer) : Waits(kind, fewer[i]) /\ Waits(kind, fewer[k]) /\ i < k => place(p)[i] < place(p)[k]
  <2>1. \A i, k \in DOMAIN items : Waits(kind, items[i]) /\ Waits(kind, items[k]) /\ i < k => p[i] < p[k]
    BY <1>1 DEF HavePlaces
  <2> QED
    BY <1>3, <1>4, <2>1
<1>9. \A k \in m + 1 .. Len(things) : \E i \in 1 .. Len(fewer) : Waits(kind, fewer[i]) /\ place(p)[i] = k
  <2> SUFFICES ASSUME NEW k \in m + 1 .. Len(things)
               PROVE  \E i \in 1 .. Len(fewer) : Waits(kind, fewer[i]) /\ place(p)[i] = k
    OBVIOUS
  <2>1. k \in n + 1 .. Len(things)
    BY <1>2
  <2>2. PICK i \in DOMAIN items : Waits(kind, items[i]) /\ p[i] = k
    BY <1>1, <2>1 DEF HavePlaces
  <2>3. i # j
    <3>1. CASE Waits(kind, items[j])
      BY <1>6, <2>2, <3>1
    <3>2. CASE ~Waits(kind, items[j])
      BY <2>2, <3>2
    <3> QED
      BY <3>1, <3>2
  <2>4. PICK l \in 1 .. Len(fewer) : was(l) = i
    BY <1>5, <2>3
  <2> QED
    BY <1>3, <2>2, <2>4
<1>10. HavePlaces(place(p), fewer, kind, m, things)
  BY <1>2, <1>7, <1>8, <1>9 DEF HavePlaces
<1> QED
  BY <1>6, <1>10 DEF RestWaits

\* The first item comes out as the next thing, if it comes out.
LEMMA FirstComesOut ==
    ASSUME NEW items \in Seq(Items), NEW fewer \in Seq(Items), 1 \in DOMAIN items, Without(items, 1, fewer),
           NEW kind \in Kinds, NEW n \in Nat, NEW things \in Seq(Things),
           RestWaits(items, kind, n, things), Waits(kind, items[1])
    PROVE  /\ RestWaits(fewer, kind, n + 1, things)
           /\ n + 1 <= Len(things) /\ Passed(kind, items[1].value) = <<things[n + 1]>>
<1>1. n + 1 \in Nat
  OBVIOUS
<1> QED
  BY <1>1, ItemGoes

\* An item that does not come out takes no place with it.
LEMMA OtherGoes ==
    ASSUME NEW items \in Seq(Items), NEW fewer \in Seq(Items), NEW j \in DOMAIN items, Without(items, j, fewer),
           NEW kind \in Kinds, NEW n \in Nat, NEW things \in Seq(Things),
           RestWaits(items, kind, n, things), ~Waits(kind, items[j])
    PROVE  RestWaits(fewer, kind, n, things)
BY ItemGoes

\* As many wait as have no place among the first n.
LEMMA RestIsCounted ==
    ASSUME NEW items \in Seq(Items), NEW kind, NEW n \in Nat, NEW things \in Seq(Things), n <= Len(things),
           RestWaits(items, kind, n, things)
    PROVE  Len(things) = n + Cardinality({i \in DOMAIN items : Waits(kind, items[i])})
<1> DEFINE S == {i \in DOMAIN items : Waits(kind, items[i])}
           T == n + 1 .. Len(things)
<1>1. PICK p : HavePlaces(p, items, kind, n, things)
  BY DEF RestWaits
<1>2. IsFiniteSet(S)
  <2>1. Len(items) \in Nat /\ S \subseteq 1 .. Len(items) /\ IsFiniteSet(1 .. Len(items))
    BY FS_Interval
  <2> QED
    BY <2>1, FS_Subset
<1> DEFINE f == [i \in S |-> p[i]]
<1>3. \A i \in S : f[i] = p[i] /\ p[i] \in T
  BY <1>1 DEF HavePlaces
<1>4. \A i, j \in S : f[i] = f[j] => i = j
  <2>1. \A i, j \in S : i < j => p[i] < p[j]
    BY <1>1 DEF HavePlaces
  <2>2. \A i, j \in S : i \in Nat /\ j \in Nat /\ f[i] \in Int /\ f[j] \in Int
    BY <1>3
  <2> QED
    BY <1>3, <2>1, <2>2
<1>5. \A k \in T : \E i \in S : f[i] = k
  BY <1>1, <1>3 DEF HavePlaces
<1>6. f \in Bijection(S, T)
  <2>1. f \in [S -> T]
    BY <1>3
  <2> HIDE DEF f, S, T
  <2> QED
    BY <1>4, <1>5, <2>1 DEF Bijection, Injection, Surjection, IsInjective
<1>7. Cardinality(T) = Cardinality(S)
  BY <1>2, <1>6, FS_Bijection DEF ExistsBijection
<1>8. Cardinality(T) = Len(things) - n
  <2>1. n + 1 \in Int /\ Len(things) \in Int
    OBVIOUS
  <2>2. Cardinality(T) = IF n + 1 > Len(things) THEN 0 ELSE Len(things) - (n + 1) + 1
    BY <2>1, FS_Interval
  <2> QED
    BY <2>1, <2>2
<1> QED
  BY <1>7, <1>8
-----------------------------------------------------------------------------
\* The channels and what is behind and before them, by kind.
arrivalVars == <<inbound, arrived, channel, received>>

\* The channels hold things.
LEMMA HeardIsTyped ==
    ASSUME ArrivalTypes, NEW kind \in Kinds
    PROVE  /\ {arrived[kind], channel[kind], received[kind], Heard(kind)} \subseteq Seq(Things)
           /\ Len(Heard(kind)) \in Nat /\ Len(Heard(kind)) = Len(received[kind]) + Len(channel[kind])
<1>1. arrived[kind] \in Seq(Things) /\ channel[kind] \in Seq(Things) /\ received[kind] \in Seq(Things)
  BY DEF ArrivalTypes
<1>2. /\ received[kind] \o channel[kind] \in Seq(Things)
      /\ Len(received[kind] \o channel[kind]) = Len(received[kind]) + Len(channel[kind])
  BY <1>1, ConcatProperties
<1>3. Len(received[kind]) \in Nat /\ Len(channel[kind]) \in Nat
  BY <1>1
<1>4. Heard(kind) \in Seq(Things) /\ Len(Heard(kind)) = Len(received[kind]) + Len(channel[kind])
  BY <1>2 DEF Heard
<1>5. Len(Heard(kind)) \in Nat
  BY <1>4, LenProperties, Zenon
<1> QED
  BY <1>1, <1>4, <1>5, Zenon

\* One thing behind two sequences is behind the second.
LEMMA OneMore ==
    ASSUME NEW S, NEW s \in Seq(S), NEW t \in Seq(S), NEW x \in S
    PROVE  (s \o t) \o <<x>> = s \o (t \o <<x>>)
<1>1. <<x>> \in Seq(S)
  OBVIOUS
<1> QED
  BY <1>1, ConcatAssociative

\* The head of a sequence goes over to the end of another.
LEMMA HeadGoesOver ==
    ASSUME NEW S, NEW s \in Seq(S), NEW t \in Seq(S), t # <<>>
    PROVE  /\ Append(s, Head(t)) \in Seq(S) /\ Tail(t) \in Seq(S)
           /\ Append(s, Head(t)) \o Tail(t) = s \o t
<1>1. Head(t) \in S /\ Tail(t) \in Seq(S)
  OBVIOUS
<1>2. Append(s, Head(t)) = s \o <<Head(t)>> /\ <<Head(t)>> \in Seq(S)
  BY <1>1, AppendIsConcat
<1>3. <<Head(t)>> \o Tail(t) = t
  BY <1>1
<1>4. (s \o <<Head(t)>>) \o Tail(t) = s \o (<<Head(t)>> \o Tail(t))
  BY <1>1, <1>2, ConcatAssociative
<1>5. (s \o <<Head(t)>>) \in Seq(S)
  BY <1>2, ConcatProperties
<1> QED
  BY <1>1, <1>2, <1>3, <1>4, <1>5

\* A bind is nothing that comes out of a channel.
LEMMA BindsDoNotWait ==
    ASSUME NEW kind \in Kinds, NEW item, item.kind = "bind"
    PROVE  ~Waits(kind, item)
BY ThreadsAssumption DEF Kinds, Waits

\* The library raises an event, or a message comes.
LEMMA ArrivesKeepsPlaces ==
    ASSUME ArrivalInv, NEW kind \in Kinds, NEW value \in Nat \cup RawEvents, Arrives(kind, value),
           kind = "message" => value \in Nat
    PROVE  ArrivalInv'
<1> DEFINE item == [kind |-> kind, value |-> value]
<1>1. item \in Items /\ item.kind = kind /\ item.value = value
  BY DEF Items
<1>2. /\ inbound' = Append(inbound, item) /\ inbound \in Seq(Items)
      /\ arrived' = [arrived EXCEPT ![kind] = @ \o Passed(kind, value)]
      /\ UNCHANGED <<channel, received>>
  BY DEF Arrives, channelVars, ArrivalInv, ArrivalTypes
<1> HIDE DEF item
<1>3. Passed(kind, value) \in Seq(Things) /\ arrived[kind] \in Seq(Things)
  BY PassedIsTyped, HeardIsTyped DEF ArrivalInv
<1>4. ArrivalTypes'
  <2>1. arrived' \in [Kinds -> Seq(Things)]
    BY <1>2, <1>3 DEF ArrivalInv, ArrivalTypes
  <2>2. inbound' \in Seq(Items)
    BY <1>1, <1>2
  <2>3. \A i \in DOMAIN inbound' : inbound'[i].kind = "message" => inbound'[i].value \in Nat
    BY <1>1, <1>2 DEF ArrivalInv, ArrivalTypes
  <2> QED
    BY <1>2, <2>1, <2>2, <2>3 DEF ArrivalInv, ArrivalTypes
<1>5. ASSUME NEW k \in Kinds
      PROVE  Begins(Heard(k), arrived[k])' /\ RestWaits(inbound, k, Len(Heard(k)), arrived[k])'
  <2> DEFINE more == IF item.kind = k THEN arrived[k] \o Passed(k, item.value) ELSE arrived[k]
  <2>1. Heard(k)' = Heard(k) /\ arrived'[k] = more
    BY <1>1, <1>2 DEF Heard, ArrivalInv, ArrivalTypes
  <2>2. /\ arrived[k] \in Seq(Things) /\ Heard(k) \in Seq(Things) /\ Len(Heard(k)) \in Nat
        /\ Begins(Heard(k), arrived[k]) /\ RestWaits(inbound, k, Len(Heard(k)), arrived[k])
    BY HeardIsTyped DEF ArrivalInv
  <2>3. RestWaits(Append(inbound, item), k, Len(Heard(k)), more)
    BY <1>1, <1>2, <2>2, ArrivalGetsAPlace DEF Begins
  <2>4. Begins(Heard(k), more)
    <3>1. CASE item.kind = k
      BY <1>1, <1>3, <2>2, <3>1 DEF Begins
    <3>2. CASE item.kind # k
      BY <2>2, <3>2
    <3> QED
      BY <3>1, <3>2
  <2> QED
    BY <1>2, <2>1, <2>3, <2>4
<1> QED
  BY <1>4, <1>5 DEF ArrivalInv

\* A sequence without its first element, or its i-th.
LEMMA TailIsWithout ==
    ASSUME NEW S, NEW s \in Seq(S), s # <<>>
    PROVE  1 \in DOMAIN s /\ Head(s) = s[1] /\ Tail(s) \in Seq(S) /\ Without(s, 1, Tail(s))
BY DEF Without

LEMMA RemovingIsWithout ==
    ASSUME NEW S, NEW s \in Seq(S), NEW i \in 1 .. Len(s)
    PROVE  RemoveAt(s, i) \in Seq(S) /\ Without(s, i, RemoveAt(s, i))
<1> DEFINE before == SubSeq(s, 1, i - 1)
           behind == SubSeq(s, i + 1, Len(s))
<1>1. /\ before \in Seq(S) /\ Len(before) = i - 1 /\ \A k \in 1 .. i - 1 : before[k] = s[k]
      /\ behind \in Seq(S) /\ Len(behind) = Len(s) - i /\ \A k \in 1 .. Len(s) - i : behind[k] = s[i + k]
  OBVIOUS
<1>2. RemoveAt(s, i) = before \o behind
  BY DEF RemoveAt
<1> HIDE DEF before, behind
<1>3. /\ before \o behind \in Seq(S) /\ Len(before \o behind) = Len(before) + Len(behind)
      /\ \A k \in 1 .. Len(before) + Len(behind) :
            (before \o behind)[k] = IF k <= Len(before) THEN before[k] ELSE behind[k - Len(before)]
  BY <1>1, ConcatProperties
<1>4. Len(s) \in Nat /\ Len(before) + Len(behind) = Len(s) - 1
  BY <1>1
<1>5. ASSUME NEW k \in 1 .. Len(s) - 1
      PROVE  (before \o behind)[k] = IF k < i THEN s[k] ELSE s[k + 1]
  <2>1. CASE k < i
    BY <1>1, <1>3, <1>4, <2>1
  <2>2. CASE k >= i
    <3>1. k - (i - 1) \in 1 .. Len(s) - i /\ i + (k - (i - 1)) = k + 1
      BY <1>4, <2>2
    <3> QED
      BY <1>1, <1>3, <1>4, <2>2, <3>1
  <2> QED
    BY <1>4, <2>1, <2>2
<1> QED
  BY <1>2, <1>3, <1>4, <1>5 DEF Without

\* The context thread works off what came first.
LEMMA HandlingKeepsPlaces ==
    ASSUME ArrivalInv, HandleInbound
    PROVE  ArrivalInv'
<1> DEFINE item == Head(inbound)
<1>1. /\ inbound # <<>> /\ inbound' = Tail(inbound) /\ inbound \in Seq(Items) /\ UNCHANGED <<arrived, received>>
      /\ IF item.kind = "bind" THEN UNCHANGED channel
         ELSE channel' = [channel EXCEPT ![item.kind] = @ \o Passed(item.kind, item.value)]
  BY DEF HandleInbound, ArrivalInv, ArrivalTypes
<1>2. 1 \in DOMAIN inbound /\ item = inbound[1] /\ inbound' \in Seq(Items) /\ Without(inbound, 1, inbound')
  BY <1>1, TailIsWithout
<1>3. item \in Items /\ (item.kind = "message" => item.value \in Nat)
  BY <1>2 DEF ArrivalInv, ArrivalTypes
<1>4. item.kind # "bind" =>
          /\ item.kind \in Kinds /\ Passed(item.kind, item.value) \in Seq(Things) /\ channel[item.kind] \in Seq(Things)
          /\ Passed(item.kind, item.value) # <<>> =>
                \E thing \in Things : Passed(item.kind, item.value) = <<thing>>
  BY <1>3, PassedIsTyped, HeardIsTyped DEF ArrivalInv, Items
<1> HIDE DEF item
<1>5. ArrivalTypes'
  <2>1. channel' \in [Kinds -> Seq(Things)]
    <3>1. CASE item.kind # "bind"
      <4>1. channel[item.kind] \o Passed(item.kind, item.value) \in Seq(Things)
        BY <1>4, <3>1, ConcatProperties
      <4> QED
        BY <1>1, <3>1, <4>1 DEF ArrivalInv, ArrivalTypes
    <3>2. CASE item.kind = "bind"
      BY <1>1, <3>2 DEF ArrivalInv, ArrivalTypes
    <3> QED
      BY <3>1, <3>2
  <2>2. \A i \in DOMAIN inbound' : inbound'[i].kind = "message" => inbound'[i].value \in Nat
    BY <1>1, <1>2 DEF ArrivalInv, ArrivalTypes, Without
  <2> QED
    BY <1>1, <1>2, <2>1, <2>2 DEF ArrivalInv, ArrivalTypes
<1>6. ASSUME NEW k \in Kinds
      PROVE  Begins(Heard(k), arrived[k])' /\ RestWaits(inbound, k, Len(Heard(k)), arrived[k])'
  <2>1. /\ arrived[k] \in Seq(Things) /\ Heard(k) \in Seq(Things) /\ Len(Heard(k)) \in Nat
        /\ received[k] \in Seq(Things) /\ channel[k] \in Seq(Things)
        /\ Begins(Heard(k), arrived[k]) /\ RestWaits(inbound, k, Len(Heard(k)), arrived[k])
    BY HeardIsTyped DEF ArrivalInv
  <2>2. CASE Waits(k, item)
    <3>1. item.kind = k /\ item.kind # "bind"
      BY <2>2, BindsDoNotWait DEF Waits
    <3>2. PICK thing \in Things : Passed(k, item.value) = <<thing>>
      BY <1>4, <2>2, <3>1 DEF Waits
    <3>3. channel'[k] = channel[k] \o <<thing>>
      BY <1>1, <3>1, <3>2 DEF ArrivalInv, ArrivalTypes
    <3>4. Heard(k)' = Heard(k) \o <<thing>>
      <4>2. (received[k] \o channel[k]) \o <<thing>> = received[k] \o (channel[k] \o <<thing>>)
        <5>1. received[k] \in Seq(Things)
          BY <2>1
        <5>2. channel[k] \in Seq(Things)
          BY <2>1
        <5>3. thing \in Things
          BY <3>2
        <5>4. \A s, u \in Seq(Things), x \in Things : (s \o u) \o <<x>> = s \o (u \o <<x>>)
          BY OneMore
        <5> QED
          BY ONLY <5>1, <5>2, <5>3, <5>4
      <4> QED
        BY <1>1, <3>3, <4>2 DEF Heard
    <3>5. Len(Heard(k)') = Len(Heard(k)) + 1 /\ Len(Heard(k)') \in Nat
      BY <2>1, <3>4
    <3>6. /\ RestWaits(inbound', k, Len(Heard(k)'), arrived[k])
          /\ Len(Heard(k)') <= Len(arrived[k]) /\ <<thing>> = <<arrived[k][Len(Heard(k)')]>>
      <4>1. Waits(k, inbound[1]) /\ Passed(k, inbound[1].value) = <<thing>> /\ inbound \in Seq(Items)
        BY <1>1, <1>2, <2>2, <3>2
      <4>2. /\ RestWaits(inbound', k, Len(Heard(k)) + 1, arrived[k]) /\ Len(Heard(k)) + 1 <= Len(arrived[k])
            /\ Passed(k, inbound[1].value) = <<arrived[k][Len(Heard(k)) + 1]>>
        BY <1>2, <2>1, <4>1, FirstComesOut
      <4> QED
        BY <3>5, <4>1, <4>2
    <3>7. Begins(Heard(k)', arrived[k])
      <4>1. thing = arrived[k][Len(Heard(k)')]
        BY <3>6
      <4>2. /\ \A n \in 1 .. Len(Heard(k)) : Heard(k)'[n] = Heard(k)[n]
            /\ Heard(k)'[Len(Heard(k)) + 1] = thing
        BY <2>1, <3>4
      <4> QED
        BY <2>1, <3>5, <3>6, <4>1, <4>2 DEF Begins
    <3> QED
      BY <1>1, <3>6, <3>7
  <2>3. CASE ~Waits(k, item)
    <3>1. channel'[k] = channel[k]
      <4>1. CASE item.kind = k /\ item.kind # "bind"
        <5>1. Passed(k, item.value) = <<>> /\ channel'[k] = channel[k] \o Passed(k, item.value)
          BY <1>1, <2>3, <4>1 DEF Waits, ArrivalInv, ArrivalTypes
        <5> QED
          BY <2>1, <5>1
      <4>2. CASE item.kind # k \/ item.kind = "bind"
        BY <1>1, <4>2 DEF ArrivalInv, ArrivalTypes
      <4> QED
        BY <4>1, <4>2
    <3>2. Heard(k)' = Heard(k)
      BY <1>1, <3>1 DEF Heard
    <3>3. RestWaits(inbound', k, Len(Heard(k)), arrived[k])
      <4>1. ~Waits(k, inbound[1]) /\ inbound \in Seq(Items)
        BY <1>1, <1>2, <2>3
      <4> QED
        BY <1>2, <2>1, <4>1, OtherGoes
    <3> QED
      BY <1>1, <2>1, <3>2, <3>3
  <2> QED
    BY <2>2, <2>3
<1> QED
  BY <1>5, <1>6 DEF ArrivalInv

\* A thing goes from a channel to the application.
LEMMA TakingKeepsPlaces ==
    ASSUME ArrivalInv, NEW kind \in Kinds, Take(kind), UNCHANGED <<inbound, arrived>>
    PROVE  ArrivalInv'
<1>1. /\ channel[kind] # <<>> /\ channel[kind] \in Seq(Things) /\ received[kind] \in Seq(Things)
      /\ received' = [received EXCEPT ![kind] = Append(@, Head(channel[kind]))]
      /\ channel' = [channel EXCEPT ![kind] = Tail(@)]
  BY HeardIsTyped DEF Take, ArrivalInv
<1>2. /\ received'[kind] = Append(received[kind], Head(channel[kind])) /\ received'[kind] \in Seq(Things)
      /\ channel'[kind] = Tail(channel[kind]) /\ channel'[kind] \in Seq(Things)
      /\ Heard(kind)' = Heard(kind)
  <2>1. /\ Append(received[kind], Head(channel[kind])) \in Seq(Things) /\ Tail(channel[kind]) \in Seq(Things)
        /\ Append(received[kind], Head(channel[kind])) \o Tail(channel[kind]) = received[kind] \o channel[kind]
    BY <1>1, HeadGoesOver
  <2>2. received'[kind] = Append(received[kind], Head(channel[kind])) /\ channel'[kind] = Tail(channel[kind])
    BY <1>1 DEF ArrivalInv, ArrivalTypes
  <2> QED
    BY <1>1, <2>1, <2>2 DEF Heard
<1>3. ArrivalTypes'
  BY <1>1, <1>2 DEF ArrivalInv, ArrivalTypes
<1>4. \A k \in Kinds : Heard(k)' = Heard(k)
  BY <1>1, <1>2 DEF Heard, ArrivalInv, ArrivalTypes
<1> QED
  BY <1>3, <1>4 DEF ArrivalInv

\* A bind that fails may leave the answer behind, which nobody waits for any more.
LEMMA BindReturnsKeepsPlaces ==
    ASSUME ArrivalInv, NEW t \in Threads, NEW raw, BindReturns(t, raw)
    PROVE  ArrivalInv'
<1> DEFINE item == [kind |-> "bind", value |-> t]
<1>1. inbound' = RemoveFirst(inbound, item) /\ inbound \in Seq(Items) /\ UNCHANGED <<arrived, channel, received>>
  BY DEF BindReturns, channelVars, ArrivalInv, ArrivalTypes
<1>2. CASE inbound' = inbound
  BY <1>1, <1>2 DEF ArrivalInv, ArrivalTypes, Heard
<1>3. CASE inbound' # inbound
  <2> DEFINE S == {i \in 1 .. Len(inbound) : inbound[i] = item}
             j == Min(S)
  <2>1. S # {} /\ inbound' = RemoveAt(inbound, j)
    BY <1>1, <1>3 DEF RemoveFirst, SelectInSeq
  <2>2. j \in S
    <3>1. S \in SUBSET Nat
      OBVIOUS
    <3> HIDE DEF S
    <3>2. PICK n \in S : \A m \in S : n <= m
      BY <2>1, <3>1, SmallestPlace
    <3> QED
      BY <3>2 DEF Min
  <2> HIDE DEF j
  <2>3. j \in DOMAIN inbound /\ inbound[j] = item /\ j \in 1 .. Len(inbound) /\ Len(inbound) \in Nat
    BY <1>1, <2>2
  <2>5. RemoveAt(inbound, j) \in Seq(Items) /\ Without(inbound, j, RemoveAt(inbound, j))
    BY ONLY <1>1, <2>3, RemovingIsWithout
  <2>6. inbound' \in Seq(Items) /\ Without(inbound, j, inbound')
    BY <2>1, <2>5
  <2>7. ArrivalTypes'
    <3>1. ASSUME NEW i \in DOMAIN inbound', inbound'[i].kind = "message"
          PROVE  inbound'[i].value \in Nat
      <4>1. PICK k \in DOMAIN inbound : inbound'[i] = inbound[k]
        <5>1. i \in 1 .. Len(inbound') /\ Len(inbound') = Len(inbound) - 1
          BY <2>6 DEF Without
        <5>2. inbound'[i] = IF i < j THEN inbound[i] ELSE inbound[i + 1]
          BY <2>6, <5>1 DEF Without
        <5> QED
          BY <1>1, <2>3, <5>1, <5>2
      <4> QED
        BY <3>1, <4>1 DEF ArrivalInv, ArrivalTypes
    <3> QED
      BY <1>1, <2>6, <3>1 DEF ArrivalInv, ArrivalTypes
  <2>8. ASSUME NEW k \in Kinds
        PROVE  Begins(Heard(k), arrived[k])' /\ RestWaits(inbound, k, Len(Heard(k)), arrived[k])'
    <3>1. ~Waits(k, inbound[j])
      BY <2>3, BindsDoNotWait
    <3>2. /\ arrived[k] \in Seq(Things) /\ Len(Heard(k)) \in Nat
          /\ Begins(Heard(k), arrived[k]) /\ RestWaits(inbound, k, Len(Heard(k)), arrived[k])
      BY HeardIsTyped DEF ArrivalInv
    <3>3. RestWaits(inbound', k, Len(Heard(k)), arrived[k])
      BY <1>1, <2>3, <2>6, <3>1, <3>2, OtherGoes
    <3> QED
      BY <1>1, <3>2, <3>3 DEF Heard
  <2> QED
    BY <2>7, <2>8 DEF ArrivalInv
<1> QED
  BY <1>2, <1>3

\* The broker answers a bind.
LEMMA BindAnswerKeepsPlaces ==
    ASSUME ArrivalInv, NEW t \in Threads, BrokerAnswersBind(t)
    PROVE  ArrivalInv'
<1> DEFINE item == [kind |-> "bind", value |-> t]
<1>1. /\ inbound' = Append(inbound, item) /\ inbound \in Seq(Items) /\ UNCHANGED <<arrived, channel, received>>
      /\ item \in Items
  BY DEF BrokerAnswersBind, channelVars, ArrivalInv, ArrivalTypes, Items
<1>2. ArrivalTypes'
  BY <1>1 DEF ArrivalInv, ArrivalTypes
<1>3. ASSUME NEW k \in Kinds
      PROVE  Begins(Heard(k), arrived[k])' /\ RestWaits(inbound, k, Len(Heard(k)), arrived[k])'
  <2>1. item.kind # k
    BY ThreadsAssumption DEF Kinds
  <2>2. /\ arrived[k] \in Seq(Things) /\ Len(Heard(k)) \in Nat
        /\ Begins(Heard(k), arrived[k]) /\ RestWaits(inbound, k, Len(Heard(k)), arrived[k])
    BY HeardIsTyped DEF ArrivalInv
  <2>3. item.kind # "message"
    OBVIOUS
  <2> HIDE DEF item
  <2>4. RestWaits(Append(inbound, item), k, Len(Heard(k)), arrived[k])
    BY <1>1, <2>1, <2>2, <2>3, ArrivalGetsAPlace DEF Begins
  <2> QED
    BY <1>1, <2>2, <2>4 DEF Heard
<1> QED
  BY <1>2, <1>3 DEF ArrivalInv

\* Every call that receives has its channel.
LEMMA KindIsAKind ==
    ASSUME NEW t \in Threads
    PROVE  KindOf(t) \in Kinds
BY DEF KindOf, Kinds

\* Of the calls three touch the channels or what waits.
LEMMA ThreadStepKeepsPlaces ==
    ASSUME ArrivalInv, NEW t \in Threads, ThreadStep(t)
    PROVE  ArrivalInv'
<1>1. CASE UNCHANGED arrivalVars
  BY <1>1 DEF arrivalVars, ArrivalInv, ArrivalTypes, Heard
<1>2. CASE ~UNCHANGED arrivalVars
  <2>1. SessionStep(t)
    BY <1>2 DEF ThreadStep, sessionVars, contextVars, channelVars, arrivalVars
  <2>2. (\E raw \in BindCodes : BindReturns(t, raw)) \/ RecvSome(t) \/ TryRecv(t)
    BY <1>2, <2>1 DEF SessionStep, RefuseQueueName, Enter, Lock, SendNothing, SendChunk, SendFails, RefuseTopic,
        SetSubscription, BeginRecv, BeginFlowRecv, NoFlow, RecvNone, TakeEventReceiver,
        sessionVars, contextVars, channelVars, arrivalVars
  <2>3. CASE \E raw \in BindCodes : BindReturns(t, raw)
    BY <2>3, BindReturnsKeepsPlaces
  <2>4. CASE RecvSome(t) \/ TryRecv(t)
    <3>1. Take(KindOf(t)) /\ UNCHANGED <<inbound, arrived>>
      BY <1>2, <2>4 DEF RecvSome, TryRecv, contextVars, channelVars, arrivalVars
    <3> QED
      BY <3>1, KindIsAKind, TakingKeepsPlaces
  <2> QED
    BY <2>2, <2>3, <2>4
<1> QED
  BY <1>1, <1>2

\* The context thread, the task that drains events, the broker and the library.
LEMMA OthersKeepPlaces ==
    ASSUME ArrivalInv, ContextThread \/ Environment
    PROVE  ArrivalInv'
<1>1. CASE UNCHANGED arrivalVars
  BY <1>1 DEF arrivalVars, ArrivalInv, ArrivalTypes, Heard
<1>2. CASE ~UNCHANGED arrivalVars
  <2>1. ContextStep \/ Arrival
    BY <1>2 DEF ContextThread, Environment, sessionVars, contextVars, channelVars, arrivalVars
  <2>2. CASE HandleInbound
    BY <2>2, HandlingKeepsPlaces
  <2>3. CASE Drain
    <3>1. Take("event") /\ UNCHANGED <<inbound, arrived>> /\ "event" \in Kinds
      BY <2>3 DEF Drain, contextVars, Kinds
    <3> QED
      BY <3>1, TakingKeepsPlaces
  <2>4. CASE \E t \in Threads : BrokerAnswersBind(t)
    BY <2>4, BindAnswerKeepsPlaces
  <2>5. CASE Arrival
    <3>1. Len(arrived.message) + 1 \in Nat /\ "message" \in Kinds
      <4>1. "message" \in Kinds
        BY DEF Kinds
      <4> QED
        BY <4>1, HeardIsTyped DEF ArrivalInv
    <3> QED
      BY <2>5, <3>1, ArrivesKeepsPlaces DEF Arrival
  <2> QED
    BY <2>1, <2>2, <2>3, <2>4, <2>5 DEF ContextStep
<1> QED
  BY <1>1, <1>2

\* Every event the crate knows, and every message, comes out of its own channel once and in
\* the order of arrival, however many threads receive and whoever holds the event receiver
\* (async_support.rs:356-364).
THEOREM ArrivalsComeThrough == Spec => []ArrivalsComeThroughInOrder
<1>1. Init => ArrivalInv
  <2> SUFFICES ASSUME Init PROVE ArrivalInv
    OBVIOUS
  <2>1. /\ inbound = <<>> /\ arrived = [kind \in Kinds |-> <<>>]
        /\ channel = [kind \in Kinds |-> <<>>] /\ received = [kind \in Kinds |-> <<>>]
    BY DEF Init, SessionCallsInit
  <2>2. ArrivalTypes
    <3>1. <<>> \in Seq(Items) /\ <<>> \in Seq(Things)
      OBVIOUS
    <3> QED
      BY <2>1, <3>1 DEF ArrivalTypes
  <2>3. ASSUME NEW kind \in Kinds
        PROVE  Heard(kind) = <<>> /\ arrived[kind] = <<>>
    BY <2>1 DEF Heard
  <2>4. \A kind \in Kinds : HavePlaces(<<>>, <<>>, kind, 0, <<>>)
    BY DEF HavePlaces
  <2> QED
    BY <2>1, <2>2, <2>3, <2>4 DEF ArrivalInv, Begins, RestWaits
<1>2. ASSUME ArrivalInv, [Next]_vars
      PROVE  ArrivalInv'
  <2>1. CASE Quiet \/ UNCHANGED vars
    BY <1>2, <2>1 DEF Quiet, vars, sessionVars, contextVars, channelVars, ArrivalInv, ArrivalTypes, Heard
  <2> QED
    BY <1>2, <2>1, ThreadStepKeepsPlaces, OthersKeepPlaces DEF Next
<1>3. ArrivalInv => ArrivalsComeThroughInOrder
  <2> SUFFICES ASSUME ArrivalInv, NEW kind \in Kinds
               PROVE  /\ IsPrefix(Heard(kind), arrived[kind])
                      /\ Len(arrived[kind]) = Len(Heard(kind)) + Cardinality({i \in DOMAIN inbound : Waits(kind, inbound[i])})
    BY DEF ArrivalsComeThroughInOrder, Heard
  <2>1. /\ arrived[kind] \in Seq(Things) /\ Heard(kind) \in Seq(Things) /\ Len(Heard(kind)) \in Nat
        /\ Begins(Heard(kind), arrived[kind]) /\ RestWaits(inbound, kind, Len(Heard(kind)), arrived[kind])
        /\ inbound \in Seq(Items)
    BY HeardIsTyped DEF ArrivalInv, ArrivalTypes
  <2>2. IsPrefix(Heard(kind), arrived[kind])
    BY <2>1 DEF Begins, IsPrefix
  <2> QED
    BY <2>1, <2>2, RestIsCounted DEF Begins
<1> QED
  BY <1>1, <1>2, <1>3, PTL DEF Spec
=============================================================================
