------------------------- MODULE AsyncPublishProofs -------------------------
(***************************************************************************)
(* Proofs about AsyncPublish, for any set of calls and any window.         *)
(*                                                                         *)
(* IInv is inductive: one lemma for each action, and in it one step for    *)
(* each conjunct.  The safety properties are conjuncts of IInv.  With IInv *)
(* every step of AsyncPublish is a step of AckPromise or a stutter.        *)
(***************************************************************************)
EXTENDS AsyncPublish, TLAPS

-----------------------------------------------------------------------------
(* The invariant holds at first.                                           *)

\* A session that has just been built has no call, no sender and no event
\* (async_support.rs:194-200).
LEMMA InitEstablishes == Init => IInv
<1> SUFFICES ASSUME Init PROVE IInv
  OBVIOUS
<1> USE CallsAssumption DEF Init, SessionAlive, NoTag, Answers, Unanswered
<1>1. TypeOK
  <2>1. ctxPc \in CtxSteps /\ pc \in [Calls -> Steps] /\ rx \in [Calls -> RxStates]
    BY DEF Steps, RxStates, CtxSteps
  <2>2. /\ corrId \in [Calls -> Nat] /\ tag \in [Calls -> Nat]
        /\ nextCorrId \in Nat \ {0} /\ corrPtr \in Nat
    OBVIOUS
  <2>3. /\ tracked \in [Calls -> BOOLEAN] /\ guaranteed \in [Calls -> BOOLEAN]
        /\ mapLocked \in BOOLEAN /\ handle \in BOOLEAN /\ flow \in BOOLEAN
    OBVIOUS
  <2> QED
    BY <2>1, <2>2, <2>3 DEF TypeOK
<1>2. IdsAreUnique
  BY DEF IdsAreUnique
<1>3. CallsAreInStep
  BY DEF CallsAreInStep
<1>4. MapIsRight
  BY DEF MapIsRight
<1>5. EventIsRight
  BY DEF EventIsRight
<1>6. TeardownIsFinal
  BY DEF TeardownIsFinal
<1>7. PromisesKeepTheAnswer
  BY DEF PromisesKeepTheAnswer
<1>8. TaggedAnswersStayPrivate
  BY DEF TaggedAnswersStayPrivate
<1>9. SendersAreOwed
  BY DEF SendersAreOwed
<1>10. WaitersAreServed
  BY DEF WaitersAreServed
<1> QED
  BY <1>1, <1>2, <1>3, <1>4, <1>5, <1>6, <1>7, <1>8, <1>9, <1>10 DEF IInv

-----------------------------------------------------------------------------
(* Every action preserves it.                                              *)

\* Entering publish or publish_with_ack (async_support.rs:372-393) only places a
\* call: it has no id, no tag and no sender yet.
LEMMA BeginPreserves ==
    ASSUME IInv, NEW c \in Calls, NEW t \in BOOLEAN, NEW g \in BOOLEAN, Begin(c, t, g)
    PROVE  IInv'
<1> USE CallsAssumption DEF Begin, mapVars, lifeVars, brokerVars, ctxVars,
      Goto, SessionAlive, NoTag, Answers, Unanswered
<1>1. TypeOK'
  BY DEF IInv, TypeOK, Steps
<1>2. IdsAreUnique'
  BY DEF IInv, IdsAreUnique
<1>3. CallsAreInStep'
  BY DEF IInv, TypeOK, CallsAreInStep
<1>4. MapIsRight'
  BY DEF IInv, TypeOK, MapIsRight
<1>5. EventIsRight'
  BY DEF IInv, EventIsRight
<1>6. TeardownIsFinal'
  BY DEF IInv, TeardownIsFinal
<1>7. PromisesKeepTheAnswer'
  BY DEF IInv, PromisesKeepTheAnswer
<1>8. TaggedAnswersStayPrivate'
  BY DEF IInv, TaggedAnswersStayPrivate
<1>9. SendersAreOwed'
  BY DEF IInv, CallsAreInStep, SendersAreOwed
<1>10. WaitersAreServed'
  BY DEF IInv, WaitersAreServed
<1> QED
  BY <1>1, <1>2, <1>3, <1>4, <1>5, <1>6, <1>7, <1>8, <1>9, <1>10 DEF IInv

\* fetch_add hands out an id no call has had before (async_support.rs:394): this is
\* where uniqueness comes from.
LEMMA FetchIdPreserves ==
    ASSUME IInv, NEW c \in Calls, FetchId(c)
    PROVE  IInv'
<1> USE CallsAssumption DEF FetchId, mapVars, lifeVars, brokerVars, ctxVars,
      Goto, SessionAlive, NoTag, Answers, Unanswered
<1>1. TypeOK'
  BY DEF IInv, TypeOK, Steps
<1>2. IdsAreUnique'
  BY DEF IInv, TypeOK, IdsAreUnique, CallsAreInStep
<1>3. CallsAreInStep'
  BY DEF IInv, TypeOK, CallsAreInStep
<1>4. MapIsRight'
  BY DEF IInv, MapIsRight
<1>5. EventIsRight'
  BY DEF IInv, EventIsRight
<1>6. TeardownIsFinal'
  BY DEF IInv, TeardownIsFinal
<1>7. PromisesKeepTheAnswer'
  BY DEF IInv, PromisesKeepTheAnswer
<1>8. TaggedAnswersStayPrivate'
  BY DEF IInv, TaggedAnswersStayPrivate
<1>9. SendersAreOwed'
  BY DEF IInv, SendersAreOwed
<1>10. WaitersAreServed'
  BY DEF IInv, WaitersAreServed
<1> QED
  BY <1>1, <1>2, <1>3, <1>4, <1>5, <1>6, <1>7, <1>8, <1>9, <1>10 DEF IInv

\* Attaching the tag gives a message its own call's id or, when it fails, none
\* (outbound.rs:57-73).
LEMMA SetTagPreserves ==
    ASSUME IInv, NEW c \in Calls, SetTag(c)
    PROVE  IInv'
<1> USE CallsAssumption DEF SetTag, mapVars, lifeVars, brokerVars, ctxVars,
      Goto, SessionAlive, NoTag, Answers, Unanswered
<1>1. TypeOK'
  BY DEF IInv, TypeOK, Steps
<1>2. IdsAreUnique'
  BY DEF IInv, IdsAreUnique
<1>3. CallsAreInStep'
  BY DEF IInv, TypeOK, CallsAreInStep
<1>4. MapIsRight'
  BY DEF IInv, CallsAreInStep, MapIsRight
<1>5. EventIsRight'
  BY DEF IInv, CallsAreInStep, EventIsRight
<1>6. TeardownIsFinal'
  BY DEF IInv, TeardownIsFinal
<1>7. PromisesKeepTheAnswer'
  BY DEF IInv, PromisesKeepTheAnswer
<1>8. TaggedAnswersStayPrivate'
  BY DEF IInv, CallsAreInStep, TaggedAnswersStayPrivate
<1>9. SendersAreOwed'
  BY DEF IInv, CallsAreInStep, SendersAreOwed
<1>10. WaitersAreServed'
  BY DEF IInv, WaitersAreServed
<1> QED
  BY <1>1, <1>2, <1>3, <1>4, <1>5, <1>6, <1>7, <1>8, <1>9, <1>10 DEF IInv

\* The sender goes in under an id that is not in the map, so it displaces nobody
\* (async_support.rs:397-399).
LEMMA InsertSenderPreserves ==
    ASSUME IInv, NEW c \in Calls, InsertSender(c)
    PROVE  IInv'
<1> USE CallsAssumption DEF InsertSender, lifeVars, brokerVars, ctxVars, Goto,
      Lookup, SessionAlive, NoTag, Answers, Unanswered
<1>1. TypeOK'
  BY DEF IInv, TypeOK, Steps, RxStates
<1>2. IdsAreUnique'
  BY DEF IInv, IdsAreUnique
<1>3. CallsAreInStep'
  BY DEF IInv, TypeOK, IdsAreUnique, CallsAreInStep
<1>4. MapIsRight'
  BY DEF IInv, IdsAreUnique, CallsAreInStep, MapIsRight, EventIsRight
<1>5. EventIsRight'
  BY DEF IInv, EventIsRight
<1>6. TeardownIsFinal'
  BY DEF IInv, CallsAreInStep, TeardownIsFinal
<1>7. PromisesKeepTheAnswer'
  BY DEF IInv, PromisesKeepTheAnswer
<1>8. TaggedAnswersStayPrivate'
  BY DEF IInv, TaggedAnswersStayPrivate
<1>9. SendersAreOwed'
  BY DEF IInv, TypeOK, CallsAreInStep, SendersAreOwed
<1>10. WaitersAreServed'
  BY DEF IInv, IdsAreUnique, CallsAreInStep, WaitersAreServed
<1> QED
  BY <1>1, <1>2, <1>3, <1>4, <1>5, <1>6, <1>7, <1>8, <1>9, <1>10 DEF IInv

\* Taking the session mutex does not touch the map (async_support.rs:373-374).
LEMMA LockInnerPreserves ==
    ASSUME IInv, NEW c \in Calls, LockInner(c)
    PROVE  IInv'
<1> USE CallsAssumption DEF LockInner, mapVars, lifeVars, brokerVars, ctxVars,
      Goto, SessionAlive, NoTag, Answers, Unanswered
<1>1. TypeOK'
  BY DEF IInv, TypeOK, Steps
<1>2. IdsAreUnique'
  BY DEF IInv, IdsAreUnique
<1>3. CallsAreInStep'
  BY DEF IInv, CallsAreInStep
<1>4. MapIsRight'
  BY DEF IInv, MapIsRight
<1>5. EventIsRight'
  BY DEF IInv, EventIsRight
<1>6. TeardownIsFinal'
  BY DEF IInv, TeardownIsFinal
<1>7. PromisesKeepTheAnswer'
  BY DEF IInv, PromisesKeepTheAnswer
<1>8. TaggedAnswersStayPrivate'
  BY DEF IInv, TaggedAnswersStayPrivate
<1>9. SendersAreOwed'
  BY DEF IInv, SendersAreOwed
<1>10. WaitersAreServed'
  BY DEF IInv, WaitersAreServed
<1> QED
  BY <1>1, <1>2, <1>3, <1>4, <1>5, <1>6, <1>7, <1>8, <1>9, <1>10 DEF IInv

\* A message enters the publisher window with its sender already in the map
\* (session.rs:52-64): its answer cannot come too early.
LEMMA SendOkPreserves ==
    ASSUME IInv, NEW c \in Calls, SendOk(c)
    PROVE  IInv'
<1> USE CallsAssumption DEF SendOk, mapVars, lifeVars, ctxVars, Goto,
      SessionAlive, NoTag, Answers, Unanswered
<1>1. TypeOK'
  BY DEF IInv, TypeOK, Steps
<1>2. IdsAreUnique'
  BY DEF IInv, IdsAreUnique
<1>3. CallsAreInStep'
  BY DEF IInv, TypeOK, CallsAreInStep
<1>4. MapIsRight'
  BY DEF IInv, IdsAreUnique, CallsAreInStep, MapIsRight
<1>5. EventIsRight'
  BY DEF IInv, EventIsRight
<1>6. TeardownIsFinal'
  BY DEF IInv, CallsAreInStep, TeardownIsFinal
<1>7. PromisesKeepTheAnswer'
  BY DEF IInv, PromisesKeepTheAnswer
<1>8. TaggedAnswersStayPrivate'
  BY DEF IInv, TaggedAnswersStayPrivate
<1>9. SendersAreOwed'
  BY DEF IInv, SendersAreOwed
<1>10. WaitersAreServed'
  BY DEF IInv, WaitersAreServed
<1> QED
  BY <1>1, <1>2, <1>3, <1>4, <1>5, <1>6, <1>7, <1>8, <1>9, <1>10 DEF IInv

\* A refused message leaves its sender in the map for RemoveSender to find
\* (session.rs:58-61).
LEMMA SendErrPreserves ==
    ASSUME IInv, NEW c \in Calls, SendErr(c)
    PROVE  IInv'
<1> USE CallsAssumption DEF SendErr, mapVars, lifeVars, brokerVars, ctxVars,
      Goto, SessionAlive, NoTag, Answers, Unanswered
<1>1. TypeOK'
  BY DEF IInv, TypeOK, Steps
<1>2. IdsAreUnique'
  BY DEF IInv, IdsAreUnique
<1>3. CallsAreInStep'
  BY DEF IInv, TypeOK, CallsAreInStep
<1>4. MapIsRight'
  BY DEF IInv, MapIsRight
<1>5. EventIsRight'
  BY DEF IInv, EventIsRight
<1>6. TeardownIsFinal'
  BY DEF IInv, TeardownIsFinal
<1>7. PromisesKeepTheAnswer'
  BY DEF IInv, PromisesKeepTheAnswer
<1>8. TaggedAnswersStayPrivate'
  BY DEF IInv, TaggedAnswersStayPrivate
<1>9. SendersAreOwed'
  BY DEF IInv, SendersAreOwed
<1>10. WaitersAreServed'
  BY DEF IInv, WaitersAreServed
<1> QED
  BY <1>1, <1>2, <1>3, <1>4, <1>5, <1>6, <1>7, <1>8, <1>9, <1>10 DEF IInv

\* A call that gives the session mutex back is done, or goes on to take its sender
\* back (async_support.rs:400-402).
LEMMA UnlockInnerPreserves ==
    ASSUME IInv, NEW c \in Calls, UnlockInner(c)
    PROVE  IInv'
<1> USE CallsAssumption DEF UnlockInner, mapVars, lifeVars, brokerVars,
      ctxVars, Goto, SessionAlive, NoTag, Answers, Unanswered
<1>1. TypeOK'
  BY DEF IInv, TypeOK, Steps
<1>2. IdsAreUnique'
  BY DEF IInv, IdsAreUnique
<1>3. CallsAreInStep'
  BY DEF IInv, CallsAreInStep, MapIsRight
<1>4. MapIsRight'
  BY DEF IInv, MapIsRight
<1>5. EventIsRight'
  BY DEF IInv, EventIsRight
<1>6. TeardownIsFinal'
  BY DEF IInv, TeardownIsFinal
<1>7. PromisesKeepTheAnswer'
  BY DEF IInv, PromisesKeepTheAnswer
<1>8. TaggedAnswersStayPrivate'
  BY DEF IInv, TaggedAnswersStayPrivate
<1>9. SendersAreOwed'
  BY DEF IInv, TypeOK, CallsAreInStep, SendersAreOwed
<1>10. WaitersAreServed'
  BY DEF IInv, WaitersAreServed
<1> QED
  BY <1>1, <1>2, <1>3, <1>4, <1>5, <1>6, <1>7, <1>8, <1>9, <1>10 DEF IInv

\* A failed publish removes exactly its own sender (async_support.rs:402-405).
LEMMA RemoveSenderPreserves ==
    ASSUME IInv, NEW c \in Calls, RemoveSender(c)
    PROVE  IInv'
<1> USE CallsAssumption DEF RemoveSender, lifeVars, brokerVars, ctxVars, Goto,
      Lookup, SessionAlive, NoTag, Answers, Unanswered
<1>1. TypeOK'
  BY DEF IInv, TypeOK, Steps, RxStates
<1>2. IdsAreUnique'
  BY DEF IInv, IdsAreUnique
<1>3. CallsAreInStep'
  BY DEF IInv, TypeOK, CallsAreInStep
<1>4. MapIsRight'
  BY DEF IInv, IdsAreUnique, CallsAreInStep, MapIsRight
<1>5. EventIsRight'
  BY DEF IInv, EventIsRight
<1>6. TeardownIsFinal'
  BY DEF IInv, TeardownIsFinal
<1>7. PromisesKeepTheAnswer'
  BY DEF IInv, PromisesKeepTheAnswer
<1>8. TaggedAnswersStayPrivate'
  BY DEF IInv, TaggedAnswersStayPrivate
<1>9. SendersAreOwed'
  BY DEF IInv, SendersAreOwed
<1>10. WaitersAreServed'
  BY DEF IInv, TypeOK, IdsAreUnique, CallsAreInStep, WaitersAreServed
<1> QED
  BY <1>1, <1>2, <1>3, <1>4, <1>5, <1>6, <1>7, <1>8, <1>9, <1>10 DEF IInv

\* A caller that stops waiting leaves its sender to the answer that is still owed
\* (async_support.rs:226).
LEMMA DropReceiverPreserves ==
    ASSUME IInv, NEW c \in Calls, DropReceiver(c)
    PROVE  IInv'
<1> USE CallsAssumption DEF DropReceiver, pubVars, lifeVars, brokerVars,
      ctxVars, SessionAlive, NoTag, Answers, Unanswered
<1>1. TypeOK'
  BY DEF IInv, TypeOK, RxStates
<1>2. IdsAreUnique'
  BY DEF IInv, IdsAreUnique
<1>3. CallsAreInStep'
  BY DEF IInv, CallsAreInStep
<1>4. MapIsRight'
  BY DEF IInv, MapIsRight
<1>5. EventIsRight'
  BY DEF IInv, EventIsRight
<1>6. TeardownIsFinal'
  BY DEF IInv, TeardownIsFinal
<1>7. PromisesKeepTheAnswer'
  BY DEF IInv, PromisesKeepTheAnswer
<1>8. TaggedAnswersStayPrivate'
  BY DEF IInv, TaggedAnswersStayPrivate
<1>9. SendersAreOwed'
  BY DEF IInv, SendersAreOwed
<1>10. WaitersAreServed'
  BY DEF IInv, WaitersAreServed
<1> QED
  BY <1>1, <1>2, <1>3, <1>4, <1>5, <1>6, <1>7, <1>8, <1>9, <1>10 DEF IInv

\* An answer is about a message in the window, and there is one.
LEMMA BrokerAnswersPreserves ==
    ASSUME IInv, NEW c \in Calls, NEW a \in Answers, BrokerAnswers(c, a)
    PROVE  IInv'
<1> USE CallsAssumption DEF BrokerAnswers, pubVars, mapVars, lifeVars,
      ctxVars, SessionAlive, NoTag, Answers, Unanswered
<1>1. TypeOK'
  BY DEF IInv, TypeOK
<1>2. IdsAreUnique'
  BY DEF IInv, IdsAreUnique
<1>3. CallsAreInStep'
  BY DEF IInv, CallsAreInStep
<1>4. MapIsRight'
  BY DEF IInv, MapIsRight
<1>5. EventIsRight'
  BY DEF IInv, EventIsRight
<1>6. TeardownIsFinal'
  BY DEF IInv, TeardownIsFinal
<1>7. PromisesKeepTheAnswer'
  BY DEF IInv, PromisesKeepTheAnswer
<1>8. TaggedAnswersStayPrivate'
  BY DEF IInv, TaggedAnswersStayPrivate
<1>9. SendersAreOwed'
  BY DEF IInv, SendersAreOwed
<1>10. WaitersAreServed'
  BY DEF IInv, WaitersAreServed
<1> QED
  BY <1>1, <1>2, <1>3, <1>4, <1>5, <1>6, <1>7, <1>8, <1>9, <1>10 DEF IInv

\* static_on_event publishes the correlation pointer of the message it was called
\* for (util.rs:99-107).
LEMMA AnswerEventPreserves ==
    ASSUME IInv, NEW c \in Calls, AnswerEvent(c)
    PROVE  IInv'
<1> USE CallsAssumption DEF AnswerEvent, pubVars, mapVars, lifeVars,
      brokerVars, SessionAlive, NoTag, Answers, Unanswered
<1>1. TypeOK'
  BY DEF IInv, TypeOK, CtxSteps
<1>2. IdsAreUnique'
  BY DEF IInv, IdsAreUnique
<1>3. CallsAreInStep'
  BY DEF IInv, CallsAreInStep
<1>4. MapIsRight'
  BY DEF IInv, MapIsRight
<1>5. EventIsRight'
  BY DEF IInv, EventIsRight
<1>6. TeardownIsFinal'
  BY DEF IInv, TeardownIsFinal
<1>7. PromisesKeepTheAnswer'
  BY DEF IInv, PromisesKeepTheAnswer
<1>8. TaggedAnswersStayPrivate'
  BY DEF IInv, TaggedAnswersStayPrivate
<1>9. SendersAreOwed'
  BY DEF IInv, SendersAreOwed
<1>10. WaitersAreServed'
  BY DEF IInv, WaitersAreServed
<1> QED
  BY <1>1, <1>2, <1>3, <1>4, <1>5, <1>6, <1>7, <1>8, <1>9, <1>10 DEF IInv

\* Every other event comes without a correlation pointer (util.rs:99-107).
LEMMA OtherEventPreserves ==
    ASSUME IInv, OtherEvent
    PROVE  IInv'
<1> USE CallsAssumption DEF OtherEvent, pubVars, mapVars, lifeVars,
      brokerVars, SessionAlive, NoTag, Answers, Unanswered
<1>1. TypeOK'
  BY DEF IInv, TypeOK, CtxSteps
<1>2. IdsAreUnique'
  BY DEF IInv, IdsAreUnique
<1>3. CallsAreInStep'
  BY DEF IInv, CallsAreInStep
<1>4. MapIsRight'
  BY DEF IInv, MapIsRight
<1>5. EventIsRight'
  BY DEF IInv, EventIsRight
<1>6. TeardownIsFinal'
  BY DEF IInv, TeardownIsFinal
<1>7. PromisesKeepTheAnswer'
  BY DEF IInv, PromisesKeepTheAnswer
<1>8. TaggedAnswersStayPrivate'
  BY DEF IInv, TaggedAnswersStayPrivate
<1>9. SendersAreOwed'
  BY DEF IInv, SendersAreOwed
<1>10. WaitersAreServed'
  BY DEF IInv, WaitersAreServed
<1> QED
  BY <1>1, <1>2, <1>3, <1>4, <1>5, <1>6, <1>7, <1>8, <1>9, <1>10 DEF IInv

\* The closure takes the sender of the very message the event is about, because ids
\* are unique (async_support.rs:213-220).
LEMMA ClosureTakePreserves ==
    ASSUME IInv, ClosureTake
    PROVE  IInv'
<1> USE CallsAssumption DEF ClosureTake, pubVars, lifeVars, brokerVars,
      Lookup, SessionAlive, NoTag, Answers, Unanswered
<1>1. TypeOK'
  BY DEF IInv, TypeOK, CtxSteps
<1>2. IdsAreUnique'
  BY DEF IInv, IdsAreUnique
<1>3. CallsAreInStep'
  BY DEF IInv, CallsAreInStep
<1>4. MapIsRight'
  BY DEF IInv, TypeOK, IdsAreUnique, CallsAreInStep, MapIsRight, EventIsRight
<1>5. EventIsRight'
  BY DEF IInv, TypeOK, IdsAreUnique, EventIsRight
<1>6. TeardownIsFinal'
  BY DEF IInv, TeardownIsFinal
<1>7. PromisesKeepTheAnswer'
  BY DEF IInv, PromisesKeepTheAnswer
<1>8. TaggedAnswersStayPrivate'
  BY DEF IInv, TaggedAnswersStayPrivate
<1>9. SendersAreOwed'
  BY DEF IInv, SendersAreOwed
<1>10. WaitersAreServed'
  BY DEF IInv, EventIsRight, WaitersAreServed
<1> QED
  BY <1>1, <1>2, <1>3, <1>4, <1>5, <1>6, <1>7, <1>8, <1>9, <1>10 DEF IInv

\* An answer passed to the event channel has no tag: a tagged one's sender is in the
\* map (async_support.rs:213-220).
LEMMA ClosurePassPreserves ==
    ASSUME IInv, ClosurePass
    PROVE  IInv'
<1> USE CallsAssumption DEF ClosurePass, pubVars, mapVars, lifeVars,
      brokerVars, Lookup, SessionAlive, NoTag, Answers, Unanswered
<1>1. TypeOK'
  BY DEF IInv, TypeOK, CtxSteps
<1>2. IdsAreUnique'
  BY DEF IInv, IdsAreUnique
<1>3. CallsAreInStep'
  BY DEF IInv, CallsAreInStep
<1>4. MapIsRight'
  BY DEF IInv, MapIsRight
<1>5. EventIsRight'
  BY DEF IInv, TypeOK, IdsAreUnique, MapIsRight, EventIsRight
<1>6. TeardownIsFinal'
  BY DEF IInv, TeardownIsFinal
<1>7. PromisesKeepTheAnswer'
  BY DEF IInv, PromisesKeepTheAnswer
<1>8. TaggedAnswersStayPrivate'
  BY DEF IInv, TaggedAnswersStayPrivate
<1>9. SendersAreOwed'
  BY DEF IInv, SendersAreOwed
<1>10. WaitersAreServed'
  BY DEF IInv, WaitersAreServed
<1> QED
  BY <1>1, <1>2, <1>3, <1>4, <1>5, <1>6, <1>7, <1>8, <1>9, <1>10 DEF IInv

\* The taken sender is used with its own message's answer (async_support.rs:221-227).
LEMMA ClosureResolvePreserves ==
    ASSUME IInv, ClosureResolve
    PROVE  IInv'
<1> USE CallsAssumption DEF ClosureResolve, pubVars, lifeVars, brokerVars,
      Outcome, SessionAlive, NoTag, Answers, Unanswered
<1>1. TypeOK'
  BY DEF IInv, TypeOK, RxStates, CtxSteps
<1>2. IdsAreUnique'
  BY DEF IInv, IdsAreUnique
<1>3. CallsAreInStep'
  BY DEF IInv, CallsAreInStep, EventIsRight
<1>4. MapIsRight'
  BY DEF IInv, MapIsRight
<1>5. EventIsRight'
  BY DEF IInv, EventIsRight
<1>6. TeardownIsFinal'
  BY DEF IInv, TeardownIsFinal
<1>7. PromisesKeepTheAnswer'
  BY DEF IInv, EventIsRight, PromisesKeepTheAnswer
<1>8. TaggedAnswersStayPrivate'
  BY DEF IInv, TaggedAnswersStayPrivate
<1>9. SendersAreOwed'
  BY DEF IInv, SendersAreOwed
<1>10. WaitersAreServed'
  BY DEF IInv, WaitersAreServed
<1> QED
  BY <1>1, <1>2, <1>3, <1>4, <1>5, <1>6, <1>7, <1>8, <1>9, <1>10 DEF IInv

\* What goes to the event channel has no tag (async_support.rs:228-234).
LEMMA ClosureForwardPreserves ==
    ASSUME IInv, ClosureForward
    PROVE  IInv'
<1> USE CallsAssumption DEF ClosureForward, pubVars, mapVars, lifeVars,
      brokerVars, SessionAlive, NoTag, Answers, Unanswered
<1>1. TypeOK'
  BY DEF IInv, TypeOK, CtxSteps
<1>2. IdsAreUnique'
  BY DEF IInv, IdsAreUnique
<1>3. CallsAreInStep'
  BY DEF IInv, CallsAreInStep, EventIsRight
<1>4. MapIsRight'
  BY DEF IInv, MapIsRight, EventIsRight
<1>5. EventIsRight'
  BY DEF IInv, EventIsRight
<1>6. TeardownIsFinal'
  BY DEF IInv, TeardownIsFinal
<1>7. PromisesKeepTheAnswer'
  BY DEF IInv, PromisesKeepTheAnswer
<1>8. TaggedAnswersStayPrivate'
  BY DEF IInv, EventIsRight, TaggedAnswersStayPrivate
<1>9. SendersAreOwed'
  BY DEF IInv, SendersAreOwed
<1>10. WaitersAreServed'
  BY DEF IInv, WaitersAreServed
<1> QED
  BY <1>1, <1>2, <1>3, <1>4, <1>5, <1>6, <1>7, <1>8, <1>9, <1>10 DEF IInv

\* The thread-local is null again when static_on_event returns (util.rs:106-110).
LEMMA EventReturnPreserves ==
    ASSUME IInv, EventReturn
    PROVE  IInv'
<1> USE CallsAssumption DEF EventReturn, pubVars, mapVars, lifeVars,
      SessionAlive, NoTag, Answers, Unanswered
<1>1. TypeOK'
  BY DEF IInv, TypeOK, CtxSteps
<1>2. IdsAreUnique'
  BY DEF IInv, IdsAreUnique
<1>3. CallsAreInStep'
  BY DEF IInv, CallsAreInStep
<1>4. MapIsRight'
  BY DEF IInv, MapIsRight
<1>5. EventIsRight'
  BY DEF IInv, EventIsRight
<1>6. TeardownIsFinal'
  BY DEF IInv, TeardownIsFinal
<1>7. PromisesKeepTheAnswer'
  BY DEF IInv, PromisesKeepTheAnswer
<1>8. TaggedAnswersStayPrivate'
  BY DEF IInv, TaggedAnswersStayPrivate
<1>9. SendersAreOwed'
  BY DEF IInv, TypeOK, MapIsRight, SendersAreOwed
<1>10. WaitersAreServed'
  BY DEF IInv, WaitersAreServed
<1> QED
  BY <1>1, <1>2, <1>3, <1>4, <1>5, <1>6, <1>7, <1>8, <1>9, <1>10 DEF IInv

\* An AsyncSession that is not the last Arc leaves the map alone; the last one takes
\* every sender with it (async_support.rs:569-582, session.rs:210-219).
LEMMA DropSessionPreserves ==
    ASSUME IInv, DropSession
    PROVE  IInv'
<1> USE CallsAssumption DEF DropSession, pubVars, mapVars, ctxVars, Teardown,
      SessionAlive, NoTag, Answers, Unanswered
<1>1. TypeOK'
  <2>1. CASE flow
    BY <2>1 DEF IInv, TypeOK
  <2>2. CASE ~flow
    BY <2>2, ZenonT(60) DEF IInv, TypeOK, RxStates
  <2> QED
    BY <2>1, <2>2
<1>2. IdsAreUnique'
  BY DEF IInv, IdsAreUnique
<1>3. CallsAreInStep'
  BY DEF IInv, CallsAreInStep
<1>4. MapIsRight'
  BY DEF IInv, MapIsRight
<1>5. EventIsRight'
  BY DEF IInv, EventIsRight
<1>6. TeardownIsFinal'
  BY DEF IInv, TeardownIsFinal
<1>7. PromisesKeepTheAnswer'
  BY DEF IInv, PromisesKeepTheAnswer
<1>8. TaggedAnswersStayPrivate'
  BY DEF IInv, TaggedAnswersStayPrivate
<1>9. SendersAreOwed'
  BY DEF IInv, SendersAreOwed
<1>10. WaitersAreServed'
  BY DEF IInv, WaitersAreServed
<1> QED
  BY <1>1, <1>2, <1>3, <1>4, <1>5, <1>6, <1>7, <1>8, <1>9, <1>10 DEF IInv

\* The same for an OwnedAsyncFlow (async_support.rs:613-616, 705-713).
LEMMA DropFlowPreserves ==
    ASSUME IInv, DropFlow
    PROVE  IInv'
<1> USE CallsAssumption DEF DropFlow, pubVars, mapVars, ctxVars, Teardown,
      SessionAlive, NoTag, Answers, Unanswered
<1>1. TypeOK'
  <2>1. CASE handle
    BY <2>1 DEF IInv, TypeOK
  <2>2. CASE ~handle
    BY <2>2 DEF IInv, TypeOK, RxStates
  <2> QED
    BY <2>1, <2>2
<1>2. IdsAreUnique'
  BY DEF IInv, IdsAreUnique
<1>3. CallsAreInStep'
  BY DEF IInv, CallsAreInStep
<1>4. MapIsRight'
  BY DEF IInv, CallsAreInStep, MapIsRight
<1>5. EventIsRight'
  BY DEF IInv, EventIsRight
<1>6. TeardownIsFinal'
  BY DEF IInv, TeardownIsFinal
<1>7. PromisesKeepTheAnswer'
  BY DEF IInv, PromisesKeepTheAnswer
<1>8. TaggedAnswersStayPrivate'
  BY DEF IInv, TaggedAnswersStayPrivate
<1>9. SendersAreOwed'
  BY DEF IInv, SendersAreOwed
<1>10. WaitersAreServed'
  BY DEF IInv, WaitersAreServed
<1> QED
  BY <1>1, <1>2, <1>3, <1>4, <1>5, <1>6, <1>7, <1>8, <1>9, <1>10 DEF IInv

-----------------------------------------------------------------------------
(* The invariant, and the properties that are parts of it.                 *)

\* No step of the session, the broker, the context thread or an owner breaks the
\* invariant, and neither does a step that changes nothing.
LEMMA StepPreserves == IInv /\ [Next]_vars => IInv'
<1> SUFFICES ASSUME IInv, [Next]_vars
             PROVE  IInv'
  OBVIOUS
<1>1. CASE UNCHANGED vars
  BY <1>1 DEF vars, pubVars, mapVars, lifeVars, brokerVars, ctxVars, IInv, TypeOK,
        IdsAreUnique, CallsAreInStep, MapIsRight, EventIsRight, TeardownIsFinal,
        PromisesKeepTheAnswer, TaggedAnswersStayPrivate, SendersAreOwed,
        WaitersAreServed, SessionAlive
<1>2. ASSUME NEW c \in Calls, NEW t \in BOOLEAN, NEW g \in BOOLEAN, Begin(c, t, g)
      PROVE  IInv'
  BY <1>2, BeginPreserves
<1>3. ASSUME NEW c \in Calls, Publisher(c) \/ SendErr(c) \/ DropReceiver(c)
      PROVE  IInv'
  BY <1>3, FetchIdPreserves, SetTagPreserves, InsertSenderPreserves,
     LockInnerPreserves, SendOkPreserves, UnlockInnerPreserves,
     RemoveSenderPreserves, SendErrPreserves, DropReceiverPreserves
     DEF Publisher
<1>4. ASSUME NEW c \in Calls, NEW a \in Answers, BrokerAnswers(c, a)
      PROVE  IInv'
  BY <1>4, BrokerAnswersPreserves
<1>5. ASSUME NEW c \in Calls, AnswerEvent(c)
      PROVE  IInv'
  BY <1>5, AnswerEventPreserves
<1>6. CASE OtherEvent
  BY <1>6, OtherEventPreserves
<1>7. CASE ClosureTake \/ ClosurePass \/ ClosureResolve \/ ClosureForward \/ EventReturn
  BY <1>7, ClosureTakePreserves, ClosurePassPreserves, ClosureResolvePreserves,
     ClosureForwardPreserves, EventReturnPreserves
<1>8. CASE DropSession \/ DropFlow
  BY <1>8, DropSessionPreserves, DropFlowPreserves
<1>9. CASE Finished
  BY <1>1, <1>9 DEF Finished
<1> QED
  BY <1>1, <1>2, <1>3, <1>4, <1>5, <1>6, <1>7, <1>8, <1>9 DEF Next

\* IInv is an invariant of publishing on an AsyncSession, for any number of calls.
THEOREM Invariance == Spec => []IInv
  BY InitEstablishes, StepPreserves, PTL DEF Spec

\* The types of the session's, the map's and the context thread's state.
THEOREM TypeCorrect == Spec => []TypeOK
<1>1. IInv => TypeOK
  BY DEF IInv
<1> QED
  BY <1>1, Invariance, PTL

\* A receiver is only ever resolved with the broker's answer to its own message,
\* however the calls, the answers and the drops interleave.
THEOREM PromisesKept == Spec => []PromisesKeepTheAnswer
<1>1. IInv => PromisesKeepTheAnswer
  BY DEF IInv
<1> QED
  BY <1>1, Invariance, PTL

\* The answer to a tagged message never reaches the event channel, also when it
\* arrives before publish has returned.
THEOREM AnswersPrivate == Spec => []TaggedAnswersStayPrivate
<1>1. IInv => TaggedAnswersStayPrivate
  BY DEF IInv
<1> QED
  BY <1>1, Invariance, PTL

\* The map keeps no sender it does not owe an answer, except those of DIRECT and of
\* untagged messages.
THEOREM NoSenderForgotten == Spec => []SendersAreOwed
<1>1. IInv => SendersAreOwed
  BY DEF IInv
<1> QED
  BY <1>1, Invariance, PTL

\* Nobody waits for a sender that is gone, and no receiver is closed while the C
\* session lives.
THEOREM NoWaiterForgotten == Spec => []WaitersAreServed
<1>1. IInv => WaitersAreServed
  BY DEF IInv
<1> QED
  BY <1>1, Invariance, PTL

-----------------------------------------------------------------------------
(* AsyncPublish implements AckPromise.                                     *)

\* Inserting a sender is the abstract Promise: the map has nobody to displace, and
\* the session is alive because its handle is (async_support.rs:397-399).
LEMMA InsertSenderPromises ==
    ASSUME IInv, NEW c \in Calls, InsertSender(c)
    PROVE  AP!Promise(c)
<1>1. Lookup(corrId[c]) = {}
  BY DEF IInv, TypeOK, IdsAreUnique, CallsAreInStep, InsertSender, Lookup, NoTag
<1>2. rx' = [rx EXCEPT ![c] = "waiting"]
  BY <1>1 DEF IInv, TypeOK, InsertSender
<1>3. rx[c] = "none" /\ SessionAlive
  BY DEF IInv, CallsAreInStep, InsertSender, SessionAlive
<1>4. UNCHANGED <<answer, SessionAlive>>
  BY DEF InsertSender, SessionAlive, lifeVars, brokerVars
<1> QED
  BY <1>2, <1>3, <1>4 DEF AP!Promise

\* Taking the sender back withdraws the promise; so does dropping the receiver
\* (async_support.rs:402-405).
LEMMA GivingUpWithdraws ==
    ASSUME IInv, NEW c \in Calls, RemoveSender(c) \/ DropReceiver(c)
    PROVE  AP!Withdraw(c)
<1>1. rx[c] = "waiting" /\ rx' = [rx EXCEPT ![c] = "dropped"]
  BY DEF IInv, CallsAreInStep, RemoveSender, DropReceiver
<1>2. UNCHANGED <<answer, SessionAlive>>
  BY DEF RemoveSender, DropReceiver, SessionAlive, lifeVars, brokerVars
<1> QED
  BY <1>1, <1>2 DEF AP!Withdraw

\* The broker decides about a message in the window of a session that is alive.
LEMMA BrokerDecides ==
    ASSUME IInv, NEW c \in Calls, NEW a \in Answers, BrokerAnswers(c, a)
    PROVE  AP!Answer(c, a)
<1>1. SessionAlive
  BY DEF IInv, TeardownIsFinal, BrokerAnswers
<1>2. UNCHANGED <<rx, SessionAlive>>
  BY DEF BrokerAnswers, SessionAlive, lifeVars, mapVars
<1> QED
  BY <1>1, <1>2 DEF BrokerAnswers, AP!Answer, AP!Unanswered, Unanswered

\* The closure resolves the promise of the message the event is about, or finds its
\* receiver gone (async_support.rs:221-227).
LEMMA ClosureResolves ==
    ASSUME IInv, ClosureResolve
    PROVE  (\E c \in Calls : AP!Resolve(c)) \/ UNCHANGED AP!vars
<1>1. UNCHANGED <<answer, SessionAlive>> /\ SessionAlive
  BY DEF IInv, TeardownIsFinal, ClosureResolve, SessionAlive, lifeVars, brokerVars
<1>2. ctxCall \in Calls /\ taken = {ctxCall} /\ answer[ctxCall] \in Answers
  BY DEF IInv, TypeOK, EventIsRight, ClosureResolve
<1>3. CASE rx[ctxCall] = "waiting"
  <2>1. rx' = [rx EXCEPT ![ctxCall] = Outcome(answer[ctxCall])]
    BY <1>2, <1>3 DEF IInv, TypeOK, ClosureResolve
  <2>2. AP!Resolve(ctxCall)
    BY <1>1, <1>2, <1>3, <2>1
       DEF AP!Resolve, AP!Outcome, AP!Answers, Outcome, Answers
  <2> QED
    BY <1>2, <2>2
<1>4. CASE rx[ctxCall] # "waiting"
  <2>1. rx' = rx
    BY <1>2, <1>4 DEF IInv, TypeOK, ClosureResolve
  <2> QED
    BY <1>1, <2>1 DEF AP!vars
<1> QED
  BY <1>3, <1>4

\* The last Arc, a session's or a flow's, closes every promise that still waits;
\* the one before it closes none (async_support.rs:569-582, 705-713).
LEMMA DroppingCloses ==
    ASSUME IInv, DropSession \/ DropFlow
    PROVE  AP!Close \/ UNCHANGED AP!vars
<1>1. answer' = answer
  BY DEF DropSession, DropFlow
<1>2. CASE SessionAlive'
  <2>1. UNCHANGED <<rx, SessionAlive>>
    BY <1>2 DEF DropSession, DropFlow, SessionAlive, mapVars
  <2> QED
    BY <1>1, <2>1 DEF AP!vars
<1>3. CASE ~SessionAlive'
  <2>1. Teardown /\ SessionAlive
    BY <1>3 DEF DropSession, DropFlow, SessionAlive
  <2>2. \A c \in Calls : rx[c] = "waiting" => c \in ackSenders
    BY <2>1 DEF IInv, EventIsRight, WaitersAreServed, Teardown
  <2>3. rx' = [c \in Calls |-> IF rx[c] = "waiting" THEN "closed" ELSE rx[c]]
    BY <2>1, <2>2 DEF Teardown
  <2> QED
    BY <1>1, <1>3, <2>1, <2>3 DEF AP!Close
<1> QED
  BY <1>2, <1>3

\* Nothing else is visible to the callers of publish_with_ack.
LEMMA OthersStutter ==
    ASSUME UNCHANGED <<rx, answer, lifeVars>>
    PROVE  UNCHANGED AP!vars
  BY DEF AP!vars, lifeVars, SessionAlive

\* Every step is an abstract step or changes nothing a caller can see.
LEMMA StepRefines == IInv /\ [Next]_vars => [AP!Next]_AP!vars
<1> SUFFICES ASSUME IInv, [Next]_vars
             PROVE  AP!Next \/ UNCHANGED AP!vars
  OBVIOUS
<1>1. ASSUME NEW c \in Calls, InsertSender(c)
      PROVE  AP!Next
  BY <1>1, InsertSenderPromises DEF AP!Next
<1>2. ASSUME NEW c \in Calls, RemoveSender(c) \/ DropReceiver(c)
      PROVE  AP!Next
  BY <1>2, GivingUpWithdraws DEF AP!Next
<1>3. ASSUME NEW c \in Calls, NEW a \in Answers, BrokerAnswers(c, a)
      PROVE  AP!Next
  BY <1>3, BrokerDecides DEF AP!Next, AP!Answers, Answers
<1>4. CASE ClosureResolve
  BY <1>4, ClosureResolves DEF AP!Next
<1>5. CASE DropSession \/ DropFlow
  BY <1>5, DroppingCloses DEF AP!Next
<1>6. ASSUME UNCHANGED <<rx, answer, lifeVars>>
      PROVE  UNCHANGED AP!vars
  BY <1>6, OthersStutter
<1>7. ASSUME NEW c \in Calls, NEW t \in BOOLEAN, NEW g \in BOOLEAN, Begin(c, t, g)
      PROVE  UNCHANGED <<rx, answer, lifeVars>>
  BY <1>7 DEF Begin, mapVars, brokerVars
<1>8. ASSUME NEW c \in Calls,
             \/ FetchId(c) \/ SetTag(c) \/ LockInner(c) \/ SendOk(c) \/ SendErr(c)
             \/ UnlockInner(c) \/ AnswerEvent(c)
      PROVE  UNCHANGED <<rx, answer, lifeVars>>
  BY <1>8 DEF FetchId, SetTag, LockInner, SendOk, SendErr, UnlockInner, AnswerEvent,
              mapVars, brokerVars
<1>9. ASSUME \/ OtherEvent \/ ClosureTake \/ ClosurePass \/ ClosureForward
             \/ EventReturn \/ Finished \/ UNCHANGED vars
      PROVE  UNCHANGED <<rx, answer, lifeVars>>
  BY <1>9 DEF OtherEvent, ClosureTake, ClosurePass, ClosureForward, EventReturn,
              Finished, vars, mapVars, brokerVars
<1> QED
  BY <1>1, <1>2, <1>3, <1>4, <1>5, <1>6, <1>7, <1>8, <1>9 DEF Next, Publisher

\* Publishing on an AsyncSession keeps the promise publish_with_ack makes, with
\* the receivers as promises: every promise resolves at most once, only with the
\* broker's answer, and closes unanswered only when the C session goes.
THEOREM Refinement == Spec => ImplementsAckPromise
<1>1. Init => AP!Init
  BY DEF Init, AP!Init, SessionAlive, Unanswered, AP!Unanswered
<1> QED
  BY <1>1, StepRefines, Invariance, PTL DEF Spec, ImplementsAckPromise, AP!Spec

=============================================================================
