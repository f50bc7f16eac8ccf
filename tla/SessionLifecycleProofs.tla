----------------------- MODULE SessionLifecycleProofs -----------------------
(***************************************************************************)
(* Proofs about SessionLifecycle, for any sets of sessions and flows.      *)
(*                                                                         *)
(* IInv is inductive: one lemma for each action, and in it one step for    *)
(* each conjunct.  The orders in which things are given back are conjuncts *)
(* of IInv; that a session is destroyed once follows from it step by step. *)
(***************************************************************************)
EXTENDS SessionLifecycle, TLAPS

-----------------------------------------------------------------------------
(* The invariant holds at first.                                           *)

\* A fresh context, and nothing in it (context.rs:181-189).
LEMMA InitEstablishes == Init => IInv
<1> SUFFICES ASSUME Init PROVE IInv
  OBVIOUS
<1> USE OwnersAssumption DEF Init
<1>1. TypeOK
  <2>1. /\ ctxHandle \in BOOLEAN /\ cctx \in {"live", "destroyed"}
        /\ sess \in [Sessions -> SessStages] /\ handle \in [Sessions -> Handles]
        /\ csess \in [Sessions -> CStates] /\ cache \in [Sessions -> CStates]
    BY DEF SessStages, Handles, CStates
  <2>2. /\ async \in [Sessions -> BOOLEAN] /\ ctxRef \in [Sessions -> BOOLEAN]
        /\ closures \in [Sessions -> BOOLEAN] /\ flushed \in SUBSET Sessions
    OBVIOUS
  <2>3. /\ flow \in [Flows -> FlowStages] /\ cflow \in [Flows -> CStates]
        /\ owner \in [Flows -> Sessions \cup {NoSession}]
        /\ flowClosures \in [Flows -> BOOLEAN]
    BY DEF FlowStages, CStates
  <2> QED
    BY <2>1, <2>2, <2>3 DEF TypeOK
<1>2. SessionsAreInStage
  BY DEF SessionsAreInStage, HandleHolds
<1>3. FlowsAreInStage
  BY DEF FlowsAreInStage
<1>4. ContextIsCounted
  BY DEF ContextIsCounted
<1>5. LiveSessionsAreOwned
  BY DEF LiveSessionsAreOwned
<1>6. CallbacksFindTheirClosures
  BY DEF CallbacksFindTheirClosures
<1>7. ChildrenGoFirst
  BY DEF ChildrenGoFirst
<1> QED
  BY <1>1, <1>2, <1>3, <1>4, <1>5, <1>6, <1>7 DEF IInv

-----------------------------------------------------------------------------
(* Every action preserves it.                                              *)

\* The application's Context goes; the C context only with the last clone
\* (context.rs:159-184).
LEMMA DropContextPreserves ==
    ASSUME IInv, DropContext
    PROVE  IInv'
<1> USE OwnersAssumption DEF DropContext, flowVars, HandleHolds,
      ReleaseContext
<1>1. TypeOK'
  <2>1. CASE \A s \in Sessions : ~ctxRef[s]
    BY <2>1 DEF IInv, TypeOK, CStates
  <2>2. CASE ~ \A s \in Sessions : ~ctxRef[s]
    BY <2>2 DEF IInv, TypeOK
  <2> QED
    BY <2>1, <2>2
<1>2. SessionsAreInStage'
  BY DEF IInv, SessionsAreInStage
<1>3. FlowsAreInStage'
  BY DEF IInv, FlowsAreInStage
<1>4. ContextIsCounted'
  BY DEF IInv, ContextIsCounted
<1>5. LiveSessionsAreOwned'
  BY DEF IInv, LiveSessionsAreOwned, FlowHolds
<1>6. CallbacksFindTheirClosures'
  BY DEF IInv, CallbacksFindTheirClosures
<1>7. ChildrenGoFirst'
  BY DEF IInv, ChildrenGoFirst, TypeOK, SessionsAreInStage, FlowsAreInStage
<1> QED
  BY <1>1, <1>2, <1>3, <1>4, <1>5, <1>6, <1>7 DEF IInv

\* A builder holds a clone of a context that is alive, and its boxes
\* (session/builder.rs:184-244).
LEMMA BuildPreserves ==
    ASSUME IInv, NEW s \in Sessions, Build(s)
    PROVE  IInv'
<1> USE OwnersAssumption DEF Build, ctxVars, flowVars, HandleHolds
<1>1. TypeOK'
  BY DEF IInv, TypeOK, SessStages, Handles, CStates, FlowStages
<1>2. SessionsAreInStage'
  BY DEF IInv, SessionsAreInStage, TypeOK
<1>3. FlowsAreInStage'
  BY DEF IInv, FlowsAreInStage
<1>4. ContextIsCounted'
  BY DEF IInv, ContextIsCounted
<1>5. LiveSessionsAreOwned'
  BY DEF IInv, LiveSessionsAreOwned, FlowHolds
<1>6. CallbacksFindTheirClosures'
  BY DEF IInv, CallbacksFindTheirClosures
<1>7. ChildrenGoFirst'
  BY DEF IInv, ChildrenGoFirst
<1> QED
  BY <1>1, <1>2, <1>3, <1>4, <1>5, <1>6, <1>7 DEF IInv

\* The C session is created in a context its builder keeps alive
\* (session/builder.rs:245-257).
LEMMA CreateOkPreserves ==
    ASSUME IInv, NEW s \in Sessions, CreateOk(s)
    PROVE  IInv'
<1> USE OwnersAssumption DEF CreateOk, ctxVars, flowVars, HandleHolds
<1>1. TypeOK'
  BY DEF IInv, TypeOK, SessStages, Handles, CStates, FlowStages
<1>2. SessionsAreInStage'
  BY DEF IInv, SessionsAreInStage, TypeOK
<1>3. FlowsAreInStage'
  BY DEF IInv, FlowsAreInStage
<1>4. ContextIsCounted'
  BY DEF IInv, ContextIsCounted
<1>5. LiveSessionsAreOwned'
  BY DEF IInv, LiveSessionsAreOwned, FlowHolds
<1>6. CallbacksFindTheirClosures'
  BY DEF IInv, CallbacksFindTheirClosures, SessionsAreInStage
<1>7. ChildrenGoFirst'
  BY DEF IInv, TypeOK, SessionsAreInStage, FlowsAreInStage, ContextIsCounted,
      ChildrenGoFirst
<1> QED
  BY <1>1, <1>2, <1>3, <1>4, <1>5, <1>6, <1>7 DEF IInv

\* A create that fails gives back what the builder held
\* (session/builder.rs:257-262).
LEMMA CreateErrPreserves ==
    ASSUME IInv, NEW s \in Sessions, CreateErr(s)
    PROVE  IInv'
<1> USE OwnersAssumption DEF CreateErr, flowVars, HandleHolds, ReleaseContext,
      BuildErr
<1>1. TypeOK'
  BY DEF IInv, TypeOK, SessStages, Handles, CStates, FlowStages
<1>2. SessionsAreInStage'
  BY DEF IInv, SessionsAreInStage, TypeOK
<1>3. FlowsAreInStage'
  BY DEF IInv, FlowsAreInStage
<1>4. ContextIsCounted'
  BY DEF IInv, ContextIsCounted, TypeOK
<1>5. LiveSessionsAreOwned'
  BY DEF IInv, LiveSessionsAreOwned, FlowHolds
<1>6. CallbacksFindTheirClosures'
  BY DEF IInv, CallbacksFindTheirClosures, TypeOK
<1>7. ChildrenGoFirst'
  BY DEF IInv, ChildrenGoFirst, TypeOK, SessionsAreInStage, FlowsAreInStage
<1> QED
  BY <1>1, <1>2, <1>3, <1>4, <1>5, <1>6, <1>7 DEF IInv

\* So does a connect that fails, which leaves the C session behind
\* (session/builder.rs:275-279).
LEMMA ConnectErrPreserves ==
    ASSUME IInv, NEW s \in Sessions, ConnectErr(s)
    PROVE  IInv'
<1> USE OwnersAssumption DEF ConnectErr, flowVars, HandleHolds,
      ReleaseContext, BuildErr
<1>1. TypeOK'
  BY DEF IInv, TypeOK, SessStages, Handles, CStates, FlowStages
<1>2. SessionsAreInStage'
  BY DEF IInv, SessionsAreInStage, TypeOK
<1>3. FlowsAreInStage'
  BY DEF IInv, FlowsAreInStage
<1>4. ContextIsCounted'
  BY DEF IInv, ContextIsCounted, TypeOK
<1>5. LiveSessionsAreOwned'
  BY DEF IInv, LiveSessionsAreOwned, FlowHolds
<1>6. CallbacksFindTheirClosures'
  BY DEF IInv, CallbacksFindTheirClosures, TypeOK
<1>7. ChildrenGoFirst'
  BY DEF IInv, ChildrenGoFirst, TypeOK, SessionsAreInStage, FlowsAreInStage
<1> QED
  BY <1>1, <1>2, <1>3, <1>4, <1>5, <1>6, <1>7 DEF IInv

\* A session that is live has its one owner (session/builder.rs:264-274).
LEMMA ConnectOkPreserves ==
    ASSUME IInv, NEW s \in Sessions, ConnectOk(s)
    PROVE  IInv'
<1> USE OwnersAssumption DEF ConnectOk, ctxVars, flowVars, HandleHolds
<1>1. TypeOK'
  BY DEF IInv, TypeOK, SessStages, Handles, CStates, FlowStages
<1>2. SessionsAreInStage'
  BY DEF IInv, SessionsAreInStage, TypeOK
<1>3. FlowsAreInStage'
  BY DEF IInv, FlowsAreInStage
<1>4. ContextIsCounted'
  BY DEF IInv, ContextIsCounted
<1>5. LiveSessionsAreOwned'
  BY DEF IInv, LiveSessionsAreOwned, TypeOK, FlowHolds
<1>6. CallbacksFindTheirClosures'
  BY DEF IInv, CallbacksFindTheirClosures
<1>7. ChildrenGoFirst'
  BY DEF IInv, ChildrenGoFirst
<1> QED
  BY <1>1, <1>2, <1>3, <1>4, <1>5, <1>6, <1>7 DEF IInv

\* An owner that goes destroys the session only if no flow counts in it
\* (async_support.rs:306-312, session.rs:210-219).
LEMMA DropSessionPreserves ==
    ASSUME IInv, NEW s \in Sessions, DropSession(s)
    PROVE  IInv'
<1> USE OwnersAssumption DEF DropSession, ctxVars, flowVars, HandleHolds,
      FlowHolds, Binding, SoleOwner, DestroySession, LeaveSession
<1>1. TypeOK'
  BY DEF IInv, TypeOK, SessStages, Handles, CStates, FlowStages
<1>2. SessionsAreInStage'
  BY DEF IInv, SessionsAreInStage, TypeOK
<1>3. FlowsAreInStage'
  BY DEF IInv, FlowsAreInStage, TypeOK
<1>4. ContextIsCounted'
  BY DEF IInv, ContextIsCounted
<1>5. LiveSessionsAreOwned'
  BY DEF IInv, LiveSessionsAreOwned, TypeOK
<1>6. CallbacksFindTheirClosures'
  BY DEF IInv, CallbacksFindTheirClosures, TypeOK
<1>7. ChildrenGoFirst'
  BY DEF IInv, ChildrenGoFirst, TypeOK, SessionsAreInStage, FlowsAreInStage
<1> QED
  BY <1>1, <1>2, <1>3, <1>4, <1>5, <1>6, <1>7 DEF IInv

\* A cache session goes while its session is alive (cache_session.rs:45-57).
LEMMA DropCachePreserves ==
    ASSUME IInv, NEW s \in Sessions, DropCache(s)
    PROVE  IInv'
<1> USE OwnersAssumption DEF DropCache, ctxVars, flowVars, HandleHolds,
      FlowHolds, Binding, SoleOwner
<1>1. TypeOK'
  BY DEF IInv, TypeOK, SessStages, Handles, CStates, FlowStages
<1>2. SessionsAreInStage'
  BY DEF IInv, SessionsAreInStage, TypeOK
<1>3. FlowsAreInStage'
  BY DEF IInv, FlowsAreInStage, TypeOK
<1>4. ContextIsCounted'
  BY DEF IInv, ContextIsCounted
<1>5. LiveSessionsAreOwned'
  BY DEF IInv, LiveSessionsAreOwned, TypeOK
<1>6. CallbacksFindTheirClosures'
  BY DEF IInv, CallbacksFindTheirClosures
<1>7. ChildrenGoFirst'
  BY DEF IInv, ChildrenGoFirst, TypeOK
<1> QED
  BY <1>1, <1>2, <1>3, <1>4, <1>5, <1>6, <1>7 DEF IInv

\* The session of a dropped cache session goes; nobody borrows it any more
\* (cache_session.rs:15-24).
LEMMA DropCachedSessionPreserves ==
    ASSUME IInv, NEW s \in Sessions, DropCachedSession(s)
    PROVE  IInv'
<1> USE OwnersAssumption DEF DropCachedSession, ctxVars, flowVars, HandleHolds, DestroySession
<1>1. TypeOK'
  BY DEF IInv, TypeOK, SessStages, Handles, CStates, FlowStages
<1>2. SessionsAreInStage'
  BY DEF IInv, SessionsAreInStage, TypeOK
<1>3. FlowsAreInStage'
  BY DEF IInv, SessionsAreInStage, FlowsAreInStage, TypeOK
<1>4. ContextIsCounted'
  BY DEF IInv, ContextIsCounted
<1>5. LiveSessionsAreOwned'
  BY DEF IInv, LiveSessionsAreOwned, TypeOK, FlowHolds
<1>6. CallbacksFindTheirClosures'
  BY DEF IInv, CallbacksFindTheirClosures, TypeOK
<1>7. ChildrenGoFirst'
  BY DEF IInv, ChildrenGoFirst, TypeOK, SessionsAreInStage, FlowsAreInStage
<1> QED
  BY <1>1, <1>2, <1>3, <1>4, <1>5, <1>6, <1>7 DEF IInv

\* disconnect of a session nobody shares drops it (session.rs:197-208).
LEMMA DisconnectSolePreserves ==
    ASSUME IInv, NEW s \in Sessions, DisconnectSole(s)
    PROVE  IInv'
<1> USE OwnersAssumption DEF DisconnectSole, ctxVars, flowVars, HandleHolds,
      FlowHolds, Binding, SoleOwner, DestroySession, LeaveSession
<1>1. TypeOK'
  BY DEF IInv, TypeOK, SessStages, Handles, CStates, FlowStages
<1>2. SessionsAreInStage'
  BY DEF IInv, SessionsAreInStage, TypeOK
<1>3. FlowsAreInStage'
  BY DEF IInv, FlowsAreInStage, TypeOK
<1>4. ContextIsCounted'
  BY DEF IInv, ContextIsCounted
<1>5. LiveSessionsAreOwned'
  BY DEF IInv, LiveSessionsAreOwned, TypeOK
<1>6. CallbacksFindTheirClosures'
  BY DEF IInv, CallbacksFindTheirClosures, TypeOK
<1>7. ChildrenGoFirst'
  BY DEF IInv, ChildrenGoFirst, TypeOK, SessionsAreInStage, FlowsAreInStage
<1> QED
  BY <1>1, <1>2, <1>3, <1>4, <1>5, <1>6, <1>7 DEF IInv

\* A refused disconnect still holds the Arc it consumed (async_support.rs:569-582).
LEMMA DisconnectRefusedPreserves ==
    ASSUME IInv, NEW s \in Sessions, DisconnectRefused(s)
    PROVE  IInv'
<1> USE OwnersAssumption DEF DisconnectRefused, ctxVars, flowVars,
      HandleHolds, FlowHolds, Binding, SoleOwner
<1>1. TypeOK'
  BY DEF IInv, TypeOK, SessStages, Handles, CStates, FlowStages
<1>2. SessionsAreInStage'
  BY DEF IInv, SessionsAreInStage
<1>3. FlowsAreInStage'
  BY DEF IInv, FlowsAreInStage
<1>4. ContextIsCounted'
  BY DEF IInv, ContextIsCounted
<1>5. LiveSessionsAreOwned'
  BY DEF IInv, LiveSessionsAreOwned
<1>6. CallbacksFindTheirClosures'
  BY DEF IInv, CallbacksFindTheirClosures
<1>7. ChildrenGoFirst'
  BY DEF IInv, ChildrenGoFirst
<1> QED
  BY <1>1, <1>2, <1>3, <1>4, <1>5, <1>6, <1>7 DEF IInv

\* A destroyed session gives its Context clone back: the C context may go now that
\* its session has gone (session.rs:22-35).
LEMMA DropContextFieldPreserves ==
    ASSUME IInv, NEW s \in Sessions, DropContextField(s)
    PROVE  IInv'
<1> USE OwnersAssumption DEF DropContextField, flowVars, HandleHolds,
      ReleaseContext
<1>1. TypeOK'
  BY DEF IInv, TypeOK, SessStages, Handles, CStates, FlowStages
<1>2. SessionsAreInStage'
  BY DEF IInv, SessionsAreInStage, TypeOK
<1>3. FlowsAreInStage'
  BY DEF IInv, FlowsAreInStage
<1>4. ContextIsCounted'
  BY DEF IInv, ContextIsCounted, TypeOK
<1>5. LiveSessionsAreOwned'
  BY DEF IInv, LiveSessionsAreOwned, FlowHolds
<1>6. CallbacksFindTheirClosures'
  BY DEF IInv, CallbacksFindTheirClosures
<1>7. ChildrenGoFirst'
  BY DEF IInv, ChildrenGoFirst, TypeOK, SessionsAreInStage, FlowsAreInStage
<1> QED
  BY <1>1, <1>2, <1>3, <1>4, <1>5, <1>6, <1>7 DEF IInv

\* The closure boxes go after the C session (session.rs:37-42).
LEMMA DropClosureFieldsPreserves ==
    ASSUME IInv, NEW s \in Sessions, DropClosureFields(s)
    PROVE  IInv'
<1> USE OwnersAssumption DEF DropClosureFields, ctxVars, flowVars, HandleHolds
<1>1. TypeOK'
  BY DEF IInv, TypeOK, SessStages, Handles, CStates, FlowStages
<1>2. SessionsAreInStage'
  BY DEF IInv, SessionsAreInStage, TypeOK
<1>3. FlowsAreInStage'
  BY DEF IInv, FlowsAreInStage
<1>4. ContextIsCounted'
  BY DEF IInv, ContextIsCounted
<1>5. LiveSessionsAreOwned'
  BY DEF IInv, LiveSessionsAreOwned, FlowHolds
<1>6. CallbacksFindTheirClosures'
  BY DEF IInv, CallbacksFindTheirClosures, SessionsAreInStage
<1>7. ChildrenGoFirst'
  BY DEF IInv, ChildrenGoFirst
<1> QED
  BY <1>1, <1>2, <1>3, <1>4, <1>5, <1>6, <1>7 DEF IInv

\* A cache session wraps a session that is alive (cache_session.rs:70-121).
LEMMA CacheOkPreserves ==
    ASSUME IInv, NEW s \in Sessions, CacheOk(s)
    PROVE  IInv'
<1> USE OwnersAssumption DEF CacheOk, ctxVars, flowVars, HandleHolds,
      FlowHolds, Binding, SoleOwner
<1>1. TypeOK'
  BY DEF IInv, TypeOK, SessStages, Handles, CStates, FlowStages
<1>2. SessionsAreInStage'
  BY DEF IInv, SessionsAreInStage
<1>3. FlowsAreInStage'
  BY DEF IInv, FlowsAreInStage
<1>4. ContextIsCounted'
  BY DEF IInv, ContextIsCounted
<1>5. LiveSessionsAreOwned'
  BY DEF IInv, LiveSessionsAreOwned
<1>6. CallbacksFindTheirClosures'
  BY DEF IInv, CallbacksFindTheirClosures
<1>7. ChildrenGoFirst'
  BY DEF IInv, ChildrenGoFirst, SessionsAreInStage
<1> QED
  BY <1>1, <1>2, <1>3, <1>4, <1>5, <1>6, <1>7 DEF IInv

\* A cache session that cannot be created takes the session with it
\* (session.rs:173-184).
LEMMA CacheErrPreserves ==
    ASSUME IInv, NEW s \in Sessions, CacheErr(s)
    PROVE  IInv'
<1> USE OwnersAssumption DEF CacheErr, ctxVars, flowVars, HandleHolds,
      FlowHolds, Binding, SoleOwner, DestroySession, LeaveSession
<1>1. TypeOK'
  BY DEF IInv, TypeOK, SessStages, Handles, CStates, FlowStages
<1>2. SessionsAreInStage'
  BY DEF IInv, SessionsAreInStage, TypeOK
<1>3. FlowsAreInStage'
  BY DEF IInv, FlowsAreInStage, TypeOK
<1>4. ContextIsCounted'
  BY DEF IInv, ContextIsCounted
<1>5. LiveSessionsAreOwned'
  BY DEF IInv, LiveSessionsAreOwned, TypeOK
<1>6. CallbacksFindTheirClosures'
  BY DEF IInv, CallbacksFindTheirClosures, TypeOK
<1>7. ChildrenGoFirst'
  BY DEF IInv, ChildrenGoFirst, TypeOK, SessionsAreInStage, FlowsAreInStage
<1> QED
  BY <1>1, <1>2, <1>3, <1>4, <1>5, <1>6, <1>7 DEF IInv

\* A flow is bound through an owner that holds the session
\* (async_support.rs:508-551).
LEMMA BindPreserves ==
    ASSUME IInv, NEW f \in Flows, NEW s \in Sessions, Bind(f, s)
    PROVE  IInv'
<1> USE OwnersAssumption DEF Bind, ctxVars, sessVars, HandleHolds
<1>1. TypeOK'
  BY DEF IInv, TypeOK, SessStages, Handles, CStates, FlowStages
<1>2. SessionsAreInStage'
  BY DEF IInv, SessionsAreInStage
<1>3. FlowsAreInStage'
  BY DEF IInv, FlowsAreInStage, TypeOK, SessionsAreInStage
<1>4. ContextIsCounted'
  BY DEF IInv, ContextIsCounted
<1>5. LiveSessionsAreOwned'
  BY DEF IInv, LiveSessionsAreOwned, FlowHolds
<1>6. CallbacksFindTheirClosures'
  BY DEF IInv, CallbacksFindTheirClosures, TypeOK
<1>7. ChildrenGoFirst'
  BY DEF IInv, ChildrenGoFirst, TypeOK, SessionsAreInStage, FlowsAreInStage
<1> QED
  BY <1>1, <1>2, <1>3, <1>4, <1>5, <1>6, <1>7 DEF IInv

\* A bound flow counts in its session (flow/builder.rs:345-353).
LEMMA BindOkPreserves ==
    ASSUME IInv, NEW f \in Flows, BindOk(f)
    PROVE  IInv'
<1> USE OwnersAssumption DEF BindOk, ctxVars, sessVars, HandleHolds
<1>1. TypeOK'
  BY DEF IInv, TypeOK, SessStages, Handles, CStates, FlowStages
<1>2. SessionsAreInStage'
  BY DEF IInv, SessionsAreInStage
<1>3. FlowsAreInStage'
  BY DEF IInv, FlowsAreInStage
<1>4. ContextIsCounted'
  BY DEF IInv, ContextIsCounted
<1>5. LiveSessionsAreOwned'
  BY DEF IInv, LiveSessionsAreOwned, FlowHolds
<1>6. CallbacksFindTheirClosures'
  BY DEF IInv, CallbacksFindTheirClosures
<1>7. ChildrenGoFirst'
  BY DEF IInv, ChildrenGoFirst
<1> QED
  BY <1>1, <1>2, <1>3, <1>4, <1>5, <1>6, <1>7 DEF IInv

\* A bind that fails leaves no C flow behind (flow/builder.rs:328-344).
LEMMA BindErrPreserves ==
    ASSUME IInv, NEW f \in Flows, BindErr(f)
    PROVE  IInv'
<1> USE OwnersAssumption DEF BindErr, ctxVars, sessVars, HandleHolds
<1>1. TypeOK'
  BY DEF IInv, TypeOK, SessStages, Handles, CStates, FlowStages
<1>2. SessionsAreInStage'
  BY DEF IInv, SessionsAreInStage
<1>3. FlowsAreInStage'
  BY DEF IInv, FlowsAreInStage, TypeOK
<1>4. ContextIsCounted'
  BY DEF IInv, ContextIsCounted
<1>5. LiveSessionsAreOwned'
  BY DEF IInv, LiveSessionsAreOwned, FlowHolds
<1>6. CallbacksFindTheirClosures'
  BY DEF IInv, CallbacksFindTheirClosures, TypeOK
<1>7. ChildrenGoFirst'
  BY DEF IInv, ChildrenGoFirst
<1> QED
  BY <1>1, <1>2, <1>3, <1>4, <1>5, <1>6, <1>7 DEF IInv

\* The C flow goes while the flow still counts in its session (flow/mod.rs:145-158).
LEMMA DropFlowPreserves ==
    ASSUME IInv, NEW f \in Flows, DropFlow(f)
    PROVE  IInv'
<1> USE OwnersAssumption DEF DropFlow, ctxVars, sessVars, HandleHolds
<1>1. TypeOK'
  BY DEF IInv, TypeOK, SessStages, Handles, CStates, FlowStages
<1>2. SessionsAreInStage'
  BY DEF IInv, SessionsAreInStage
<1>3. FlowsAreInStage'
  BY DEF IInv, FlowsAreInStage, TypeOK
<1>4. ContextIsCounted'
  BY DEF IInv, ContextIsCounted
<1>5. LiveSessionsAreOwned'
  BY DEF IInv, LiveSessionsAreOwned, FlowHolds
<1>6. CallbacksFindTheirClosures'
  BY DEF IInv, CallbacksFindTheirClosures
<1>7. ChildrenGoFirst'
  BY DEF IInv, ChildrenGoFirst
<1> QED
  BY <1>1, <1>2, <1>3, <1>4, <1>5, <1>6, <1>7 DEF IInv

\* The last flow of a session without an owner destroys it
\* (async_support.rs:613-616).
LEMMA DropGuardFieldPreserves ==
    ASSUME IInv, NEW f \in Flows, DropGuardField(f)
    PROVE  IInv'
<1> USE OwnersAssumption DEF DropGuardField, ctxVars, HandleHolds, FlowHolds,
      DestroySession
<1>1. TypeOK'
  BY DEF IInv, TypeOK, SessStages, Handles, CStates, FlowStages
<1>2. SessionsAreInStage'
  BY DEF IInv, SessionsAreInStage, TypeOK, FlowsAreInStage
<1>3. FlowsAreInStage'
  BY DEF IInv, FlowsAreInStage, TypeOK
<1>4. ContextIsCounted'
  BY DEF IInv, ContextIsCounted
<1>5. LiveSessionsAreOwned'
  BY DEF IInv, LiveSessionsAreOwned, TypeOK
<1>6. CallbacksFindTheirClosures'
  BY DEF IInv, CallbacksFindTheirClosures, TypeOK
<1>7. ChildrenGoFirst'
  BY DEF IInv, ChildrenGoFirst, TypeOK, SessionsAreInStage, FlowsAreInStage
<1> QED
  BY <1>1, <1>2, <1>3, <1>4, <1>5, <1>6, <1>7 DEF IInv

\* The flow's boxes go last (async_support.rs:617-625).
LEMMA DropFlowClosuresPreserves ==
    ASSUME IInv, NEW f \in Flows, DropFlowClosures(f)
    PROVE  IInv'
<1> USE OwnersAssumption DEF DropFlowClosures, ctxVars, sessVars, HandleHolds
<1>1. TypeOK'
  BY DEF IInv, TypeOK, SessStages, Handles, CStates, FlowStages
<1>2. SessionsAreInStage'
  BY DEF IInv, SessionsAreInStage
<1>3. FlowsAreInStage'
  BY DEF IInv, FlowsAreInStage, TypeOK
<1>4. ContextIsCounted'
  BY DEF IInv, ContextIsCounted
<1>5. LiveSessionsAreOwned'
  BY DEF IInv, LiveSessionsAreOwned, FlowHolds
<1>6. CallbacksFindTheirClosures'
  BY DEF IInv, CallbacksFindTheirClosures, TypeOK, SessionsAreInStage,
      FlowsAreInStage
<1>7. ChildrenGoFirst'
  BY DEF IInv, ChildrenGoFirst
<1> QED
  BY <1>1, <1>2, <1>3, <1>4, <1>5, <1>6, <1>7 DEF IInv

-----------------------------------------------------------------------------
(* The invariant, and the properties that follow from it.                  *)

\* No build, bind or drop on any thread breaks the invariant, and neither does a
\* step that changes nothing.
LEMMA StepPreserves == IInv /\ [Next]_vars => IInv'
<1> SUFFICES ASSUME IInv, [Next]_vars
             PROVE  IInv'
  OBVIOUS
<1>1. CASE UNCHANGED vars
  BY <1>1 DEF vars, ctxVars, sessVars, flowVars, IInv, TypeOK, SessionsAreInStage,
        FlowsAreInStage, ContextIsCounted, LiveSessionsAreOwned,
        CallbacksFindTheirClosures, ChildrenGoFirst, HandleHolds, FlowHolds
<1>2. CASE DropContext
  BY <1>2, DropContextPreserves
<1>3. ASSUME NEW s \in Sessions,
             \/ Build(s) \/ CreateOk(s) \/ CreateErr(s) \/ ConnectOk(s) \/ ConnectErr(s)
             \/ DropSession(s) \/ DisconnectSole(s) \/ DisconnectRefused(s)
             \/ DropCache(s) \/ DropCachedSession(s)
             \/ DropContextField(s) \/ DropClosureFields(s)
             \/ CacheOk(s) \/ CacheErr(s)
      PROVE  IInv'
  BY <1>3, BuildPreserves, CreateOkPreserves, CreateErrPreserves, ConnectOkPreserves,
     ConnectErrPreserves, DropSessionPreserves, DisconnectSolePreserves,
     DisconnectRefusedPreserves, DropCachePreserves, DropCachedSessionPreserves, DropContextFieldPreserves,
     DropClosureFieldsPreserves, CacheOkPreserves, CacheErrPreserves
<1>4. ASSUME NEW f \in Flows, NEW s \in Sessions, Bind(f, s)
      PROVE  IInv'
  BY <1>4, BindPreserves
<1>5. ASSUME NEW f \in Flows,
             \/ BindOk(f) \/ BindErr(f)
             \/ DropFlow(f) \/ DropGuardField(f) \/ DropFlowClosures(f)
      PROVE  IInv'
  BY <1>5, BindOkPreserves, BindErrPreserves, DropFlowPreserves,
     DropGuardFieldPreserves, DropFlowClosuresPreserves
<1>6. CASE Finished
  BY <1>1, <1>6 DEF Finished
<1> QED
  BY <1>1, <1>2, <1>3, <1>4, <1>5, <1>6 DEF Next

\* IInv is an invariant of ownership, for any number of sessions and flows.
THEOREM Invariance == Spec => []IInv
  BY InitEstablishes, StepPreserves, PTL DEF Spec

\* The C library never holds the address of a freed closure, sessions whose connect
\* failed apart.
THEOREM ClosuresFound == Spec => []CallbacksFindTheirClosures
<1>1. IInv => CallbacksFindTheirClosures
  BY DEF IInv
<1> QED
  BY <1>1, Invariance, PTL

\* C flows and cache sessions go before their session, sessions before their context.
THEOREM ChildrenFirst == Spec => []ChildrenGoFirst
<1>1. IInv => ChildrenGoFirst
  BY DEF IInv
<1> QED
  BY <1>1, Invariance, PTL

\* Session::drop runs only for a session that is alive, in the C library too: an
\* owner that destroys it holds it, or is a flow that does (session.rs:210-219).
LEMMA DestroysTheLiving ==
    ASSUME IInv, [Next]_vars, NEW s \in Sessions,
           sess'[s] = "destroyed", sess[s] # "destroyed"
    PROVE  sess[s] = "live"
<1>1. ASSUME NEW r \in Sessions, HandleHolds(r), LeaveSession(r)
      PROVE  sess[s] = "live"
  BY <1>1 DEF IInv, TypeOK, SessionsAreInStage, LeaveSession, DestroySession
<1>2. ASSUME NEW r \in Sessions,
             DropSession(r) \/ DisconnectSole(r) \/ CacheErr(r)
      PROVE  sess[s] = "live"
  BY <1>1, <1>2 DEF DropSession, DisconnectSole, CacheErr, HandleHolds
<1>3. ASSUME NEW f \in Flows, DropGuardField(f)
      PROVE  sess[s] = "live"
  BY <1>3 DEF IInv, TypeOK, FlowsAreInStage, DropGuardField, DestroySession
<1>4. ASSUME NEW r \in Sessions,
             \/ Build(r) \/ CreateOk(r) \/ CreateErr(r) \/ ConnectOk(r) \/ ConnectErr(r)
             \/ DropContextField(r) \/ DropClosureFields(r)
      PROVE  FALSE
  BY <1>4 DEF IInv, TypeOK, Build, CreateOk, CreateErr, ConnectOk, ConnectErr, BuildErr,
              DropContextField, DropClosureFields
<1>5. ASSUME UNCHANGED sess
      PROVE  FALSE
  BY <1>5
<1>6. ASSUME NEW r \in Sessions, DisconnectRefused(r) \/ CacheOk(r) \/ DropCache(r)
      PROVE  FALSE
  BY <1>5, <1>6 DEF DisconnectRefused, CacheOk, DropCache
<1>7. ASSUME NEW f \in Flows,
             \/ \E r \in Sessions : Bind(f, r)
             \/ BindOk(f) \/ BindErr(f) \/ DropFlow(f) \/ DropFlowClosures(f)
      PROVE  FALSE
  BY <1>5, <1>7 DEF Bind, BindOk, BindErr, DropFlow, DropFlowClosures, sessVars
<1>8. ASSUME NEW r \in Sessions, DropCachedSession(r)
      PROVE  sess[s] = "live"
  BY <1>8 DEF IInv, TypeOK, DropCachedSession, DestroySession
<1>9. ASSUME DropContext \/ Finished \/ UNCHANGED vars
      PROVE  FALSE
  BY <1>5, <1>9 DEF DropContext, Finished, vars, sessVars
<1> QED
  BY <1>2, <1>3, <1>4, <1>6, <1>7, <1>8, <1>9 DEF Next

\* Of all the owners exactly one destroys a session, and finds it alive, together
\* with its context.
THEOREM OneDestroys == Spec => DestroyedOnce
<1> DEFINE Once == \A s \in Sessions : sess'[s] = "destroyed" /\ sess[s] # "destroyed" =>
                       sess[s] = "live" /\ csess[s] = "live" /\ cctx = "live"
<1>1. IInv /\ [Next]_vars => Once
  <2> SUFFICES ASSUME IInv, [Next]_vars, NEW s \in Sessions,
                      sess'[s] = "destroyed", sess[s] # "destroyed"
               PROVE  sess[s] = "live" /\ csess[s] = "live" /\ cctx = "live"
    OBVIOUS
  <2>1. sess[s] = "live"
    BY DestroysTheLiving
  <2>2. csess[s] = "live"
    BY <2>1 DEF IInv, SessionsAreInStage
  <2>3. cctx = "live"
    BY <2>2 DEF IInv, ChildrenGoFirst
  <2> QED
    BY <2>1, <2>2, <2>3
<1>2. []IInv /\ [][Next]_vars => [][Once]_vars
  BY <1>1, PTL
<1> QED
  BY <1>2, Invariance, PTL DEF Spec, DestroyedOnce

=============================================================================
