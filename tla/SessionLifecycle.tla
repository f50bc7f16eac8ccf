-------------------------- MODULE SessionLifecycle --------------------------
(***************************************************************************)
(* Who owns what, and in which order it is given back: contexts, sessions, *)
(* cache sessions, flows, and the boxed closures whose addresses the C     *)
(* library calls from its context thread.                                  *)
(*                                                                         *)
(* A Session owns a clone of its Context and the boxes of its closures; an *)
(* AsyncSession shares its Session with its OwnedAsyncFlows through an     *)
(* Arc; a Flow borrows its Session, which only restricts when the Session  *)
(* may go.  Drops run on any thread and in several steps: Drop::drop first *)
(* and then the fields in declaration order.                               *)
(***************************************************************************)
EXTENDS Naturals, FiniteSets

CONSTANTS Sessions,     \* the sessions the application builds
          Flows,        \* the flows it binds
          NoSession     \* the owner of a flow that was never bound

ASSUME OwnersAssumption == NoSession \notin Sessions

VARIABLES
    ctxHandle,      \* the application holds a Context
    cctx,           \* the C context
    sess,           \* sess[s]: the Rust side of a session
    async,          \* async[s]: built by AsyncSessionBuilder
    handle,         \* handle[s]: the application's owner of the session
    ctxRef,         \* ctxRef[s]: the builder or session holds a Context clone
    csess,          \* csess[s]: the C session
    closures,       \* closures[s]: the session's closure boxes are allocated
    cache,          \* cache[s]: the C cache session wrapped around it
    flushed,        \* sessions that went through solClient_session_disconnect
    flow,           \* flow[f]: the Rust side of a flow
    owner,          \* owner[f]: the session the flow belongs to
    cflow,          \* cflow[f]: the C flow
    flowClosures    \* flowClosures[f]: the flow's closure boxes are allocated

ctxVars == <<ctxHandle, cctx>>
sessVars == <<sess, async, handle, ctxRef, csess, closures, cache, flushed>>
flowVars == <<flow, owner, cflow, flowClosures>>
vars == <<ctxVars, sessVars, flowVars>>

-----------------------------------------------------------------------------
SessStages == {"none", "creating", "connecting", "failed", "live", "destroyed", "unref", "freed"}
Handles == {"none", "held", "refused", "dropped"}
CStates == {"none", "live", "destroyed"}
FlowStages == {"none", "binding", "failed", "live", "unbound", "released", "freed"}

TypeOK ==
    /\ ctxHandle \in BOOLEAN
    /\ cctx \in {"live", "destroyed"}
    /\ sess \in [Sessions -> SessStages]
    /\ async \in [Sessions -> BOOLEAN]
    /\ handle \in [Sessions -> Handles]
    /\ ctxRef \in [Sessions -> BOOLEAN]
    /\ csess \in [Sessions -> CStates]
    /\ closures \in [Sessions -> BOOLEAN]
    /\ cache \in [Sessions -> CStates]
    /\ flushed \in SUBSET Sessions
    /\ flow \in [Flows -> FlowStages]
    /\ owner \in [Flows -> Sessions \cup {NoSession}]
    /\ cflow \in [Flows -> CStates]
    /\ flowClosures \in [Flows -> BOOLEAN]

Init ==
    /\ ctxHandle = TRUE
    /\ cctx = "live"
    /\ sess = [s \in Sessions |-> "none"]
    /\ async \in [Sessions -> BOOLEAN]
    /\ handle = [s \in Sessions |-> "none"]
    /\ ctxRef = [s \in Sessions |-> FALSE]
    /\ csess = [s \in Sessions |-> "none"]
    /\ closures = [s \in Sessions |-> FALSE]
    /\ cache = [s \in Sessions |-> "none"]
    /\ flushed = {}
    /\ flow = [f \in Flows |-> "none"]
    /\ owner = [f \in Flows |-> NoSession]
    /\ cflow = [f \in Flows |-> "none"]
    /\ flowClosures = [f \in Flows |-> FALSE]

\* A flow that counts in the Arc of its session (or borrows it).
FlowHolds(f, s) == owner[f] = s /\ flow[f] \in {"live", "unbound"}

\* The application's owner counts too, until it is really dropped.
HandleHolds(s) == handle[s] \in {"held", "refused"}

\* A create_flow call on the session is running: the session is borrowed.
Binding(s) == \E f \in Flows : owner[f] = s /\ flow[f] = "binding"

\* Giving a Context clone back.  The last one destroys the C context, and the
\* library takes with it whatever C session was left in that context.
ReleaseContext(last) ==
    IF last
    THEN /\ cctx' = "destroyed"
         /\ csess' = [s \in Sessions |-> IF csess[s] = "live" THEN "destroyed" ELSE csess[s]]
    ELSE UNCHANGED <<cctx, csess>>

-----------------------------------------------------------------------------
(* Context.                                                                *)

\* The application drops its Context.
DropContext ==
    /\ ctxHandle
    /\ ctxHandle' = FALSE
    /\ ReleaseContext(\A s \in Sessions : ~ctxRef[s])
    /\ UNCHANGED <<sess, async, handle, ctxRef, closures, cache, flushed, flowVars>>

-----------------------------------------------------------------------------
(* SessionBuilder::build.                                                  *)

\* Context::session_builder clones the context; build boxes the closures.
Build(s) ==
    /\ ctxHandle
    /\ sess[s] = "none"
    /\ sess' = [sess EXCEPT ![s] = "creating"]
    /\ ctxRef' = [ctxRef EXCEPT ![s] = TRUE]
    /\ closures' = [closures EXCEPT ![s] = TRUE]
    /\ UNCHANGED <<ctxVars, async, handle, csess, cache, flushed, flowVars>>

\* solClient_session_create knows the closures' addresses from here on.
CreateOk(s) ==
    /\ sess[s] = "creating"
    /\ sess' = [sess EXCEPT ![s] = "connecting"]
    /\ csess' = [csess EXCEPT ![s] = "live"]
    /\ UNCHANGED <<ctxVars, async, handle, ctxRef, closures, cache, flushed, flowVars>>

\* build returns an error: its locals, the boxes and the context clone, drop.
BuildErr(s) ==
    /\ sess' = [sess EXCEPT ![s] = "failed"]
    /\ closures' = [closures EXCEPT ![s] = FALSE]
    /\ ctxRef' = [ctxRef EXCEPT ![s] = FALSE]
    /\ ReleaseContext(~ctxHandle /\ \A r \in Sessions \ {s} : ~ctxRef[r])
    /\ UNCHANGED <<ctxHandle, async, handle, cache, flushed, flowVars>>

\* solClient_session_create fails: there is no C session.
CreateErr(s) == sess[s] = "creating" /\ BuildErr(s)

\* solClient_session_connect fails: nobody destroys the C session.
ConnectErr(s) == sess[s] = "connecting" /\ BuildErr(s)

ConnectOk(s) ==
    /\ sess[s] = "connecting"
    /\ sess' = [sess EXCEPT ![s] = "live"]
    /\ handle' = [handle EXCEPT ![s] = "held"]
    /\ UNCHANGED <<ctxVars, async, ctxRef, csess, closures, cache, flushed, flowVars>>

-----------------------------------------------------------------------------
(* Dropping a session.                                                     *)

\* Session::drop, run by whoever gave back the last owner: solClient_session_destroy.
DestroySession(s) ==
    /\ csess' = [csess EXCEPT ![s] = "destroyed"]
    /\ sess' = [sess EXCEPT ![s] = "destroyed"]

\* Nobody but the application's owner holds the session.
SoleOwner(s) == \A f \in Flows : ~FlowHolds(f, s)

\* Variant of LeaveSession: the session goes with its owner, flows or no flows.
LeaveSessionUnshared(s) ==
    /\ ~Binding(s)
    /\ handle' = [handle EXCEPT ![s] = "dropped"]
    /\ DestroySession(s)
    /\ UNCHANGED <<ctxVars, async, ctxRef, closures, cache, flowVars>>

\* The owner leaves: a borrowed session cannot be dropped, a shared one goes
\* with its last holder.
LeaveSession(s) ==
    /\ ~Binding(s)
    /\ ~async[s] => SoleOwner(s)
    /\ handle' = [handle EXCEPT ![s] = "dropped"]
    /\ IF SoleOwner(s) THEN DestroySession(s) ELSE UNCHANGED <<csess, sess>>
    /\ UNCHANGED <<ctxVars, async, ctxRef, closures, cache, flowVars>>

\* The Session or AsyncSession goes out of scope, or a refused disconnect lets go of
\* the Arc it consumed.
DropSession(s) ==
    /\ HandleHolds(s)
    /\ cache[s] = "none"
    /\ LeaveSession(s)
    /\ UNCHANGED flushed

\* The CacheSession goes out of scope, which no flow borrows: CacheSession::drop, that is
\* solClient_cacheSession_destroy, ...
DropCache(s) ==
    /\ HandleHolds(s)
    /\ cache[s] = "live"
    /\ ~Binding(s) /\ SoleOwner(s)
    /\ handle' = [handle EXCEPT ![s] = "dropped"]
    /\ cache' = [cache EXCEPT ![s] = "destroyed"]
    /\ UNCHANGED <<ctxVars, sess, async, ctxRef, csess, closures, flushed, flowVars>>

\* ... and then its field, the session.
DropCachedSession(s) ==
    /\ cache[s] = "destroyed" /\ sess[s] = "live"
    /\ DestroySession(s)
    /\ UNCHANGED <<ctxVars, async, handle, ctxRef, closures, cache, flushed, flowVars>>

\* disconnect(self) of a session nobody else holds: the C library writes out
\* what it buffered, then self is dropped whatever the return code was.
DisconnectSole(s) ==
    /\ handle[s] = "held"
    /\ cache[s] = "none"
    /\ SoleOwner(s)
    /\ LeaveSession(s)
    /\ flushed' = flushed \cup {s}

\* AsyncSession::disconnect while a flow holds the Arc: ActiveFlowsOnDisconnect.
\* self has been consumed all the same.
DisconnectRefused(s) ==
    /\ handle[s] = "held"
    /\ async[s]
    /\ ~Binding(s)
    /\ ~SoleOwner(s)
    /\ handle' = [handle EXCEPT ![s] = "refused"]
    /\ UNCHANGED <<ctxVars, sess, async, ctxRef, csess, closures, cache, flushed, flowVars>>

\* Variant of DropContextField: the clone is forgotten instead of dropped.
DropContextFieldForgotten(s) ==
    /\ sess[s] = "destroyed"
    /\ sess' = [sess EXCEPT ![s] = "unref"]
    /\ UNCHANGED <<ctxVars, async, handle, ctxRef, csess, closures, cache, flushed, flowVars>>

\* The context field, the first field of Session that owns something.
DropContextField(s) ==
    /\ sess[s] = "destroyed"
    /\ sess' = [sess EXCEPT ![s] = "unref"]
    /\ ctxRef' = [ctxRef EXCEPT ![s] = FALSE]
    /\ ReleaseContext(~ctxHandle /\ \A r \in Sessions \ {s} : ~ctxRef[r])
    /\ UNCHANGED <<ctxHandle, async, handle, closures, cache, flushed, flowVars>>

\* Then the closure boxes.
DropClosureFields(s) ==
    /\ sess[s] = "unref"
    /\ sess' = [sess EXCEPT ![s] = "freed"]
    /\ closures' = [closures EXCEPT ![s] = FALSE]
    /\ UNCHANGED <<ctxVars, async, handle, ctxRef, csess, cache, flushed, flowVars>>

\* Session::cache_session consumes the session and wraps it ...
CacheOk(s) ==
    /\ handle[s] = "held"
    /\ ~async[s]
    /\ cache[s] = "none"
    /\ SoleOwner(s)
    /\ ~Binding(s)
    /\ cache' = [cache EXCEPT ![s] = "live"]
    /\ UNCHANGED <<ctxVars, sess, async, handle, ctxRef, csess, closures, flushed, flowVars>>

\* ... or fails, and the session it consumed is dropped.
CacheErr(s) ==
    /\ handle[s] = "held"
    /\ ~async[s]
    /\ cache[s] = "none"
    /\ LeaveSession(s)
    /\ UNCHANGED flushed

-----------------------------------------------------------------------------
(* Flows.                                                                  *)

\* FlowBuilder::build or create_flow: the closures are boxed and the C library
\* creates the flow with their addresses; it may call them before it returns.
Bind(f, s) ==
    /\ flow[f] = "none"
    /\ handle[s] = "held"
    /\ flow' = [flow EXCEPT ![f] = "binding"]
    /\ owner' = [owner EXCEPT ![f] = s]
    /\ cflow' = [cflow EXCEPT ![f] = "live"]
    /\ flowClosures' = [flowClosures EXCEPT ![f] = TRUE]
    /\ UNCHANGED <<ctxVars, sessVars>>

BindOk(f) ==
    /\ flow[f] = "binding"
    /\ flow' = [flow EXCEPT ![f] = "live"]
    /\ UNCHANGED <<ctxVars, sessVars, owner, cflow, flowClosures>>

\* solClient_session_createFlow fails and leaves no flow; the boxes drop.
BindErr(f) ==
    /\ flow[f] = "binding"
    /\ flow' = [flow EXCEPT ![f] = "failed"]
    /\ cflow' = [cflow EXCEPT ![f] = "destroyed"]
    /\ flowClosures' = [flowClosures EXCEPT ![f] = FALSE]
    /\ UNCHANGED <<ctxVars, sessVars, owner>>

\* Variant of DropFlow: the boxes go while the C flow is still there.
DropFlowBoxesFirst(f) ==
    /\ flow[f] = "live"
    /\ flow' = [flow EXCEPT ![f] = "unbound"]
    /\ flowClosures' = [flowClosures EXCEPT ![f] = FALSE]
    /\ UNCHANGED <<ctxVars, sessVars, owner, cflow>>

\* OwnedAsyncFlow::drop and Flow::drop: solClient_flow_destroy.
DropFlow(f) ==
    /\ flow[f] = "live"
    /\ flow' = [flow EXCEPT ![f] = "unbound"]
    /\ cflow' = [cflow EXCEPT ![f] = "destroyed"]
    /\ UNCHANGED <<ctxVars, sessVars, owner, flowClosures>>

\* Variant of DropGuardField: the last flow takes the session, handle or not.
DropGuardFieldLastFlow(f) ==
    /\ flow[f] = "unbound"
    /\ flow' = [flow EXCEPT ![f] = "released"]
    /\ LET s == owner[f]
       IN  IF \A g \in Flows \ {f} : ~FlowHolds(g, s)
           THEN DestroySession(s) ELSE UNCHANGED <<csess, sess>>
    /\ UNCHANGED <<ctxVars, async, handle, ctxRef, closures, cache, flushed, owner, cflow, flowClosures>>

\* The session guard, the flow's first owning field: the last Arc takes the
\* session with it.
DropGuardField(f) ==
    /\ flow[f] = "unbound"
    /\ flow' = [flow EXCEPT ![f] = "released"]
    /\ LET s == owner[f]
           last == ~HandleHolds(s) /\ \A g \in Flows \ {f} : ~FlowHolds(g, s)
       IN  IF last THEN DestroySession(s) ELSE UNCHANGED <<csess, sess>>
    /\ UNCHANGED <<ctxVars, async, handle, ctxRef, closures, cache, flushed, owner, cflow, flowClosures>>

\* Then the flow's closure boxes.
DropFlowClosures(f) ==
    /\ flow[f] = "released"
    /\ flow' = [flow EXCEPT ![f] = "freed"]
    /\ flowClosures' = [flowClosures EXCEPT ![f] = FALSE]
    /\ UNCHANGED <<ctxVars, sessVars, owner, cflow>>

-----------------------------------------------------------------------------
\* The drop steps a thread that has begun to drop something goes on with.
DropSteps ==
    \/ \E s \in Sessions : \/ DropCachedSession(s)
                           \/ DropContextField(s)
                           \/ DropClosureFields(s)
                           \/ handle[s] = "refused" /\ DropSession(s)
    \/ \E f \in Flows : DropGuardField(f) \/ DropFlowClosures(f)

\* Nothing is left to build, use or drop.
Finished ==
    /\ ~ctxHandle
    /\ \A s \in Sessions : sess[s] \in {"none", "failed", "freed"}
    /\ \A f \in Flows : flow[f] \in {"none", "failed", "freed"}
    /\ UNCHANGED vars

Next ==
    \/ DropContext
    \/ \E s \in Sessions :
          \/ Build(s) \/ CreateOk(s) \/ CreateErr(s) \/ ConnectOk(s) \/ ConnectErr(s)
          \/ DropSession(s) \/ DisconnectSole(s) \/ DisconnectRefused(s)
          \/ DropCache(s) \/ DropCachedSession(s)
          \/ DropContextField(s) \/ DropClosureFields(s)
          \/ CacheOk(s) \/ CacheErr(s)
    \/ \E f \in Flows, s \in Sessions : Bind(f, s)
    \/ \E f \in Flows :
          \/ BindOk(f) \/ BindErr(f)
          \/ DropFlow(f) \/ DropGuardField(f) \/ DropFlowClosures(f)
    \/ Finished

Spec == Init /\ [][Next]_vars

\* A drop that has begun is run to its end.
FairSpec == Spec /\ WF_vars(DropSteps)

-----------------------------------------------------------------------------
(* Properties.                                                             *)

\* The C library never holds the address of a freed closure: a session's boxes
\* are freed after solClient_session_destroy and a flow's after
\* solClient_flow_destroy (session.rs:36-41, async_support.rs:613-625).  The
\* sessions whose connect failed are left out: see ClosuresOutliveEverySession.
CallbacksFindTheirClosures ==
    /\ \A s \in Sessions : csess[s] = "live" /\ sess[s] # "failed" => closures[s]
    /\ \A f \in Flows : cflow[f] = "live" => flowClosures[f]

\* A C object goes before the one it was created in: flows and cache sessions
\* before their session, sessions before their context, whoever drops what
\* first on whichever thread (async_support.rs:611-612, context.rs:176-178).
ChildrenGoFirst ==
    /\ \A f \in Flows : cflow[f] = "live" => csess[owner[f]] = "live"
    /\ \A s \in Sessions : cache[s] = "live" => csess[s] = "live"
    /\ \A s \in Sessions : csess[s] = "live" => cctx = "live"

\* Of all the owners that let go of a session, exactly one destroys it, and it
\* finds the C session and its context alive.
DestroyedOnce ==
    [][\A s \in Sessions : sess'[s] = "destroyed" /\ sess[s] # "destroyed" =>
          sess[s] = "live" /\ csess[s] = "live" /\ cctx = "live"]_vars

\* The application has let go of everything.
LetGo ==
    /\ ~ctxHandle
    /\ \A s \in Sessions : handle[s] # "held" /\ sess[s] \notin {"creating", "connecting"}
    /\ \A f \in Flows : flow[f] \notin {"binding", "live"}

Reclaimed ==
    /\ cctx = "destroyed"
    /\ \A s \in Sessions : csess[s] # "live" /\ cache[s] # "live" /\ ~closures[s]
    /\ \A f \in Flows : cflow[f] # "live" /\ ~flowClosures[f]

\* Then everything is reclaimed, a refused disconnect included: no owner keeps
\* another alive for ever.
NothingIsLeaked == LetGo ~> Reclaimed

\* The builder's comment, "the lifetime of the closure is set to be the lifetime
\* of the session" (session/builder.rs:198-199), for every C session there is.
ClosuresOutliveEverySession ==
    \A s \in Sessions : csess[s] = "live" => closures[s]

-----------------------------------------------------------------------------
(* The inductive invariant behind the safety properties.                   *)

\* What exists of a session at each stage of its life, and who may hold it.
SessionsAreInStage ==
    \A s \in Sessions :
        /\ ctxRef[s] <=> sess[s] \in {"creating", "connecting", "live", "destroyed"}
        /\ closures[s] <=> sess[s] \in {"creating", "connecting", "live", "destroyed", "unref"}
        /\ sess[s] \in {"none", "creating"} => csess[s] = "none"
        /\ sess[s] \in {"connecting", "live"} => csess[s] = "live"
        /\ sess[s] \in {"destroyed", "unref", "freed"} => csess[s] = "destroyed"
        /\ HandleHolds(s) => sess[s] = "live"
        /\ handle[s] = "none" <=> sess[s] \in {"none", "creating", "connecting", "failed"}
        /\ handle[s] = "refused" => async[s]
        /\ cache[s] = "live" => HandleHolds(s)
        /\ cache[s] = "destroyed" => ~HandleHolds(s)
        /\ cache[s] # "none" => ~async[s] /\ handle[s] # "none"

\* What exists of a flow at each stage of its life; a flow that counts keeps its
\* session, and one that only borrows it leaves the session to its owner.
FlowsAreInStage ==
    \A f \in Flows :
        /\ owner[f] = NoSession <=> flow[f] = "none"
        /\ cflow[f] = "live" <=> flow[f] \in {"binding", "live"}
        /\ flowClosures[f] <=> flow[f] \in {"binding", "live", "unbound", "released"}
        /\ flow[f] \in {"binding", "live", "unbound"} => sess[owner[f]] = "live"
        /\ flow[f] = "binding" => handle[owner[f]] = "held"
        /\ flow[f] \in {"live", "unbound"} /\ ~async[owner[f]] => handle[owner[f]] = "held"

\* The C context lives exactly as long as somebody holds a clone.
ContextIsCounted ==
    cctx = "live" <=> ctxHandle \/ \E s \in Sessions : ctxRef[s]

\* A session that is alive has an owner that can still let go of it, or its cache session's
\* drop is under way.
LiveSessionsAreOwned ==
    \A s \in Sessions :
        sess[s] = "live" =>
            HandleHolds(s) \/ cache[s] = "destroyed" \/ \E f \in Flows : FlowHolds(f, s)

IInv ==
    /\ TypeOK
    /\ SessionsAreInStage
    /\ FlowsAreInStage
    /\ ContextIsCounted
    /\ LiveSessionsAreOwned
    /\ CallbacksFindTheirClosures
    /\ ChildrenGoFirst
=============================================================================
