----------------------------- MODULE Application -----------------------------
(***************************************************************************)
(* A process that uses the crate: threads that create contexts, share an   *)
(* AsyncSession, or send requests and answer them, beside the context      *)
(* thread.  A run is one of the programs, with any interleaving.           *)
(***************************************************************************)
EXTENDS RequestReply

vars == <<callVars, initVars, sessionVars, requestVars>>

Init ==
    /\ CallsInit
    /\ GlobalInitInit
    /\ SessionCallsInit
    /\ RequestReplyInit

ThreadStep(t) ==
    \/ GlobalInitStep(t) /\ UNCHANGED <<sessionVars, requestVars>>
    \/ SessionStep(t) /\ UNCHANGED <<initVars, requestVars>>
    \/ RequestStep(t) /\ UNCHANGED <<initVars, sessionVars>>

ContextThread == ContextStep /\ UNCHANGED <<initVars, requestVars>>

Environment ==
    \/ Arrival /\ UNCHANGED <<initVars, requestVars>>
    \/ RequestNetwork /\ UNCHANGED <<callVars, initVars, sessionVars>>

\* Nobody has anything to do: programs are over, or wait for what need not come.
Quiet ==
    /\ \A t \in Threads : IsDone(t) \/ pc[t] \in {"recv", "flow_recv", "await"} \/ ~MayShare(t)
    /\ inbound = <<>>
    /\ UNCHANGED vars

Next ==
    \/ \E t \in Threads : ThreadStep(t)
    \/ ContextThread
    \/ Environment
    \/ Quiet

Spec == Init /\ [][Next]_vars

-----------------------------------------------------------------------------
\* Threads run, and so does the context thread; the broker answers a bind.  That anything
\* else arrives is not assumed, nor that a bind nobody answers times out.
Fairness ==
    /\ WF_vars(ContextThread)
    /\ \A t \in Threads : WF_vars((pc[t] = "bind" => t \in bound) /\ ThreadStep(t))
FairSpec == Spec /\ Fairness

Steps == {"ready", "once", "initialize", "check", "lock", "send", "subscribe", "bind", "recv", "flow_recv",
          "request", "await", "reply"}

Codes == DOMAIN RawCodes \cup
    {"InvalidGlobalProperty", "InvalidArgsNulError", "NoFlow", "Some", "None", "Empty", "Closed",
     "Ignored", "Panicked", "Replied"}

TypeOK ==
    /\ at \in [Threads -> Nat \ {0}]
    /\ pc \in [Threads -> Steps]
    /\ results \in [Threads -> Seq(Codes)]
    /\ globalInit \in {"empty", "running", "set"}
    /\ innerLock \in Threads \cup {NoThread}
    /\ sent \in [Threads -> Nat]
    /\ wire \in Seq(Threads \X Nat \X Nat)
    /\ flows \subseteq Threads
    /\ {eventsTaken, listening} \subseteq BOOLEAN

\* A call that has entered the crate returns: nobody waits for a mutex or the context thread
\* in a circle, although create_flow holds the session mutex until the context thread has
\* heard the broker (async_support.rs:540), nor in get_or_init for an initialisation of another
\* thread that failed (context.rs:104).  A request nobody answers ends by its own timeout
\* (session.rs:157).  Only recv, and the responder's rx.recv(), wait for what may never come.
EveryCallReturns ==
    \A t \in Threads : pc[t] \notin {"ready", "recv", "flow_recv", "await"} ~> pc[t] \in {"ready", "await"}
=============================================================================
