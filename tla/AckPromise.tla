----------------------------- MODULE AckPromise -----------------------------
(***************************************************************************)
(* What AsyncSession::publish_with_ack promises its callers                *)
(* (src/async_support.rs:384-389), with none of the machinery: every       *)
(* tracked publish hands out one promise, the broker may answer it, the    *)
(* promise resolves at most once and only with the broker's answer, and it *)
(* is closed without an answer only when the session is torn down.         *)
(***************************************************************************)
CONSTANT Calls            \* the publish calls, each with its own promise

VARIABLES promise,        \* promise[c]: the state of the call's oneshot receiver
          answer,         \* answer[c]: what the broker decided about its message
          open            \* the C session still exists

vars == <<promise, answer, open>>

Unanswered == "none"
Answers == {"ack", "reject"}
PromiseStates == {"none", "waiting", "ok", "rejected", "closed", "dropped"}

\* The value a broker's answer resolves a promise with.
Outcome(a) == IF a = "ack" THEN "ok" ELSE "rejected"

TypeOK ==
    /\ promise \in [Calls -> PromiseStates]
    /\ answer \in [Calls -> Answers \cup {Unanswered}]
    /\ open \in BOOLEAN

Init ==
    /\ promise = [c \in Calls |-> "none"]
    /\ answer = [c \in Calls |-> Unanswered]
    /\ open = TRUE

\* A call creates its promise.
Promise(c) ==
    /\ open
    /\ promise[c] = "none"
    /\ promise' = [promise EXCEPT ![c] = "waiting"]
    /\ UNCHANGED <<answer, open>>

\* The broker decides about the message, once.
Answer(c, a) ==
    /\ open
    /\ answer[c] = Unanswered
    /\ answer' = [answer EXCEPT ![c] = a]
    /\ UNCHANGED <<promise, open>>

\* The answer reaches the promise that is waiting for it.
Resolve(c) ==
    /\ open
    /\ promise[c] = "waiting"
    /\ answer[c] \in Answers
    /\ promise' = [promise EXCEPT ![c] = Outcome(answer[c])]
    /\ UNCHANGED <<answer, open>>

\* The caller gives the promise up, or never gets it because its publish failed.
Withdraw(c) ==
    /\ promise[c] = "waiting"
    /\ promise' = [promise EXCEPT ![c] = "dropped"]
    /\ UNCHANGED <<answer, open>>

\* The session goes away: whoever still waits learns that no answer will come.
Close ==
    /\ open
    /\ open' = FALSE
    /\ promise' = [c \in Calls |->
                     IF promise[c] = "waiting" THEN "closed" ELSE promise[c]]
    /\ UNCHANGED answer

Next ==
    \/ \E c \in Calls : Promise(c) \/ Resolve(c) \/ Withdraw(c)
    \/ \E c \in Calls, a \in Answers : Answer(c, a)
    \/ Close

Spec == Init /\ [][Next]_vars
=============================================================================
