-------------------------------- MODULE Calls --------------------------------
(***************************************************************************)
(* Application threads and the calls they make into the crate, one after   *)
(* the other.  A call ends by returning a code to its thread; the error   *)
(* information that goes with a failure is left out.                       *)
(***************************************************************************)
EXTENDS ReturnCodes, FiniteSets, TLC

CONSTANTS
    Threads,
    Programs        \* the programs of a run: for each thread, its calls in order

ASSUME ProgramsAssumption ==
    \A p \in Programs, t \in Threads : Len(p[t]) \in Nat /\ DOMAIN p[t] = 1 .. Len(p[t])

VARIABLES
    program,
    at,             \* at[t]: the call t makes now or next
    pc,             \* pc[t]: where in that call t is, "ready" before it
    results         \* results[t]: the codes of t's calls so far

callVars == <<program, at, pc, results>>

CallsInit ==
    /\ program \in Programs
    /\ at = [t \in Threads |-> 1]
    /\ pc = [t \in Threads |-> "ready"]
    /\ results = [t \in Threads |-> <<>>]

Call(t) == program[t][at[t]]
IsDone(t) == at[t] > Len(program[t])
Calling(t, op) == ~IsDone(t) /\ Call(t).op = op
ReadyFor(t, op) == pc[t] = "ready" /\ Calling(t, op)

Goto(t, step) ==
    /\ pc' = [pc EXCEPT ![t] = step]
    /\ UNCHANGED <<program, at, results>>

\* The call of t ends with a code.
Return(t, code) ==
    /\ results' = [results EXCEPT ![t] = Append(@, code)]
    /\ at' = [at EXCEPT ![t] = @ + 1]
    /\ pc' = [pc EXCEPT ![t] = "ready"]
    /\ UNCHANGED program

\* A C function has returned raw to t's call, which ends with its name.
ReturnFrom(t, raw) == Return(t, FromRaw(raw))

Ended == UNION {{<<t, i>> : i \in DOMAIN results[t]} : t \in Threads}
CallOf(call) == program[call[1]][call[2]]
Result(call) == results[call[1]][call[2]]
=============================================================================
