----------------------------- MODULE GlobalInit -----------------------------
(***************************************************************************)
(* Contexts are created by any thread (RawContext::new, src/context.rs);   *)
(* the first of a process initialises the C library through the OnceLock   *)
(* SOLACE_GLOBAL_INIT, with its own crypto configuration.                  *)
(*                                                                         *)
(* A call [op |-> "context", crypto |-> c] has one of the configurations   *)
(* "none", "nul" (a library name with a NUL byte) or any other name.       *)
(***************************************************************************)
EXTENDS Calls

VARIABLES
    globalInit,     \* the OnceLock: "empty", "running" its closure, "set"
    initRaw,        \* the raw code it holds when it is set
    library,        \* the configurations solClient_initialize was called with
    warned,         \* the calls that logged "GlobalCryptoConfig ignored"
    contexts        \* the calls that created a context

initVars == <<globalInit, initRaw, library, warned, contexts>>

\* A program that creates no context runs in a process that has one.
GlobalInitInit ==
    /\ globalInit = IF \E t \in Threads : \E i \in DOMAIN program[t] : program[t][i].op = "context"
                    THEN "empty" ELSE "set"
    /\ initRaw = RawCodes.Ok
    /\ library = <<>>
    /\ warned = {}
    /\ contexts = {}

-----------------------------------------------------------------------------
\* CString::new fails, before anything is looked at.
RefuseCrypto(t) ==
    /\ ReadyFor(t, "context") /\ Call(t).crypto = "nul"
    /\ Return(t, "InvalidGlobalProperty")
    /\ UNCHANGED initVars

\* The properties are made; the thread is at get_or_init, where it may have to wait.
EnterContext(t) ==
    /\ ReadyFor(t, "context") /\ Call(t).crypto # "nul"
    /\ Goto(t, "once")
    /\ UNCHANGED initVars

\* Variant of BeginInit: the lock is looked at, but not held while the closure runs.
BeginInitUnheld(t) ==
    /\ pc[t] = "once"
    /\ globalInit = "empty"
    /\ Goto(t, "initialize")
    /\ UNCHANGED initVars

\* get_or_init finds the lock empty and runs the closure; applied becomes true.
BeginInit(t) ==
    /\ pc[t] = "once"
    /\ globalInit = "empty"
    /\ globalInit' = "running"
    /\ Goto(t, "initialize")
    /\ UNCHANGED <<initRaw, library, warned, contexts>>

\* solClient_initialize returns inside the closure.
EndInit(t, raw) ==
    /\ pc[t] = "initialize"
    /\ globalInit' = "set"
    /\ initRaw' = raw
    /\ library' = Append(library, Call(t).crypto)
    /\ Goto(t, "check")
    /\ UNCHANGED <<warned, contexts>>

\* get_or_init finds a value, waiting for it while another thread's closure runs.
Join(t) ==
    /\ pc[t] = "once"
    /\ globalInit = "set"
    /\ warned' = IF Call(t).crypto = "none" THEN warned ELSE warned \cup {<<t, at[t]>>}
    /\ Goto(t, "check")
    /\ UNCHANGED <<globalInit, initRaw, library, contexts>>

\* The value the lock holds is an error: it goes to every context of the process.
RefuseContext(t) ==
    /\ pc[t] = "check" /\ ~IsOk(FromRaw(initRaw))
    /\ ReturnFrom(t, initRaw)
    /\ UNCHANGED initVars

\* solClient_context_create returns.
CreateContext(t, raw) ==
    /\ pc[t] = "check" /\ IsOk(FromRaw(initRaw))
    /\ contexts' = IF IsOk(FromRaw(raw)) THEN contexts \cup {<<t, at[t]>>} ELSE contexts
    /\ ReturnFrom(t, raw)
    /\ UNCHANGED <<globalInit, initRaw, library, warned>>

GlobalInitStep(t) ==
    \/ RefuseCrypto(t) \/ EnterContext(t) \/ BeginInit(t) \/ Join(t) \/ RefuseContext(t)
    \/ \E raw \in {RawCodes.Ok, RawCodes.Fail} : EndInit(t, raw) \/ CreateContext(t, raw)

-----------------------------------------------------------------------------
\* The C library is initialised once in a process, no context exists unless that succeeded,
\* and a context whose configuration is not the one in effect has said so in the log
\* (context.rs:198-201, "later contexts with a different config are ignored (a warning is
\* logged)"), whichever threads come first and overtake each other.
OneConfigurationWins ==
    /\ Len(library) <= 1
    /\ contexts # {} => globalInit = "set" /\ initRaw = RawCodes.Ok
    /\ \A call \in contexts :
          CallOf(call).crypto # "none" /\ call \notin warned => library = <<CallOf(call).crypto>>
=============================================================================
