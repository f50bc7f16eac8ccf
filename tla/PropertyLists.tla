---------------------------- MODULE PropertyLists ----------------------------
(***************************************************************************)
(* The property lists the crate hands to the C library: an array of key    *)
(* and value pointers that ends with a null pointer.                       *)
(*                                                                         *)
(* A C string is named by its text, and "nul" stands for any text with a   *)
(* NUL byte in it.                                                         *)
(***************************************************************************)
EXTENDS LibraryNames, Integers, Sequences, FiniteSets, SequencesExt, FiniteSetsExt, TLC

Null == "(null)"

\* A null pointer in place of a list, which the library reads like an empty one.
NoList == <<>>

\* A text CString::new refuses.
HasNul(text) == text = "nul"

\* The fields of f, and those of g that f does not have; @@ of the TLC module, which has no
\* definition in proofs.
f ++ g == [x \in DOMAIN f \cup DOMAIN g |-> IF x \in DOMAIN f THEN f[x] ELSE g[x]]

\* fields with one of them set.
With(fields, key, value) == [k \in DOMAIN fields \cup {key} |-> IF k = key THEN value ELSE fields[k]]

\* if let Some(x) = ... { props.push(key); props.push(x); }
PushIfSet(option, names, values) ==
    IF option \in DOMAIN values THEN <<names[option], values[option]>> ELSE <<>>

\* The pairs of the options in order that are set.
PushAll(order, names, values) ==
    FlattenSeq([i \in DOMAIN order |-> PushIfSet(order[i], names, values)])

\* The first option of order that is refused, or "none".
FirstFault(order, refused) ==
    LET faults == {i \in DOMAIN order : order[i] \in refused}
    IN  IF faults = {} THEN "none" ELSE order[Min(faults)]

-----------------------------------------------------------------------------
(* How the C library reads a list.                                         *)

\* Keys at odd places, values behind them, up to the first null pointer.
PairCount(raw) == Min({n \in 0 .. Len(raw) : 2 * n + 1 \in DOMAIN raw => raw[2 * n + 1] = Null})

WellFormed(raw) ==
    LET n == PairCount(raw)
    IN  /\ Len(raw) = 2 * n + 1
        /\ \A i \in 1 .. 2 * n : raw[i] # Null
        /\ \A i, j \in 1 .. n : raw[2 * i - 1] = raw[2 * j - 1] => i = j

LibraryReads(raw) ==
    LET n == PairCount(raw)
    IN  [key \in {raw[2 * i - 1] : i \in 1 .. n} |->
            raw[2 * (CHOOSE i \in 1 .. n : raw[2 * i - 1] = key)]]
=============================================================================
