--------------------------- MODULE MCAsyncPublish ---------------------------
(***************************************************************************)
(* AsyncPublish on small sets of calls.                                    *)
(***************************************************************************)
EXTENDS AsyncPublish, TLC

\* Calls are interchangeable: only their identity matters.
CallSymmetry == Permutations(Calls)
=============================================================================
