----------------------------- MODULE OutputOwner -----------------------------
(***************************************************************************)
(* What the retry / clear guard promises, with nothing said about how: the *)
(* output path of one task instance has at most one writer at a time.  A   *)
(* new run may take the output over only once nobody holds it (SPEC.md,    *)
(* "Retry / clear guard": a retry or clear must never leave the previous   *)
(* try's remote run writing to the same output while the new run starts).  *)
(***************************************************************************)
CONSTANT Writers   \* the runs that may ever write

VARIABLE holders   \* the runs that may be writing now

Free == holders = {}

Init == Free

\* A run is submitted: nobody else may be writing.
Take(w) == Free /\ holders' = {w}

\* The run that holds the output reaches a terminal state.
Release(w) == holders = {w} /\ holders' = {}

Next == \E w \in Writers : Take(w) \/ Release(w)

Spec == Init /\ [][Next]_holders

=============================================================================
