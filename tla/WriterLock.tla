----------------------------- MODULE WriterLock -----------------------------
(***************************************************************************)
(* What the state writers need of the coordinator: at any time at most one *)
(* of them may write, and a step that lets one in happens when nobody may. *)
(***************************************************************************)
CONSTANT Writers

VARIABLE writing   \* the writers that may write now

Enter(w) == writing = {} /\ writing' = {w}
Leave == writing' = {}

Init == writing = {}
Next == Leave \/ \E w \in Writers : Enter(w)
Spec == Init /\ [][Next]_writing
============================================================================
