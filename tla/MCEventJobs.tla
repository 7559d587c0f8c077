---------------------------- MODULE MCEventJobs -----------------------------
(* Instances of EventJobs for TLC. *)
EXTENDS EventJobs, TLC

\* Slots are interchangeable, and so are frontend calls (safety runs only).
SlotSymmetry == Permutations(Workers) \cup Permutations(Callers)
=============================================================================
