---------------------------- MODULE MCStoreTasks ----------------------------
(* Instances of StoreTasks for TLC. *)
EXTENDS StoreTasks, TLC

PeopleSymmetry == Permutations(People) \cup Permutations(Managers)
=============================================================================
