----------------------------- MODULE MCExecutor -----------------------------
(* Executor for TLC: tables, indexes and column values are interchangeable. *)
EXTENDS Executor

Interchangeable ==
    Permutations(Tables) \cup Permutations(Indexes) \cup Permutations(Keys)
=============================================================================
