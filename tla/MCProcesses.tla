----------------------------- MODULE MCProcesses -----------------------------
(* A small Processes; nodes, processes, threads and variables of one type are
   interchangeable. *)
EXTENDS Processes, TLC

CONSTANTS n1, n2, n3, n4, p1, p2, t1, t2, pv1, pv2, tv1, tv2

SmallNodes == {n1, n2, n3, n4}
SmallProcs == {p1, p2}
SmallThreads == {t1, t2}
SmallProcVars == {pv1, pv2}
SmallThreadVars == {tv1, tv2}

Symmetry ==
    Permutations(SmallNodes) \cup Permutations(SmallProcs) \cup Permutations(SmallThreads)
        \cup Permutations(SmallProcVars) \cup Permutations(SmallThreadVars)
=============================================================================
