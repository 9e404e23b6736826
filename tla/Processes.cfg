CONSTANTS
    n1 = n1
    n2 = n2
    n3 = n3
    n4 = n4
    p1 = p1
    p2 = p2
    t1 = t1
    t2 = t2
    pv1 = pv1
    pv2 = pv2
    tv1 = tv1
    tv2 = tv2
    Nodes <- SmallNodes
    Procs <- SmallProcs
    Threads <- SmallThreads
    ProcVars <- SmallProcVars
    ThreadVars <- SmallThreadVars
    Lowest = 1
    None = None
SPECIFICATION Spec
SYMMETRY Symmetry
INVARIANTS
    RefsExact
    ListsExact
    ScheduleFinds
