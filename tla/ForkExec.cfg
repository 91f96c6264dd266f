SPECIFICATION Spec
CONSTANTS
    Receiver = {r1, r2}
    Spawner = {s1}
    Fd = {f1, f2, f3}
    MaxBatch = 2
    AtomicCloexec = FALSE
INVARIANTS NothingInherited InheritedWasInFlight
