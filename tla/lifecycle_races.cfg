SPECIFICATION Spec
CONSTANTS
    Commands = {c1, c2, c3, c4}
    Kinds = {"start", "serve", "stop", "cleanup"}
    None = None
    Concurrent = 2
    c1 = c1
    c2 = c2
    c3 = c3
    c4 = c4
SYMMETRY Symmetry
CHECK_DEADLOCK FALSE
INVARIANTS FileNamesListener OneSpawner RunningIsDiscoverable SidecarIsStored
