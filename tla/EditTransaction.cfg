SPECIFICATION Spec
CONSTANTS
    m1 = m1  m2 = m2  o1 = o1  o2 = o2  o3 = o3  a = a  b = b
    Messages = {m1, m2}
    Outputs = {o1, o2, o3}
    Texts = {a, b}
    Stops = {"sent", "running", "draining", "staging", "opening", "committing", "undoing"}
    MayCrash = FALSE
SYMMETRY Alike
INVARIANTS TypeOK DocumentsKept TimelineShowsTurns ArchivesAreTemporary
PROPERTIES EditIsAtomic NoLateWrites
CHECK_DEADLOCK FALSE
