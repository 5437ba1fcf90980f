SPECIFICATION FairSpec
CONSTANTS
    t1 = t1  t2 = t2
    Tasks = {t1, t2}
    NoTask = NoTask
    Faults = {"task", "stop", "crash"}
    Overlap = {}
INVARIANTS TypeOK TitleTaskIsKnown
PROPERTIES SavedTitleStays ClaimIsServed PendingEnds DeletedStaysDeleted
CHECK_DEADLOCK FALSE
