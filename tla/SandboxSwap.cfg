SPECIFICATION FairSpec
CONSTANTS
    t1 = t1  t2 = t2
    Tasks = {t1, t2}
    NoTask = NoTask
    Gone = Gone
    Slots = {1, 2, 3}
    MaxFile = 2
    MaxChat = 2
    Sizes = {1, 2, 3}
    Old <- MCOld
    MaxErrors = 1
    MaxSnapshots = 2
INVARIANTS TypeOK ThreadHasLock QuotaKept
PROPERTIES ImplementsStore EveryMutationEnds
