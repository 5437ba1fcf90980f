SPECIFICATION FairSpec
CONSTANTS
    c1 = c1  c2 = c2  t1 = t1  t2 = t2  t3 = t3
    m1 = m1  m2 = m2  m3 = m3  a = a  b = b  f1 = f1
    Chats = {c1, c2}
    Tasks = {t1, t2}
    TurnIds = {m1, m2}
    Requests = {a, b}
    Files = {}
    Imported <- ImportedTurns
    FaultyFiles = TRUE
    NoTask = NoTask  NoJob = NoJob  Legacy = Legacy
INVARIANTS Exclusion ContextMatchesHistory
PROPERTY EveryRequestEnds
