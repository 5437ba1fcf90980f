SPECIFICATION Spec
CONSTANTS
    c1 = c1  c2 = c2  t1 = t1  t2 = t2  t3 = t3
    m1 = m1  m2 = m2  m3 = m3  a = a  b = b  f1 = f1
    Chats = {c1}
    Tasks = {t1, t2}
    TurnIds = {m1, m2, m3}
    Requests = {a, b}
    Files = {f1}
    Imported <- ImportedTurns
    FaultyFiles = FALSE
    NoTask = NoTask  NoJob = NoJob  Legacy = Legacy
INVARIANTS TypeOK EveryTurnRevisable RunSeesItsPast
PROPERTIES ImplementsLedger NothingRevived
