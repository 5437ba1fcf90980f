SPECIFICATION Spec
CONSTANTS
    m1 = m1  m2 = m2  o1 = o1  o2 = o2  o3 = o3  a = a  b = b
    Messages = {m1, m2}
    Outputs = {o1, o2}
    Texts = {a, b}
    Stops = {}
    MayCrash = TRUE
SYMMETRY Alike
PROPERTY FailureKeepsSteps
CHECK_DEADLOCK FALSE
