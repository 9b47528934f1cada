CONSTANTS
    p1 = p1
    p2 = p2
    a = a
    b = b
    c = c
    None = None
    Process = {p1, p2}
    Task = {a, b, c}
    MaxTasks = 2
    Expiry = 3
    Ttl = 1
    MaxNow = 3
SYMMETRY Symmetry
SPECIFICATION Spec
INVARIANTS
    TypeOK
    BudgetHeld
    OneExecution
    TreesOwned
