SPECIFICATION Spec
CONSTANTS
    Requests = {r1,r2}
    TodoIds = {t1,t2}
    Tenants = {a, b}
    a = a
    b = b
    NoTenant = NoTenant
    Nobody = Nobody
    NoTodo = NoTodo
    Hosts = {"GraphQL"}
    Principals <- OneMember
    MaxFields = 3
    MaxFaults = 2
    UnhandledPublishThrows = FALSE
CHECK_DEADLOCK FALSE
SYMMETRY Symmetric
INVARIANTS
    EventAtMostOnce
    AnswersHold
    AuditsMatchRows
    LossIsNoticed
    ConflictHasCause
PROPERTY ImplementsLifecycle
