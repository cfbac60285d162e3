SPECIFICATION Spec
CONSTANTS
    Requests = {r1,r2,r3}
    TodoIds = {t1,t2}
    Tenants = {a, b}
    a = a
    b = b
    NoTenant = NoTenant
    Nobody = Nobody
    NoTodo = NoTodo
    Hosts = {"Api", "GraphQL"}
    Principals <- AnyToken
    MaxFields = 1
    MaxFaults = 1
    UnhandledPublishThrows = TRUE
CHECK_DEADLOCK FALSE
SYMMETRY Symmetric
INVARIANTS
    TypeOK
    OneWinner
    AuditsExactlyOnce
    ConflictIsTrue
    TenantIsolation
    AnnouncedBeforeAnswer
PROPERTY RowsOnlyAdvance
