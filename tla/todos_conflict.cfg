SPECIFICATION Spec
CONSTANTS
    Requests = {r1}
    TodoIds = {t1}
    Tenants = {a, b}
    a = a
    b = b
    NoTenant = NoTenant
    Nobody = Nobody
    NoTodo = NoTodo
    Hosts = {"Api", "GraphQL"}
    Principals <- OneMember
    MaxFields = 2
    MaxFaults = 1
    UnhandledPublishThrows = FALSE
CHECK_DEADLOCK FALSE
INVARIANTS ConflictIsTrue
