SPECIFICATION FairSpec
CONSTANTS
    Requests = {r1, r2}
    TodoIds = {t1}
    Tenants = {a, b}
    a = a
    b = b
    NoTenant = NoTenant
    Nobody = Nobody
    NoTodo = NoTodo
    Hosts = {"Api", "GraphQL"}
    Principals <- OneMember
    MaxFields = 1
    MaxFaults = 0
    UnhandledPublishThrows = FALSE
CHECK_DEADLOCK FALSE
PROPERTIES DoneReachesHeart
