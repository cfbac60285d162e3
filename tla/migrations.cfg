SPECIFICATION FairSpec
CONSTANTS
    api = api
    graphql = graphql
    older = older
    oldest = oldest
    Hosts = {api, graphql, older, oldest}
    Build <- Builds
    TodoIds = {t1, t2}
    Nobody = Nobody
INVARIANTS
    TypeOK
    SchemaServesHost
    TodosHaveTenants
PROPERTIES
    StartEnds
    OldRowsBlock
