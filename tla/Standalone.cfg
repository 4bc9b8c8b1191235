SPECIFICATION Spec
CONSTANTS
    Callers = {c1, c2}
    Calls <- MCCalls
    Users <- MCUsers
    Groups <- MCGroups
    KeyIds <- MCKeyIds
    EnvIds <- MCEnvIds
    EnvNames <- MCEnvNames
    Rulesets <- MCRulesets
    Stranger = Stranger
    Unused = Unused
    Gone = Gone
    ListsUuids = TRUE
    Worlds <- MCWorlds
    PageSize = 3
    MaxAttempts = 2
    MaxLate = 1
INVARIANTS
    TypeOK
    AsAsked
    RulesLoaded
PROPERTIES
    OthersStay
CHECK_DEADLOCK FALSE
