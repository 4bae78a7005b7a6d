CONSTANTS
    Workers = {w1, w2}
    Accounts = {a1}
    Regions = {r1}
    Roles = {role1, role2}
    NoManager = NoManager
    NoTarget = NoTarget
SPECIFICATION FairSpec
INVARIANTS TypeOK RightManager NoConcurrentMapAccess OneBuildPerWorker
PROPERTIES CallsReturn
CHECK_DEADLOCK TRUE
