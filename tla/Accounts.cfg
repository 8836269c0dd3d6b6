SPECIFICATION FairSpec
CONSTANTS
    Main = main
    AdminId = {main, ann}
    Password = {p1, p2}
    Token = {t1, t2}
    Worker = {w1, w2}
INVARIANTS
    TypeOK
    SessionPrivilege
    OutdatedOnlyWhilePurging
    OneSlipsPerThread
PROPERTIES
    OutdatedSessionsEnd
