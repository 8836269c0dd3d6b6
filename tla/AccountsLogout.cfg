SPECIFICATION Spec
CONSTANTS
    Main = main
    AdminId = {main}
    Password = {p1, p2}
    Token = {t1, t2}
    Worker = {w1, w2}
SYMMETRY Symmetry
INVARIANTS
    PasswordChangeForcesLogout
