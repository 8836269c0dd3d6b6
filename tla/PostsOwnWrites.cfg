SPECIFICATION PostsSpec
CONSTANTS
    Main = main
    AdminId = {main, ann}
    Password = {p1}
    Token = {t1, t2}
    Worker = {w1}
    Editor = {e1, e2}
    Post = {x}
    Nick = {n1}
    Sent = {"draft", "hide", "delete"}
SYMMETRY Symmetry
PROPERTIES
    ChangesOnlyOwn
