SPECIFICATION Spec
CONSTANTS
    Browser = {ann, bob}
    Staff = {bob}
    Token = {t1, t2}
    Comment = {c1, c2}
    Channel = {ch1, ch2}
SYMMETRY Symmetry
PROPERTIES
    WritersKeepTheirComments
