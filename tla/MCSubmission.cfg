CONSTANTS
    Users = {u1, u2}
    Names = {n1, n2}
    Landmarks = {stamp}
    CollegePark = {stamp}
    Searches = {s1}
    Taps = {t1}
    None = None
SYMMETRY Symmetry
SPECIFICATION Spec
INVARIANTS
    Attribution
    LossHasACause
PROPERTY
    ImplementsBoard
