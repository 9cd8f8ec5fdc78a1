CONSTANTS
    Users = {u1}
    Names = {n1}
    Landmarks = {stamp, away}
    CollegePark = {stamp}
    Searches = {s1}
    Taps = {t1}
    None = None
SPECIFICATION Spec
INVARIANT
    EventsComplete
