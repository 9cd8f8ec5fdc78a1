CONSTANTS
    Docs = {d1, d2}
    Decodable = {d1}
    Models = {m1, m2}
    Listeners = {l1, l2}
    MaxVersion = 2
    None = None
SPECIFICATION FairSpec
INVARIANTS
    FeedIsCurrent
    RequestsNeverStall
PROPERTIES
    NeverOlder
    RequestIsAnswered
