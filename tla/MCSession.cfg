CONSTANTS
    Emails = {e1, e2}
    Calls = {c1, c2}
    PasswordCounts = {6, 7}
    MaxDepth = 7
    None = None
SYMMETRY Symmetry
SPECIFICATION Spec
INVARIANTS
    TypeOK
    SignedInAsOwner
    ProfileIsOwners
    RegistrationOnlyOnce
PROPERTIES
    SignedInStays
