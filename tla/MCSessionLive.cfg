CONSTANTS
    Emails = {e1}
    Calls = {c1, c2}
    PasswordCounts = {7}
    MaxDepth = 4
    None = None
SPECIFICATION FairSpec
PROPERTY
    SubmitIsAnswered
