CONSTANTS
    Requesters = {h1, h2}
    Addresses = {a, b}
    FirstAddress = a
    MaxCodeAttempts = 1
    MaxCodes = 2
    MaxChanges = 1
SPECIFICATION VerificationSpec
INVARIANT VerifiedIsProven
CHECK_DEADLOCK FALSE
