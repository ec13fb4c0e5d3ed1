CONSTANTS
    Handlers = {h1}
    MaxPayments = 3
    MaxMollieSubs = 1
    MaxDisturbances = 0
SPECIFICATION BillingSpec
INVARIANT EntitlementInSync
CHECK_DEADLOCK FALSE
