\* A deploy and a listing share the session.
CONSTANTS
    Requests = {list, deploy}
    Mutating = {deploy}
    None = None
    Passes = 3
    MaxChanges = 1
    MaxTrouble = 1
SPECIFICATION FairSpec
CHECK_DEADLOCK FALSE
INVARIANTS AtMostOnce HealsUndisturbed
PROPERTIES OneLogin RequestsEnd
