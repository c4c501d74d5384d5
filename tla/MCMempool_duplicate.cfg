\* A transaction resubmitted after a confirmation; priorities all distinct.
CONSTANTS
    x = x  y = y  w = w
    Payloads = {x, w}
    Fee <- MCFee
    Key <- MCKey
    MinFee = 1
    MaxTransactions = 3
    ExpirationTime = 1
    MaxTime = 3
SPECIFICATION Spec
CHECK_DEADLOCK FALSE
INVARIANT NoDuplicateTransactions
