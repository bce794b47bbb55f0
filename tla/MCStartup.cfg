CONSTANTS
    left = left
    right = right
    Transactions = {1, 2, 3}
    Roots = {left, right}
    RootOf <- MCRootOf
    PageSize = 2
    MaximumItems = 3
SPECIFICATION Spec
INVARIANTS OpenTransactionKeepsAGrant
PROPERTIES SuccessMeansReconciled NoEffectBeforeEveryGrant
