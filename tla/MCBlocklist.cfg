SPECIFICATION ListSpec
CONSTANTS
    a1 = a1
    a2 = a2
    a3 = a3
    a4 = a4
    Accounts <- FourAccounts
    MaxBatch = 3
INVARIANTS
    IndexAgrees
PROPERTIES
    SingleIsSet
    BatchIsSet
