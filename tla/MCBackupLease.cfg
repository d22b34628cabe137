SPECIFICATION Spec
CONSTANTS
    Backups = {1, 2, 3}
    Names = {1, 2}
    NameOf <- MCNameOf
    NoHolder = NoHolder
    MaxCrashes = 1
INVARIANTS
    TypeOK
    LeaseExclusive
    SuspendedHoldsLease
PROPERTY LeaseImplementsSlot
CHECK_DEADLOCK FALSE
