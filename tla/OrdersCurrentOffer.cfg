SPECIFICATION Spec
CONSTANTS
    r1 = r1
    r2 = r2
    employee = employee
    manager = manager
    Nobody = Nobody
    Requests <- MCRequests
    Employees <- MCEmployees
    Managers <- MCManagers
    StaffCodes = {"CAN"}
    Kinds = {"blank", "offer", "decide"}
    OneWorker = TRUE
    MaxOrders = 1
    MaxRequests = 4
SYMMETRY SlotSymmetry
INVARIANTS CurrentOfferDecided
CHECK_DEADLOCK FALSE
