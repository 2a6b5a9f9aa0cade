SPECIFICATION Spec
CONSTANTS
    r1 = r1
    r2 = r2
    employee = employee
    manager = manager
    Nobody = Nobody
    Requests <- MCRequests
    Employees = {}
    Managers <- MCManagers
    StaffCodes = {"CAN"}
    Kinds = {"new", "add", "edit", "delitem", "address", "reference", "submit", "delete", "blank", "offer", "decide", "status", "comment"}
    OneWorker = TRUE
    MaxOrders = 2
    MaxRequests = 4
SYMMETRY SlotSymmetry
PROPERTIES TableRefined
CHECK_DEADLOCK FALSE
