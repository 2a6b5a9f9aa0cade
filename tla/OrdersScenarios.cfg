SPECIFICATION ScenarioSpec
CONSTANTS
    r1 = r1
    r2 = r2
    employee = employee
    manager = manager
    Nobody = Nobody
    Requests <- MCRequests
    Employees <- MCEmployees
    Managers <- MCManagers
    StaffCodes = {"CAN", "INP"}
    Kinds = {"new", "add", "edit", "delitem", "address", "reference", "submit", "delete", "blank", "offer", "decide", "status", "comment"}
    OneWorker = FALSE
    u1 = u1
    u2 = u2
    Users <- MCUsers
    MaxClicks = 2
    MaxOpens = 4
    MaxOrders = 1
    MaxRequests = 6
SYMMETRY ScenarioSymmetry
INVARIANTS TypeOK RowsConsistent OffersNumbered DecisionOnOffer StatusAnnounced DeletedStaysDeleted ApprovedBeforeOffer ChatTypeOK PageExact OneChat
PROPERTIES NoLostUpdate
CHECK_DEADLOCK FALSE
