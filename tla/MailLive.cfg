SPECIFICATION FairMailSpec
CONSTANTS
    r1 = r1
    r2 = r2
    employee = employee
    manager = manager
    optiz = optiz
    c1 = c1
    c2 = c2
    Nobody = Nobody
    Requests <- MCOneRequest
    Employees <- MCEmployees
    Managers <- MCManagers
    Team <- MCTeam
    Staff <- MCStaff
    Celery <- MCTwoCelery
    PrefSets = {{"offer", "refused"}, {"approval"}}
    StaffCodes = {"CAN"}
    Kinds = {"blank", "offer", "decide"}
    OneWorker = TRUE
    MaxOrders = 1
    MaxRequests = 2
    MaxPrefSaves = 1
INVARIANTS MailTypeOK OfferMailed MailedExactly
PROPERTIES TasksEnd
CHECK_DEADLOCK FALSE
