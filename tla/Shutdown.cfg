SPECIFICATION Spec
CONSTANTS
    client1 = client1
    client2 = client2
    Clients <- TwoClients
    MaxOrders = 3
CHECK_DEADLOCK FALSE
INVARIANTS
    SubmittedOrdersSaved
