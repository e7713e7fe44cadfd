SPECIFICATION MCSpec
CONSTANTS
    Connections = {"c", "d"}
    Clients = {"a", "b", "x"}
    TxClients = {"a"}
    MaxStatements = 1
    None = None
INVARIANTS
    ConnectionsExclusive
    
PROPERTIES
    ImplementsLeases
    RequestsTracked
    RequestsAnswered
