SPECIFICATION Spec
CONSTANTS
    Connections = {c1, c2}
    Clients = {a1}
    None = None
    TxClients = {a1}
    MaxStatements = 2
INVARIANTS SessionKept
