CONSTANTS
    WSClients = {"w1"}
    BinaryClients = {"b1", "b2"}
    MaxFaults = 3
SPECIFICATION Spec
PROPERTIES
    OthersUnharmed
