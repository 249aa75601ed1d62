SPECIFICATION Spec
CONSTANTS
    HeaderSize = 2
    Payloads = {0, 2}
    Capacity = 3
    SendBufferSize = 4
    ReceiveFloodSize = 4
    MaxMessages = 3
INVARIANTS
    MessagesArriveWhole
    SendBufferAccounted
PROPERTIES
    DeliveredOrDropped
