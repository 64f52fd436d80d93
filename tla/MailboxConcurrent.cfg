\* One sender, and a receiver that dequeues while it sends.
SPECIFICATION Spec
CONSTANTS
    Sender = {s1}
    Node = {n1, n2, n3}
    Null = Null
    MsgsPerSender = 2
    Disciplines = {"dequeue"}
    ReceiverWaits = FALSE
INVARIANTS NoMessageLost
