\* Two senders race, with one node too few for their messages; then a receiver
\* drains the list, with dequeue or with the save cursor.
SPECIFICATION FairSpec
CONSTANTS
    Sender = {s1, s2}
    Node = {n1, n2, n3}
    Null = Null
    MsgsPerSender = 2
    Disciplines = {"dequeue", "selective"}
    ReceiverWaits = TRUE
INVARIANTS TypeOK ListIsWhole SenderOrder CursorIsInList
PROPERTIES EverythingReceived
