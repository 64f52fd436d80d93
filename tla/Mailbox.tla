------------------------------- MODULE Mailbox -------------------------------
(***************************************************************************)
(* The mailbox of src/messaging/erl_message.c, node by node: a linked list *)
(* that any number of senders extend with an atomic exchange of the tail   *)
(* and one receiver shortens, with no lock (the mutex in the struct is     *)
(* never taken), together with the save cursor of selective receive.       *)
(*                                                                         *)
(* Every access to memory that another thread may write is a step of its   *)
(* own.  Nodes are addresses: a freed address may be handed out again, so  *)
(* a late write to it lands in whatever lives there by then.               *)
(***************************************************************************)
EXTENDS Integers, Sequences

CONSTANTS
    Sender,        \* threads that call beam_mailbox_enqueue
    Node,          \* the addresses the allocator may hand out
    Null,          \* the NULL pointer
    MsgsPerSender, \* how many messages each sender sends
    Disciplines,   \* how the receiver may take messages: see AllDisciplines
    ReceiverWaits  \* the receiver starts when the senders are done

AllDisciplines == {"dequeue", "selective"}

ASSUME MailboxAssumption ==
    /\ Null \notin Node
    /\ MsgsPerSender \in Nat
    /\ Disciplines \subseteq AllDisciplines
    /\ ReceiverWaits \in BOOLEAN

VARIABLES
    head, tail, save_cursor, save_prev, count, atomic_count,  \* the mailbox
    next, body,   \* the fields of the nodes
    allocated,    \* the addresses in use
    spc,          \* where each sender is
    snode,        \* its new node
    sprev,        \* prev_tail
    scount,       \* the count it has read
    sent,         \* messages it has handed to enqueue
    discipline,   \* how this receiver takes messages
    refused,      \* history: messages for which there was no node
    rpc,          \* where the receiver is
    rnode, rnext, \* the node it is taking out, and that node's next
    rcount,       \* the count it has read
    received,     \* history: messages taken out, in order
    order         \* history: linked nodes not taken out, in exchange order

boxVars  == <<head, tail, save_cursor, save_prev, count, atomic_count>>
nodeVars == <<next, body, allocated>>
sendVars == <<spc, snode, sprev, scount, sent, refused>>
recvVars == <<discipline, rpc, rnode, rnext, rcount, received>>
vars == <<boxVars, nodeVars, sendVars, recvVars, order>>

NodeOrNull == Node \cup {Null}
Message == Sender \X (1 .. MsgsPerSender)
NoMessage == << >>

\* A sequence without (the first occurrence of) one of its elements.
Without(seq, n) ==
    IF \E i \in 1 .. Len(seq) : seq[i] = n
    THEN LET k == CHOOSE i \in 1 .. Len(seq) : seq[i] = n
         IN  SubSeq(seq, 1, k - 1) \o SubSeq(seq, k + 1, Len(seq))
    ELSE seq

-----------------------------------------------------------------------------
\* beam_mailbox_create: memset to zero.
Init ==
    /\ head = Null /\ tail = Null /\ save_cursor = Null /\ save_prev = Null
    /\ count = 0 /\ atomic_count = 0
    /\ next = [n \in Node |-> Null]
    /\ body = [n \in Node |-> NoMessage]
    /\ allocated = {}
    /\ spc = [s \in Sender |-> "idle"]
    /\ snode = [s \in Sender |-> Null]
    /\ sprev = [s \in Sender |-> Null]
    /\ scount = [s \in Sender |-> 0]
    /\ sent = [s \in Sender |-> 0]
    /\ rpc = "idle" /\ rnode = Null /\ rnext = Null /\ rcount = 0
    /\ discipline \in Disciplines
    /\ refused = {}
    /\ received = << >>
    /\ order = << >>

-----------------------------------------------------------------------------
(* A sender: beam_mailbox_enqueue. *)

\* Allocate and fill a node, then exchange the tail.
EnqueueExchange(s) ==
    /\ spc[s] = "idle"
    /\ sent[s] < MsgsPerSender
    /\ \E n \in Node \ allocated :
        /\ allocated' = allocated \cup {n}
        /\ body' = [body EXCEPT ![n] = <<s, sent[s] + 1>>]
        /\ next' = [next EXCEPT ![n] = Null]
        /\ snode' = [snode EXCEPT ![s] = n]
        /\ tail' = n
        /\ order' = Append(order, n)
    /\ sprev' = [sprev EXCEPT ![s] = tail]
    /\ sent' = [sent EXCEPT ![s] = @ + 1]
    /\ spc' = [spc EXCEPT ![s] = "link"]
    /\ UNCHANGED <<head, save_cursor, save_prev, count, atomic_count, scount,
                   refused, recvVars>>

\* No node: BEAM_ERR_NO_MEMORY, which SEND ignores (beam_emu.c:167).
EnqueueNoMemory(s) ==
    /\ spc[s] = "idle"
    /\ sent[s] < MsgsPerSender
    /\ allocated = Node
    /\ sent' = [sent EXCEPT ![s] = @ + 1]
    /\ refused' = refused \cup {<<s, sent[s] + 1>>}
    /\ UNCHANGED <<boxVars, nodeVars, spc, snode, sprev, scount, recvVars, order>>

\* Mutant of the next definition: the first node is not made the head.
LinkForgetsHead(s) ==
    /\ spc[s] = "link"
    /\ next' = IF sprev[s] = Null THEN next
                                  ELSE [next EXCEPT ![sprev[s]] = snode[s]]
    /\ spc' = [spc EXCEPT ![s] = "count"]
    /\ UNCHANGED <<boxVars, body, allocated, snode, sprev, scount, sent, refused,
                   recvVars, order>>

\* Mutant of the next definition: the new node is put in front.
LinkInFront(s) ==
    /\ spc[s] = "link"
    /\ head' = snode[s]
    /\ next' = [next EXCEPT ![snode[s]] = head]
    /\ spc' = [spc EXCEPT ![s] = "count"]
    /\ UNCHANGED <<tail, save_cursor, save_prev, count, atomic_count, body,
                   allocated, snode, sprev, scount, sent, refused, recvVars,
                   order>>

\* Store the new node in the head or in the previous tail.
EnqueueLink(s) ==
    /\ spc[s] = "link"
    /\ IF sprev[s] = Null
       THEN head' = snode[s] /\ UNCHANGED next
       ELSE next' = [next EXCEPT ![sprev[s]] = snode[s]] /\ UNCHANGED head
    /\ spc' = [spc EXCEPT ![s] = "count"]
    /\ UNCHANGED <<tail, save_cursor, save_prev, count, atomic_count, body,
                   allocated, snode, sprev, scount, sent, refused, recvVars,
                   order>>

\* atomic_fetch_add, and the load of count++.
EnqueueLoadCount(s) ==
    /\ spc[s] = "count"
    /\ atomic_count' = atomic_count + 1
    /\ scount' = [scount EXCEPT ![s] = count]
    /\ spc' = [spc EXCEPT ![s] = "store_count"]
    /\ UNCHANGED <<head, tail, save_cursor, save_prev, count, nodeVars, snode,
                   sprev, sent, refused, recvVars, order>>

\* The store of count++, and the return.
EnqueueStoreCount(s) ==
    /\ spc[s] = "store_count"
    /\ count' = scount[s] + 1
    /\ spc' = [spc EXCEPT ![s] = "idle"]
    /\ snode' = [snode EXCEPT ![s] = Null]
    /\ sprev' = [sprev EXCEPT ![s] = Null]
    /\ scount' = [scount EXCEPT ![s] = 0]
    /\ UNCHANGED <<head, tail, save_cursor, save_prev, atomic_count, nodeVars,
                   sent, refused, recvVars, order>>

-----------------------------------------------------------------------------
(* The receiver. *)

SendersDone ==
    \A s \in Sender : spc[s] = "idle" /\ sent[s] = MsgsPerSender

\* The receiver may begin an operation of this kind.
MayReceive(op) ==
    /\ rpc = "idle"
    /\ discipline = op
    /\ ReceiverWaits => SendersDone

\* beam_mailbox_dequeue: the head is there (it returns NOT_FOUND otherwise).
DequeueReadHead ==
    /\ MayReceive("dequeue")
    /\ head # Null
    /\ rnode' = head
    /\ rpc' = "load_next"
    /\ UNCHANGED <<boxVars, nodeVars, sendVars, discipline, rnext, rcount, received, order>>

DequeueLoadNext ==
    /\ rpc = "load_next"
    /\ rnext' = next[rnode]
    /\ rpc' = "store_head"
    /\ UNCHANGED <<boxVars, nodeVars, sendVars, discipline, rnode, rcount, received, order>>

DequeueStoreHead ==
    /\ rpc = "store_head"
    /\ head' = rnext
    /\ rpc' = "test_head"
    /\ UNCHANGED <<tail, save_cursor, save_prev, count, atomic_count, nodeVars,
                   sendVars, discipline, rnode, rnext, rcount, received, order>>

\* The head is read again.
DequeueTestHead ==
    /\ rpc = "test_head"
    /\ rpc' = IF head = Null THEN "clear_tail" ELSE "count"
    /\ UNCHANGED <<boxVars, nodeVars, sendVars, discipline, rnode, rnext, rcount,
                   received, order>>

\* Mutant of the next definition: the tail of the emptied list is kept.
ClearTailForgotten ==
    /\ rpc = "clear_tail"
    /\ rpc' = "count"
    /\ UNCHANGED <<boxVars, nodeVars, sendVars, discipline, rnode, rnext, rcount,
                   received, order>>

\* The list was empty: the tail is cleared, whatever it is by now.
DequeueClearTail ==
    /\ rpc = "clear_tail"
    /\ tail' = Null
    /\ rpc' = "count"
    /\ UNCHANGED <<head, save_cursor, save_prev, count, atomic_count, nodeVars,
                   sendVars, discipline, rnode, rnext, rcount, received, order>>

\* if (mbox->count > 0) mbox->count--, first half: also of remove_current.
ReceiveLoadCount ==
    /\ rpc = "count"
    /\ rcount' = count
    /\ rpc' = "free"
    /\ UNCHANGED <<boxVars, nodeVars, sendVars, discipline, rnode, rnext, received, order>>

\* Mutant of the next definition: the count may fall below zero.
FreeUnguarded ==
    /\ rpc = "free"
    /\ count' = rcount - 1
    /\ allocated' = allocated \ {rnode}
    /\ received' = Append(received, body[rnode])
    /\ order' = Without(order, rnode)
    /\ rpc' = "idle" /\ rnode' = Null /\ rnext' = Null /\ rcount' = 0
    /\ UNCHANGED <<head, tail, save_cursor, save_prev, atomic_count, next,
                   body, sendVars, discipline>>

\* The store of count--, the free of the node, and the return.
ReceiveFree ==
    /\ rpc = "free"
    /\ count' = IF rcount > 0 THEN rcount - 1 ELSE count
    /\ allocated' = allocated \ {rnode}
    /\ received' = Append(received, body[rnode])
    /\ order' = Without(order, rnode)
    /\ rpc' = "idle" /\ rnode' = Null /\ rnext' = Null /\ rcount' = 0
    /\ UNCHANGED <<head, tail, save_cursor, save_prev, atomic_count, next,
                   body, sendVars, discipline>>

\* LOOP_REC: beam_mailbox_peek_save with no cursor (re)starts at the head; with
\* one it only reads the message.  On an empty mailbox LOOP_REC resets the
\* cursor, which leaves it NULL.
LoopRec ==
    /\ MayReceive("selective")
    /\ save_cursor = Null
    /\ save_cursor' = head
    /\ save_prev' = Null
    /\ UNCHANGED <<head, tail, count, atomic_count, nodeVars, sendVars,
                   recvVars, order>>

\* beam_mailbox_reset_save_cursor.
ResetCursor ==
    /\ MayReceive("selective")
    /\ save_cursor' = head
    /\ save_prev' = Null
    /\ UNCHANGED <<head, tail, count, atomic_count, nodeVars, sendVars,
                   recvVars, order>>

\* Mutant of the next definition: the predecessor is not remembered.
LoopRecEndKeepsPrev ==
    /\ MayReceive("selective")
    /\ save_cursor # Null
    /\ save_cursor' = next[save_cursor]
    /\ UNCHANGED <<head, tail, save_prev, count, atomic_count, nodeVars,
                   sendVars, recvVars, order>>

\* LOOP_REC_END: the message does not match, look at the next one.
LoopRecEnd ==
    /\ MayReceive("selective")
    /\ save_cursor # Null
    /\ save_prev' = save_cursor
    /\ save_cursor' = next[save_cursor]
    /\ UNCHANGED <<head, tail, count, atomic_count, nodeVars, sendVars,
                   recvVars, order>>

\* REMOVE_MESSAGE: beam_mailbox_remove_current (NOT_FOUND without a cursor).
RemoveLoadNext ==
    /\ MayReceive("selective")
    /\ save_cursor # Null
    /\ rnode' = save_cursor
    /\ rnext' = next[save_cursor]
    /\ rpc' = "unlink"
    /\ UNCHANGED <<boxVars, nodeVars, sendVars, discipline, rcount, received, order>>

RemoveUnlink ==
    /\ rpc = "unlink"
    /\ IF save_prev # Null
       THEN next' = [next EXCEPT ![save_prev] = rnext] /\ UNCHANGED head
       ELSE head' = rnext /\ UNCHANGED next
    /\ rpc' = "check_tail"
    /\ UNCHANGED <<tail, save_cursor, save_prev, count, atomic_count, body,
                   allocated, sendVars, discipline, rnode, rnext, rcount, received, order>>

\* The tail is another node: only the cursor moves on.
RemoveInside ==
    /\ rpc = "check_tail"
    /\ tail # rnode
    /\ save_cursor' = rnext
    /\ rpc' = "count"
    /\ UNCHANGED <<head, tail, save_prev, count, atomic_count, nodeVars,
                   sendVars, discipline, rnode, rnext, rcount, received, order>>

\* The node is the tail: the tail will be moved back.
RemoveAtTail ==
    /\ rpc = "check_tail"
    /\ tail = rnode
    /\ rpc' = "store_tail"
    /\ UNCHANGED <<boxVars, nodeVars, sendVars, discipline, rnode, rnext, rcount,
                   received, order>>

RemoveStoreTail ==
    /\ rpc = "store_tail"
    /\ tail' = save_prev
    /\ save_cursor' = rnext
    /\ rpc' = "count"
    /\ UNCHANGED <<head, save_prev, count, atomic_count, nodeVars, sendVars,
                   discipline, rnode, rnext, rcount, received, order>>

-----------------------------------------------------------------------------
Send(s) ==
    \/ EnqueueExchange(s) \/ EnqueueNoMemory(s) \/ EnqueueLink(s)
    \/ EnqueueLoadCount(s) \/ EnqueueStoreCount(s)

Dequeue ==
    \/ DequeueReadHead \/ DequeueLoadNext \/ DequeueStoreHead
    \/ DequeueTestHead \/ DequeueClearTail \/ ReceiveLoadCount \/ ReceiveFree

SelectiveReceive ==
    \/ LoopRec \/ ResetCursor \/ LoopRecEnd
    \/ RemoveLoadNext \/ RemoveUnlink \/ RemoveInside \/ RemoveAtTail
    \/ RemoveStoreTail

\* Every message was sent and the list is empty.
Finished == SendersDone /\ rpc = "idle" /\ head = Null /\ UNCHANGED vars

Next == (\E s \in Sender : Send(s)) \/ Dequeue \/ SelectiveReceive \/ Finished

Spec == Init /\ [][Next]_vars

\* The threads run: every sender goes on, and the receiver drains the list.
FairSpec == Spec /\ (\A s \in Sender : WF_vars(Send(s))) /\ WF_vars(Dequeue)

-----------------------------------------------------------------------------
TypeOK ==
    /\ {head, tail, save_cursor, save_prev, rnode, rnext} \subseteq NodeOrNull
    /\ {count, atomic_count, rcount} \subseteq Nat
    /\ next \in [Node -> NodeOrNull]
    /\ body \in [Node -> Message \cup {NoMessage}]
    /\ allocated \subseteq Node
    /\ spc \in [Sender -> {"idle", "link", "count", "store_count"}]
    /\ snode \in [Sender -> NodeOrNull]
    /\ sprev \in [Sender -> NodeOrNull]
    /\ scount \in [Sender -> Nat]
    /\ sent \in [Sender -> 0 .. MsgsPerSender]
    /\ rpc \in {"idle", "load_next", "store_head", "test_head", "clear_tail",
                "count", "free", "unlink", "check_tail", "store_tail"}
    /\ discipline \in Disciplines
    /\ refused \subseteq Message
    /\ received \in Seq(Message)
    /\ order \in Seq(Node)

(***************************************************************************)
(* The list is whole: whenever the receiver is between two operations,     *)
(* following next from the head visits exactly the nodes linked and not    *)
(* yet taken, in the order of their exchanges, and ends at the tail; a     *)
(* link may be missing only while the sender that owes it has not stored   *)
(* it yet.  Without it messages are lost (erl_message.c:40-45, :60-66).    *)
(***************************************************************************)
Owes(n, prev) ==
    \E s \in Sender : spc[s] = "link" /\ snode[s] = n /\ sprev[s] = prev

ListIsWhole ==
    rpc = "idle" =>
        IF order = << >>
        THEN head = Null /\ tail = Null
        ELSE /\ head = order[1] \/ (head = Null /\ Owes(order[1], Null))
             /\ \A i \in 1 .. Len(order) - 1 :
                    \/ next[order[i]] = order[i + 1]
                    \/ next[order[i]] = Null /\ Owes(order[i + 1], order[i])
             /\ tail = order[Len(order)]
             /\ next[tail] = Null

(***************************************************************************)
(* The save cursor of selective receive never dangles: between two         *)
(* operations it is NULL or a node of the list, and save_prev is that      *)
(* node's predecessor (NULL for the head), so that remove_current unlinks  *)
(* the right node (erl_message.c:89-109, beam_emu.c:197-206).              *)
(***************************************************************************)
CursorIsInList ==
    rpc = "idle" /\ save_cursor # Null =>
        \E i \in 1 .. Len(order) :
            /\ save_cursor = order[i]
            /\ save_prev = IF i = 1 THEN Null ELSE order[i - 1]

(***************************************************************************)
(* Messages of one sender are received in the order it sent them, and no   *)
(* message is received twice, by a receiver that takes the head (a         *)
(* selective one may choose).                                              *)
(***************************************************************************)
SenderOrder ==
    discipline = "dequeue" => \A i, j \in 1 .. Len(received) :
        i < j /\ received[i][1] = received[j][1] => received[i][2] < received[j][2]

(***************************************************************************)
(* No data loss: when every enqueue has returned and the receiver is idle, *)
(* a message that was sent and not received can still be found from the    *)
(* head (ROADMAP.md:15 and :31 promise a lock-free mailbox, "without locks *)
(* or data loss").                                                         *)
(***************************************************************************)
NoMessageLost ==
    (\A s \in Sender : spc[s] = "idle") /\ rpc = "idle" /\ order # << >>
        => head # Null

(***************************************************************************)
(* Each message is received in the end, whatever the interleaving of the   *)
(* senders was, unless there was no node for it: its enqueue then returned *)
(* BEAM_ERR_NO_MEMORY.                                                     *)
(***************************************************************************)
EverythingReceived ==
    \A m \in Message :
        discipline = "dequeue"
            ~> (m \in refused \/ \E i \in 1 .. Len(received) : received[i] = m)
=============================================================================
