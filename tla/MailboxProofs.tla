---------------------------- MODULE MailboxProofs ----------------------------
(***************************************************************************)
(* Proofs about the mailbox, for any number of senders, messages and node  *)
(* addresses.  The types are proved for every use of the mailbox; the      *)
(* shape of the list, the save cursor and the order of messages for a      *)
(* receiver that starts when the senders are done (ReceiverWaits): with a  *)
(* concurrent receiver the list does break, as MailboxConcurrent shows.    *)
(***************************************************************************)
EXTENDS Mailbox, SequenceFacts

(***************************************************************************)
(* The inductive invariant, part by part.                                  *)
(***************************************************************************)

\* The address of a node that was allocated, and so filled, at some time.
Filled(n) == n \in Node /\ body[n] \in Message
FilledOrNull(n) == n = Null \/ Filled(n)

\* No pointer ever leads to memory that was never a node.
PointersFilled ==
    /\ FilledOrNull(head) /\ FilledOrNull(tail)
    /\ FilledOrNull(save_cursor) /\ FilledOrNull(save_prev)
    /\ FilledOrNull(rnext)
    /\ rpc # "idle" => Filled(rnode)
    /\ \A n \in Node : FilledOrNull(next[n])
    /\ \A s \in Sender : /\ FilledOrNull(sprev[s])
                         /\ spc[s] = "link" => Filled(snode[s])

\* The neighbours of a position in the list.
Pred(k) == IF k = 1 THEN Null ELSE order[k - 1]
Succ(k) == IF k = Len(order) THEN Null ELSE order[k + 1]

\* The linked nodes are distinct and in use.
OrderDistinct ==
    /\ \A i \in 1 .. Len(order) : order[i] \in allocated
    /\ \A i, j \in 1 .. Len(order) : order[i] = order[j] => i = j

\* A sender that owes a link owes the one before its node.
OwesItsLink ==
    \A s \in Sender : spc[s] = "link" =>
        \E i \in 1 .. Len(order) : snode[s] = order[i] /\ sprev[s] = Pred(i)

\* The receiver has not begun while senders run.
ReceiverWaited ==
    /\ rpc # "idle" \/ save_cursor # Null => SendersDone
    /\ discipline = "dequeue" => save_cursor = Null

\* The receiver is taking out the node at position k; up to its unlinking the
\* list is whole, after it the neighbours of k are linked to one another.
TakingOut(k) ==
    /\ rnode = order[k]
    /\ rpc # "load_next" => rnext = Succ(k)
    /\ rpc \in {"load_next", "store_head", "unlink"} =>
         /\ head = order[1] /\ tail = order[Len(order)]
         /\ \A i \in 1 .. Len(order) : next[order[i]] = Succ(i)
    /\ rpc \in {"test_head", "clear_tail", "check_tail", "store_tail", "count", "free"} =>
         /\ head = IF k = 1 THEN Succ(1) ELSE order[1]
         /\ \A i \in 1 .. Len(order) :
              next[order[i]] = IF i = k - 1 THEN Succ(k) ELSE Succ(i)
         /\ tail = IF rpc \in {"count", "free"} /\ k = Len(order)
                   THEN Pred(k) ELSE order[Len(order)]
    /\ rpc \in {"clear_tail", "store_tail"} => k = Len(order)
    /\ rpc \in {"load_next", "store_head", "test_head", "clear_tail"} => discipline = "dequeue"
    /\ rpc \in {"unlink", "check_tail", "store_tail"} => discipline = "selective"
    /\ discipline = "dequeue" => k = 1
    /\ discipline = "selective" =>
         /\ save_prev = Pred(k)
         /\ save_cursor = IF rpc \in {"count", "free"} THEN Succ(k) ELSE order[k]

ReceiverWorks == rpc # "idle" => \E k \in 1 .. Len(order) : TakingOut(k)

\* Each sender's messages lie in the list in the order it sent them, after
\* those already received.
NumbersGrow ==
    /\ \A i \in 1 .. Len(order) :
         Filled(order[i]) /\ body[order[i]][2] <= sent[body[order[i]][1]]
    /\ \A i, j \in 1 .. Len(order) :
         i < j /\ body[order[i]][1] = body[order[j]][1]
            => body[order[i]][2] < body[order[j]][2]
    /\ \A r \in 1 .. Len(received) : received[r][2] <= sent[received[r][1]]
    /\ discipline = "dequeue" =>
         \A r \in 1 .. Len(received), i \in 1 .. Len(order) :
            received[r][1] = body[order[i]][1] => received[r][2] < body[order[i]][2]

ListInv ==
    OrderDistinct /\ OwesItsLink /\ ReceiverWaited /\ ReceiverWorks
        /\ ListIsWhole /\ CursorIsInList

-----------------------------------------------------------------------------
(* Taking an element out of a sequence. *)

\* What is left is a sequence of the same kind, whatever is taken out.
LEMMA WithoutType ==
    ASSUME NEW S, NEW seq \in Seq(S), NEW n
    PROVE  Without(seq, n) \in Seq(S)
  <1>1. CASE \E i \in 1 .. Len(seq) : seq[i] = n
    <2> DEFINE k == CHOOSE i \in 1 .. Len(seq) : seq[i] = n
    <2>1. k \in 1 .. Len(seq)
      BY <1>1
    <2>2. Without(seq, n) = SubSeq(seq, 1, k - 1) \o SubSeq(seq, k + 1, Len(seq))
      BY <1>1 DEF Without
    <2> HIDE DEF k
    <2> QED BY <2>1, <2>2, DropElement
  <1>2. CASE ~ \E i \in 1 .. Len(seq) : seq[i] = n
    BY <1>2 DEF Without
  <1> QED BY <1>1, <1>2

\* Of distinct elements, the one at k is taken out and those after it move up.
LEMMA WithoutElements ==
    ASSUME NEW S, NEW seq \in Seq(S), NEW k \in 1 .. Len(seq),
           \A i, j \in 1 .. Len(seq) : seq[i] = seq[j] => i = j
    PROVE  LET rest == Without(seq, seq[k])
           IN  /\ Len(rest) = Len(seq) - 1
               /\ \A j \in 1 .. Len(seq) - 1 :
                     rest[j] = IF j < k THEN seq[j] ELSE seq[j + 1]
  <1>1. (CHOOSE i \in 1 .. Len(seq) : seq[i] = seq[k]) = k
    OBVIOUS
  <1>2. Without(seq, seq[k]) = SubSeq(seq, 1, k - 1) \o SubSeq(seq, k + 1, Len(seq))
    BY <1>1 DEF Without
  <1> DEFINE rest == SubSeq(seq, 1, k - 1) \o SubSeq(seq, k + 1, Len(seq))
  <1>3. /\ Len(rest) = Len(seq) - 1
        /\ \A j \in 1 .. Len(seq) - 1 :
              rest[j] = IF j < k THEN seq[j] ELSE seq[j + 1]
    BY DropElement
  <1> HIDE DEF rest
  <1> QED BY <1>2, <1>3 DEF rest

-----------------------------------------------------------------------------
(* The types, whatever the interleaving. *)

TypeInv == TypeOK /\ PointersFilled

\* The mailbox starts well-typed.
LEMMA TypeInit == Init => TypeInv
  BY MailboxAssumption DEF Init, TypeInv, TypeOK, PointersFilled, Filled,
     FilledOrNull, NodeOrNull, AllDisciplines

\* A step of a sender keeps the types: the node it fills is the one every
\* pointer it stores leads to.
LEMMA TypeSend ==
    ASSUME NEW s \in Sender, TypeInv, Send(s)
    PROVE  TypeInv'
  <1> USE DEF TypeInv
  <1>1. CASE EnqueueExchange(s)
    <2>1. PICK n \in Node \ allocated :
             /\ allocated' = allocated \cup {n}
             /\ body' = [body EXCEPT ![n] = <<s, sent[s] + 1>>]
             /\ next' = [next EXCEPT ![n] = Null]
             /\ snode' = [snode EXCEPT ![s] = n]
             /\ tail' = n
             /\ order' = Append(order, n)
      BY <1>1 DEF EnqueueExchange
    <2>2. sent[s] + 1 \in 0 .. MsgsPerSender /\ <<s, sent[s] + 1>> \in Message
      BY <1>1, MailboxAssumption DEF EnqueueExchange, TypeOK, Message
    <2>3. TypeOK'
      <3>1. body' \in [Node -> Message \cup {NoMessage}]
        BY <2>1, <2>2 DEF TypeOK
      <3>2. sent' \in [Sender -> 0 .. MsgsPerSender]
        BY <1>1, <2>2 DEF TypeOK, EnqueueExchange
      <3>3. order' \in Seq(Node)
        BY <2>1 DEF TypeOK
      <3>4. spc' \in [Sender -> {"idle", "link", "count", "store_count"}]
        BY <1>1 DEF TypeOK, EnqueueExchange
      <3> QED BY <1>1, <2>1, <3>1, <3>2, <3>3, <3>4
              DEF TypeOK, EnqueueExchange, NodeOrNull, recvVars
    <2>4. Filled(n)' /\ \A m \in Node : Filled(m) => Filled(m)'
      BY <2>1, <2>2 DEF Filled, TypeOK
    <2>5. \A m : FilledOrNull(m) => FilledOrNull(m)'
      BY <2>4 DEF FilledOrNull, Filled
    <2>6. \A m \in Node : FilledOrNull(next[m])'
      BY <2>1, <2>5 DEF PointersFilled, FilledOrNull, TypeOK
    <2>7. \A t \in Sender : /\ FilledOrNull(sprev[t])'
                            /\ (spc[t] = "link" => Filled(snode[t]))'
      <3> SUFFICES ASSUME NEW t \in Sender
                   PROVE  /\ FilledOrNull(sprev[t])'
                          /\ (spc[t] = "link" => Filled(snode[t]))'
        OBVIOUS
      <3>1. CASE t = s
        <4>1. sprev'[t] = tail /\ snode'[t] = n
          BY <1>1, <2>1, <3>1 DEF EnqueueExchange, TypeOK
        <4> QED BY <2>4, <2>5, <4>1 DEF PointersFilled, FilledOrNull, Filled
      <3>2. CASE t # s
        <4>1. sprev'[t] = sprev[t] /\ snode'[t] = snode[t] /\ spc'[t] = spc[t]
          BY <1>1, <2>1, <3>2 DEF EnqueueExchange, TypeOK
        <4> QED BY <2>4, <2>5, <4>1 DEF PointersFilled, FilledOrNull, Filled
      <3> QED BY <3>1, <3>2
    <2> QED BY <1>1, <2>1, <2>3, <2>4, <2>5, <2>6, <2>7
            DEF PointersFilled, FilledOrNull, Filled, EnqueueExchange, recvVars
  <1>2. CASE EnqueueNoMemory(s)
    <2>1. sent[s] + 1 \in 0 .. MsgsPerSender /\ <<s, sent[s] + 1>> \in Message
      BY <1>2, MailboxAssumption DEF EnqueueNoMemory, TypeOK, Message
    <2> QED BY <1>2, <2>1
       DEF EnqueueNoMemory, TypeOK, PointersFilled, Filled, FilledOrNull,
           NodeOrNull, boxVars, nodeVars, sendVars, recvVars
  <1>3. CASE EnqueueLink(s)
    <2>1. Filled(snode[s]) /\ snode[s] \in Node
      BY <1>3 DEF EnqueueLink, PointersFilled, Filled
    <2>2. /\ head' \in NodeOrNull /\ FilledOrNull(head)'
          /\ next' \in [Node -> NodeOrNull]
      BY <1>3, <2>1 DEF EnqueueLink, TypeOK, NodeOrNull, PointersFilled, Filled,
         FilledOrNull
    <2>3. \A n \in Node : next'[n] = next[n] \/ next'[n] = snode[s]
      BY <1>3 DEF EnqueueLink, TypeOK
    <2>4. spc' = [spc EXCEPT ![s] = "count"]
      BY <1>3 DEF EnqueueLink
    <2>5. UNCHANGED <<tail, save_cursor, save_prev, count, atomic_count, body, allocated,
                      snode, sprev, scount, sent, refused, recvVars, order>>
      BY <1>3 DEF EnqueueLink
    <2>6. TypeOK'
      BY <2>2, <2>4, <2>5 DEF TypeOK, recvVars
    <2>7. \A n \in Node : FilledOrNull(next[n])'
      BY <2>1, <2>3, <2>5 DEF PointersFilled, FilledOrNull, Filled
    <2> QED BY <2>2, <2>4, <2>5, <2>6, <2>7
            DEF PointersFilled, FilledOrNull, Filled, TypeOK, recvVars
  <1>4. CASE EnqueueLoadCount(s)
    BY <1>4
       DEF EnqueueLoadCount, TypeOK, PointersFilled, Filled, FilledOrNull,
           NodeOrNull, boxVars, nodeVars, sendVars, recvVars
  <1>5. CASE EnqueueStoreCount(s)
    BY <1>5
       DEF EnqueueStoreCount, TypeOK, PointersFilled, Filled, FilledOrNull,
           NodeOrNull, boxVars, nodeVars, sendVars, recvVars
  <1> QED BY <1>1, <1>2, <1>3, <1>4, <1>5 DEF Send

\* A step of the receiver keeps the types: it follows only filled nodes.
LEMMA TypeReceive ==
    ASSUME TypeInv, Dequeue \/ SelectiveReceive
    PROVE  TypeInv'
  <1> USE DEF TypeInv
  <1>1. CASE DequeueReadHead
    BY <1>1
       DEF DequeueReadHead, MayReceive, TypeOK, PointersFilled, Filled,
           FilledOrNull, NodeOrNull, boxVars, nodeVars, sendVars, recvVars
  <1>2. CASE DequeueLoadNext
    BY <1>2
       DEF DequeueLoadNext, TypeOK, PointersFilled, Filled, FilledOrNull,
           NodeOrNull, boxVars, nodeVars, sendVars, recvVars
  <1>3. CASE DequeueStoreHead
    BY <1>3
       DEF DequeueStoreHead, TypeOK, PointersFilled, Filled, FilledOrNull,
           NodeOrNull, boxVars, nodeVars, sendVars, recvVars
  <1>4a. CASE DequeueTestHead
    BY <1>4a
       DEF DequeueTestHead, TypeOK, PointersFilled, Filled, FilledOrNull,
           NodeOrNull, boxVars, nodeVars, sendVars, recvVars
  <1>4. CASE DequeueClearTail
    BY <1>4
       DEF DequeueClearTail, TypeOK, PointersFilled, Filled, FilledOrNull,
           NodeOrNull, boxVars, nodeVars, sendVars, recvVars
  <1>5. CASE ReceiveLoadCount
    BY <1>5
       DEF ReceiveLoadCount, TypeOK, PointersFilled, Filled, FilledOrNull,
           NodeOrNull, boxVars, nodeVars, sendVars, recvVars
  <1>6. CASE ReceiveFree
    <2>1. received' \in Seq(Message)
      BY <1>6 DEF ReceiveFree, PointersFilled, Filled, TypeOK
    <2>2. order' \in Seq(Node)
      BY <1>6, WithoutType DEF ReceiveFree, TypeOK
    <2> QED BY <1>6, <2>1, <2>2
       DEF ReceiveFree, TypeOK, PointersFilled, Filled, FilledOrNull,
           NodeOrNull, boxVars, nodeVars, sendVars, recvVars
  <1>7. CASE LoopRec
    BY <1>7
       DEF LoopRec, MayReceive, TypeOK, PointersFilled, Filled, FilledOrNull,
           NodeOrNull, boxVars, nodeVars, sendVars, recvVars
  <1>8. CASE ResetCursor
    BY <1>8
       DEF ResetCursor, MayReceive, TypeOK, PointersFilled, Filled,
           FilledOrNull, NodeOrNull, boxVars, nodeVars, sendVars, recvVars
  <1>9. CASE LoopRecEnd
    BY <1>9
       DEF LoopRecEnd, MayReceive, TypeOK, PointersFilled, Filled, FilledOrNull,
           NodeOrNull, boxVars, nodeVars, sendVars, recvVars
  <1>10. CASE RemoveLoadNext
    BY <1>10
       DEF RemoveLoadNext, MayReceive, TypeOK, PointersFilled, Filled,
           FilledOrNull, NodeOrNull, boxVars, nodeVars, sendVars, recvVars
  <1>11. CASE RemoveUnlink
    <2>1. /\ head' \in NodeOrNull /\ FilledOrNull(head)'
          /\ next' \in [Node -> NodeOrNull]
      BY <1>11 DEF RemoveUnlink, TypeOK, PointersFilled, Filled, FilledOrNull
    <2>2. \A n \in Node : next'[n] = next[n] \/ next'[n] = rnext
      BY <1>11 DEF RemoveUnlink, TypeOK
    <2>3. /\ rpc = "unlink" /\ rpc' = "check_tail"
          /\ UNCHANGED <<tail, save_cursor, save_prev, count, atomic_count, body,
                allocated, sendVars, discipline, rnode, rnext, rcount, received, order>>
      BY <1>11 DEF RemoveUnlink
    <2>4. TypeOK'
      BY <2>1, <2>3 DEF TypeOK, sendVars
    <2>5. \A n \in Node : FilledOrNull(next[n])'
      BY <2>2, <2>3 DEF PointersFilled, FilledOrNull, Filled
    <2> QED BY <2>1, <2>3, <2>4, <2>5
            DEF PointersFilled, FilledOrNull, Filled, sendVars
  <1>12. CASE RemoveInside
    BY <1>12
       DEF RemoveInside, TypeOK, PointersFilled, Filled, FilledOrNull,
           NodeOrNull, boxVars, nodeVars, sendVars, recvVars
  <1>13. CASE RemoveAtTail
    BY <1>13
       DEF RemoveAtTail, TypeOK, PointersFilled, Filled, FilledOrNull,
           NodeOrNull, boxVars, nodeVars, sendVars, recvVars
  <1>14. CASE RemoveStoreTail
    BY <1>14
       DEF RemoveStoreTail, TypeOK, PointersFilled, Filled, FilledOrNull,
           NodeOrNull, boxVars, nodeVars, sendVars, recvVars
  <1> QED BY <1>1, <1>2, <1>3, <1>4, <1>4a, <1>5, <1>6, <1>7, <1>8, <1>9, <1>10, <1>11,
     <1>12, <1>13, <1>14
     DEF Dequeue, SelectiveReceive

\* So does every step, and a stuttering one.
LEMMA TypeStep == TypeInv /\ [Next]_vars => TypeInv'
  <1> SUFFICES ASSUME TypeInv, [Next]_vars PROVE TypeInv'
    OBVIOUS
  <1>1. ASSUME NEW s \in Sender, Send(s) PROVE TypeInv'
    BY <1>1, TypeSend
  <1>2. CASE Dequeue \/ SelectiveReceive
    BY <1>2, TypeReceive
  <1>3. CASE UNCHANGED vars
    BY <1>3
       DEF vars, TypeInv, TypeOK, PointersFilled, Filled, FilledOrNull,
           NodeOrNull, boxVars, nodeVars, sendVars, recvVars
  <1> QED BY <1>1, <1>2, <1>3 DEF Next, Finished

\* Every pointer of the mailbox, of a node and of a thread is NULL or a node,
\* every message taken out is one that was sent and the counter of messages
\* never goes below zero (TypeOK), for any number of senders and whether or
\* not the receiver runs while they send: erl_message.c:30-109.
THEOREM TypeCorrect == Spec => []TypeOK
  <1>1. TypeInv => TypeOK
    BY DEF TypeInv
  <1> QED BY <1>1, TypeInit, TypeStep, PTL DEF Spec

-----------------------------------------------------------------------------
(* The list, with a receiver that waits for the senders: the senders' steps. *)

\* While a sender is in a call or has messages left, the receiver is idle and
\* has no cursor.
LEMMA ReceiverIdle ==
    ASSUME ListInv, NEW s \in Sender, spc[s] # "idle" \/ sent[s] # MsgsPerSender
    PROVE  rpc = "idle" /\ save_cursor = Null
  BY DEF ListInv, ReceiverWaited, SendersDone

\* No linked node is NULL.
LEMMA OrderIsNodes ==
    ASSUME TypeOK
    PROVE  /\ Len(order) \in Nat
           /\ \A i \in 1 .. Len(order) : order[i] \in Node /\ order[i] # Null
           /\ order = << >> <=> Len(order) = 0
  BY MailboxAssumption DEF TypeOK

\* A new node is linked behind the last one, or owed to it.
LEMMA ExchangeKeepsList ==
    ASSUME TypeInv, ListInv, NEW s \in Sender, EnqueueExchange(s)
    PROVE  ListInv'
  <1>1. PICK n \in Node \ allocated :
           /\ allocated' = allocated \cup {n}
           /\ body' = [body EXCEPT ![n] = <<s, sent[s] + 1>>]
           /\ next' = [next EXCEPT ![n] = Null]
           /\ snode' = [snode EXCEPT ![s] = n]
           /\ tail' = n
           /\ order' = Append(order, n)
    BY DEF EnqueueExchange
  <1>2. rpc = "idle" /\ save_cursor = Null /\ rpc' = "idle" /\ save_cursor' = Null
    BY ReceiverIdle, MailboxAssumption DEF EnqueueExchange, TypeInv, TypeOK, recvVars
  <1>3. /\ Len(order) \in Nat /\ Len(order') = Len(order) + 1
        /\ order'[Len(order')] = n
        /\ \A i \in 1 .. Len(order) : order'[i] = order[i]
    BY <1>1, OrderIsNodes DEF TypeInv, TypeOK
  <1>4. OrderDistinct'
    BY <1>1, <1>3 DEF ListInv, OrderDistinct
  <1>5. \A i \in 1 .. Len(order) : next'[order[i]] = next[order[i]]
    BY <1>1, OrderIsNodes DEF TypeInv, TypeOK, ListInv, OrderDistinct
  <1>6. \A t \in Sender \ {s} :
           spc'[t] = spc[t] /\ snode'[t] = snode[t] /\ sprev'[t] = sprev[t]
    BY <1>1 DEF EnqueueExchange, TypeInv, TypeOK
  <1>7. spc[s] = "idle" /\ spc'[s] = "link" /\ snode'[s] = n /\ sprev'[s] = tail
    BY <1>1 DEF EnqueueExchange, TypeInv, TypeOK
  <1>8. next'[n] = Null
    BY <1>1 DEF TypeInv, TypeOK
  <1>9. tail = IF Len(order) = 0 THEN Null ELSE order[Len(order)]
    BY <1>2, OrderIsNodes DEF TypeInv, ListInv, ListIsWhole
  <1>10. OwesItsLink'
    <2> SUFFICES ASSUME NEW t \in Sender, spc'[t] = "link"
                 PROVE  \E i \in 1 .. Len(order') :
                           snode'[t] = order'[i] /\ sprev'[t] = Pred(i)'
      BY DEF OwesItsLink
    <2>1. CASE t = s
      <3>1. PICK k \in 1 .. Len(order') : k = Len(order')
        BY <1>3
      <3>2. Pred(k)' = tail
        BY <1>3, <1>9, <3>1 DEF Pred
      <3> QED BY <1>3, <1>7, <2>1, <3>1, <3>2
    <2>2. CASE t # s
      <3>1. PICK i \in 1 .. Len(order) : snode[t] = order[i] /\ sprev[t] = Pred(i)
        BY <1>6, <2>2 DEF ListInv, OwesItsLink
      <3>2. Pred(i)' = Pred(i)
        BY <1>3 DEF Pred
      <3> QED BY <1>3, <1>6, <2>2, <3>1, <3>2
    <2> QED BY <2>1, <2>2
  <1>11. ListIsWhole'
    <2>1. head' = head
      BY DEF EnqueueExchange
    <2>2. (head = order[1] \/ (head = Null /\ Owes(order[1], Null)))'
      <3>1. CASE Len(order) = 0
        BY <1>2, <1>3, <1>7, <1>9, <2>1, <3>1, OrderIsNodes
           DEF TypeInv, ListInv, ListIsWhole, Owes
      <3>2. CASE Len(order) # 0
        <4>1. head = order[1] \/ (head = Null /\ Owes(order[1], Null))
          BY <1>2, <3>2, OrderIsNodes DEF TypeInv, ListInv, ListIsWhole
        <4> QED BY <1>3, <1>6, <1>7, <2>1, <3>2, <4>1 DEF Owes
      <3> QED BY <3>1, <3>2
    <2>3. ASSUME NEW i \in 1 .. Len(order') - 1
          PROVE  \/ (next[order[i]] = order[i + 1])'
                 \/ (next[order[i]] = Null /\ Owes(order[i + 1], order[i]))'
      <3>1. i \in 1 .. Len(order) /\ order # << >>
        BY <1>3, OrderIsNodes DEF TypeInv
      <3>2. CASE i = Len(order)
        <4>1. next[order[i]] = Null /\ tail = order[i]
          BY <1>2, <3>1, <3>2 DEF ListInv, ListIsWhole
        <4> QED BY <1>3, <1>5, <1>7, <3>1, <3>2, <4>1 DEF Owes
      <3>3. CASE i # Len(order)
        <4>1. \/ next[order[i]] = order[i + 1]
              \/ next[order[i]] = Null /\ Owes(order[i + 1], order[i])
          BY <1>2, <1>3, <3>1, <3>3 DEF ListInv, ListIsWhole
        <4>2. order'[i] = order[i] /\ order'[i + 1] = order[i + 1]
          BY <1>3, <3>1, <3>3
        <4> QED BY <1>5, <1>6, <1>7, <3>1, <4>1, <4>2 DEF Owes
      <3> QED BY <3>2, <3>3
    <2> QED BY <1>1, <1>2, <1>3, <1>8, <2>2, <2>3 DEF ListIsWhole
  <1> QED BY <1>2, <1>4, <1>10, <1>11
          DEF ListInv, ReceiverWaited, ReceiverWorks, CursorIsInList

\* The link that was owed is stored.
LEMMA LinkKeepsList ==
    ASSUME TypeInv, ListInv, NEW s \in Sender, EnqueueLink(s)
    PROVE  ListInv'
  <1>1. rpc = "idle" /\ save_cursor = Null /\ rpc' = "idle" /\ save_cursor' = Null
    BY ReceiverIdle DEF EnqueueLink, recvVars
  <1>2. UNCHANGED <<order, tail, allocated, snode, sprev, sent, discipline>>
    BY DEF EnqueueLink, recvVars
  <1>3. \A t \in Sender \ {s} : spc'[t] = spc[t]
    BY DEF EnqueueLink, TypeInv, TypeOK
  <1>4. spc[s] = "link" /\ spc'[s] = "count"
    BY DEF EnqueueLink, TypeInv, TypeOK
  <1>5. PICK k \in 1 .. Len(order) : snode[s] = order[k] /\ sprev[s] = Pred(k)
    BY <1>4 DEF ListInv, OwesItsLink
  <1>6. OwesItsLink'
    <2> SUFFICES ASSUME NEW t \in Sender, spc'[t] = "link"
                 PROVE  \E i \in 1 .. Len(order') :
                           snode'[t] = order'[i] /\ sprev'[t] = Pred(i)'
      BY DEF OwesItsLink
    <2>1. spc[t] = "link"
      BY <1>3, <1>4
    <2>2. PICK i \in 1 .. Len(order) : snode[t] = order[i] /\ sprev[t] = Pred(i)
      BY <2>1 DEF ListInv, OwesItsLink
    <2> QED BY <1>2, <2>2 DEF Pred
  <1>7. \A m, p : Owes(m, p) /\ p # sprev[s] =>
           \E t \in Sender : spc'[t] = "link" /\ snode'[t] = m /\ sprev'[t] = p
    BY <1>2, <1>3 DEF Owes
  <1>8. OrderDistinct'
    BY <1>2 DEF ListInv, OrderDistinct
  <1>9. order # << >> /\ Len(order) \in Nat
    BY <1>5, OrderIsNodes DEF TypeInv
  <1>10. /\ head = order[1] \/ (head = Null /\ Owes(order[1], Null))
         /\ \A i \in 1 .. Len(order) - 1 :
               \/ next[order[i]] = order[i + 1]
               \/ next[order[i]] = Null /\ Owes(order[i + 1], order[i])
         /\ tail = order[Len(order)] /\ next[tail] = Null
    BY <1>1, <1>9 DEF ListInv, ListIsWhole
  <1>11. ListIsWhole'
    <2>1. CASE sprev[s] = Null
      <3>1. k = 1
        BY <1>5, <1>9, <2>1, OrderIsNodes DEF Pred, TypeInv
      <3>2. head' = order[1] /\ next' = next
        BY <1>5, <2>1, <3>1 DEF EnqueueLink
      <3>3. ASSUME NEW i \in 1 .. Len(order) - 1
            PROVE  \/ next[order[i]] = order[i + 1]
                   \/ next[order[i]] = Null /\ Owes(order[i + 1], order[i])'
        <4>1. order[i] # Null
          BY <1>9, OrderIsNodes DEF TypeInv
        <4> QED BY <1>2, <1>7, <1>10, <2>1, <4>1 DEF Owes
      <3> QED BY <1>2, <1>9, <1>10, <3>2, <3>3 DEF ListIsWhole, Owes
    <2>2. CASE sprev[s] # Null
      <3>1. k # 1 /\ k - 1 \in 1 .. Len(order) - 1 /\ sprev[s] = order[k - 1]
        BY <1>5, <1>9, <2>2 DEF Pred
      <3>2. head' = head /\ next' = [next EXCEPT ![order[k - 1]] = order[k]]
        BY <1>5, <2>2, <3>1 DEF EnqueueLink
      <3>3. \A i \in 1 .. Len(order) :
               next'[order[i]] = IF i = k - 1 THEN order[k] ELSE next[order[i]]
        BY <1>9, <3>1, <3>2, OrderIsNodes DEF TypeInv, TypeOK, ListInv, OrderDistinct
      <3>4. head' = order[1] \/ (head' = Null /\ Owes(order[1], Null)')
        <4>1. CASE head = order[1]
          BY <3>2, <4>1
        <4>2. CASE head = Null /\ Owes(order[1], Null)
          <5>1. \E t \in Sender :
                   spc'[t] = "link" /\ snode'[t] = order[1] /\ sprev'[t] = Null
            BY <1>7, <2>2, <4>2
          <5> QED BY <1>2, <3>2, <4>2, <5>1 DEF Owes
        <4> QED BY <1>10, <4>1, <4>2
      <3>5. ASSUME NEW i \in 1 .. Len(order) - 1
            PROVE  \/ next'[order[i]] = order[i + 1]
                   \/ next'[order[i]] = Null /\ Owes(order[i + 1], order[i])'
        <4>1. CASE i = k - 1
          <5>1. i + 1 = k /\ i \in 1 .. Len(order)
            BY <1>9, <4>1
          <5> QED BY <3>3, <4>1, <5>1
        <4>2. CASE i # k - 1
          <5>1. order[i] # sprev[s] /\ i \in 1 .. Len(order)
            BY <1>9, <3>1, <4>2 DEF ListInv, OrderDistinct
          <5>2. next'[order[i]] = next[order[i]]
            BY <3>3, <4>2, <5>1
          <5>3. CASE Owes(order[i + 1], order[i])
            <6>1. \E t \in Sender : /\ spc'[t] = "link" /\ snode'[t] = order[i + 1]
                                    /\ sprev'[t] = order[i]
              BY <1>7, <5>1, <5>3
            <6>2. Owes(order[i + 1], order[i])'
              BY <1>2, <6>1 DEF Owes
            <6> QED BY <1>10, <5>2, <6>2
          <5> QED BY <1>10, <5>2, <5>3
        <4> QED BY <4>1, <4>2
      <3>6. next'[tail] = Null
        BY <1>9, <1>10, <3>1, <3>3
      <3> QED BY <1>2, <1>9, <1>10, <3>4, <3>5, <3>6 DEF ListIsWhole, Owes
    <2> QED BY <2>1, <2>2
  <1> QED BY <1>1, <1>6, <1>8, <1>11
          DEF ListInv, ReceiverWaited, ReceiverWorks, CursorIsInList

\* Counting and refused messages leave the list alone.
LEMMA CountKeepsList ==
    ASSUME TypeInv, ListInv, NEW s \in Sender,
           EnqueueNoMemory(s) \/ EnqueueLoadCount(s) \/ EnqueueStoreCount(s)
    PROVE  ListInv'
  <1>1. rpc = "idle" /\ save_cursor = Null /\ rpc' = "idle" /\ save_cursor' = Null
    BY ReceiverIdle, MailboxAssumption DEF EnqueueNoMemory, EnqueueLoadCount,
       EnqueueStoreCount, recvVars, boxVars, TypeInv, TypeOK
  <1>2. UNCHANGED <<order, head, tail, next, allocated, discipline>>
    BY DEF EnqueueNoMemory, EnqueueLoadCount, EnqueueStoreCount, recvVars, boxVars,
       nodeVars
  <1>3. \A t \in Sender :
           /\ spc'[t] = "link" <=> spc[t] = "link"
           /\ spc[t] = "link" => snode'[t] = snode[t] /\ sprev'[t] = sprev[t]
    BY DEF EnqueueNoMemory, EnqueueLoadCount, EnqueueStoreCount, TypeInv, TypeOK
  <1>4. \A m, p : Owes(m, p)' <=> Owes(m, p)
    BY <1>3 DEF Owes
  <1>5. OrderDistinct' /\ OwesItsLink'
    BY <1>2, <1>3 DEF ListInv, OrderDistinct, OwesItsLink, Pred
  <1>6. ListIsWhole'
    BY <1>1, <1>2, <1>4 DEF ListInv, ListIsWhole
  <1> QED BY <1>1, <1>5, <1>6
          DEF ListInv, ReceiverWaited, ReceiverWorks, CursorIsInList

\* A step of a sender keeps the list.
LEMMA SendKeepsList ==
    ASSUME TypeInv, ListInv, NEW s \in Sender, Send(s)
    PROVE  ListInv'
  BY ExchangeKeepsList, LinkKeepsList, CountKeepsList DEF Send

-----------------------------------------------------------------------------
(* The receiver's steps. *)

\* Once the senders are done no link is owed.
LEMMA WholeWhenDone ==
    ASSUME TypeInv, ListInv, SendersDone, rpc = "idle"
    PROVE  /\ order = << >> => head = Null /\ tail = Null
           /\ order # << >> =>
                /\ head = order[1] /\ tail = order[Len(order)]
                /\ \A i \in 1 .. Len(order) : next[order[i]] = Succ(i)
  <1>1. \A m, p : ~ Owes(m, p)
    BY DEF Owes, SendersDone
  <1>2. ASSUME order # << >>
        PROVE  /\ head = order[1] /\ tail = order[Len(order)] /\ next[tail] = Null
               /\ \A i \in 1 .. Len(order) - 1 : next[order[i]] = order[i + 1]
    BY <1>1, <1>2 DEF ListInv, ListIsWhole
  <1>3. ASSUME order # << >>, NEW i \in 1 .. Len(order)
        PROVE  next[order[i]] = Succ(i)
    <2>1. Len(order) \in Nat
      BY OrderIsNodes DEF TypeInv
    <2>2. CASE i = Len(order)
      BY <1>2, <1>3, <2>2 DEF Succ
    <2>3. CASE i # Len(order)
      <3>1. i \in 1 .. Len(order) - 1
        BY <2>1, <2>3
      <3> QED BY <1>2, <1>3, <2>3, <3>1 DEF Succ
    <2> QED BY <2>2, <2>3
  <1>4. order = << >> => head = Null /\ tail = Null
    BY DEF ListInv, ListIsWhole
  <1> QED BY <1>2, <1>3, <1>4

\* A receiver that waits runs when the senders are done, and they stay done.
LEMMA SendersStayDone ==
    ASSUME ReceiverWaits, TypeInv, ListInv, Dequeue \/ SelectiveReceive
    PROVE  /\ SendersDone /\ SendersDone' /\ OwesItsLink'
           /\ UNCHANGED discipline
           /\ rpc # "idle" => \E k \in 1 .. Len(order) : TakingOut(k)
  <1>1. SendersDone
    <2>1. CASE rpc = "idle"
      BY <2>1 DEF Dequeue, SelectiveReceive, DequeueReadHead, DequeueLoadNext,
         DequeueStoreHead, DequeueTestHead, DequeueClearTail, ReceiveLoadCount,
         ReceiveFree, LoopRec,
         ResetCursor, LoopRecEnd, RemoveLoadNext, RemoveUnlink, RemoveInside,
         RemoveAtTail, RemoveStoreTail, MayReceive
    <2>2. CASE rpc # "idle"
      BY <2>2 DEF ListInv, ReceiverWaited
    <2> QED BY <2>1, <2>2
  <1>2. UNCHANGED <<spc, sent, discipline>>
    BY DEF Dequeue, SelectiveReceive, DequeueReadHead, DequeueLoadNext,
       DequeueStoreHead, DequeueTestHead, DequeueClearTail, ReceiveLoadCount,
       ReceiveFree, LoopRec,
       ResetCursor, LoopRecEnd, RemoveLoadNext, RemoveUnlink, RemoveInside,
       RemoveAtTail, RemoveStoreTail, sendVars, recvVars
  <1>3. SendersDone'
    BY <1>1, <1>2 DEF SendersDone
  <1>4. OwesItsLink'
    BY <1>3 DEF OwesItsLink, SendersDone
  <1> QED BY <1>1, <1>2, <1>3, <1>4 DEF ListInv, ReceiverWorks

\* Taking the first node out, up to the count.
LEMMA DequeueKeepsList ==
    ASSUME ReceiverWaits, TypeInv, ListInv,
           \/ DequeueReadHead \/ DequeueLoadNext \/ DequeueStoreHead
           \/ DequeueTestHead \/ DequeueClearTail \/ ReceiveLoadCount
    PROVE  ListInv'
  <1>1. /\ SendersDone /\ SendersDone' /\ OwesItsLink' /\ UNCHANGED discipline
        /\ rpc # "idle" => \E k \in 1 .. Len(order) : TakingOut(k)
    BY SendersStayDone DEF Dequeue
  <1>2. UNCHANGED <<order, allocated, next, save_cursor, save_prev>> /\ rpc' # "idle"
    BY DEF DequeueReadHead, DequeueLoadNext, DequeueStoreHead, DequeueTestHead,
           DequeueClearTail,
       ReceiveLoadCount, boxVars, nodeVars
  <1>3. OrderDistinct'
    BY <1>2 DEF ListInv, OrderDistinct
  <1>4. Len(order) \in Nat
    BY OrderIsNodes DEF TypeInv
  <1>5. \A i : Succ(i)' = Succ(i) /\ Pred(i)' = Pred(i)
    BY <1>2 DEF Succ, Pred
  <1>6. \E k \in 1 .. Len(order) : TakingOut(k)'
    <2>1. CASE DequeueReadHead
      <3>1. order # << >> /\ 1 \in 1 .. Len(order)
        BY <1>1, <1>4, <2>1, WholeWhenDone, OrderIsNodes
           DEF DequeueReadHead, MayReceive, TypeInv
      <3>2. /\ head = order[1] /\ tail = order[Len(order)]
            /\ \A i \in 1 .. Len(order) : next[order[i]] = Succ(i)
        BY <1>1, <2>1, <3>1, WholeWhenDone DEF DequeueReadHead, MayReceive
      <3>3. TakingOut(1)'
        BY <1>2, <1>5, <2>1, <3>2 DEF DequeueReadHead, MayReceive, TakingOut, boxVars
      <3> QED BY <3>1, <3>3
    <2>2. CASE DequeueLoadNext
      <3>1. PICK k \in 1 .. Len(order) : TakingOut(k)
        BY <1>1, <2>2 DEF DequeueLoadNext
      <3> QED BY <1>2, <1>5, <2>2, <3>1 DEF DequeueLoadNext, TakingOut, boxVars
    <2>3. CASE DequeueStoreHead
      <3>1. PICK k \in 1 .. Len(order) : TakingOut(k)
        BY <1>1, <2>3 DEF DequeueStoreHead
      <3> QED BY <1>2, <1>4, <1>5, <2>3, <3>1 DEF DequeueStoreHead, TakingOut
    <2>4. CASE DequeueTestHead
      <3>1. PICK k \in 1 .. Len(order) : TakingOut(k)
        BY <1>1, <2>4 DEF DequeueTestHead
      <3>2. k = 1 /\ head = Succ(1) /\ discipline = "dequeue"
        BY <2>4, <3>1 DEF DequeueTestHead, TakingOut
      <3>3. head = Null <=> k = Len(order)
        <4>1. CASE Len(order) = 1
          BY <3>2, <4>1 DEF Succ
        <4>2. CASE Len(order) # 1
          <5>1. 2 \in 1 .. Len(order) /\ head = order[2]
            BY <1>4, <3>2, <4>2 DEF Succ
          <5> QED BY <3>2, <4>2, <5>1, OrderIsNodes DEF TypeInv
        <4> QED BY <4>1, <4>2
      <3> QED BY <1>2, <1>5, <2>4, <3>1, <3>2, <3>3 DEF DequeueTestHead, TakingOut, boxVars
    <2>5. CASE DequeueClearTail
      <3>1. PICK k \in 1 .. Len(order) : TakingOut(k)
        BY <1>1, <2>5 DEF DequeueClearTail
      <3>2. k = 1 /\ k = Len(order) /\ discipline = "dequeue"
        BY <2>5, <3>1 DEF DequeueClearTail, TakingOut
      <3>3. tail' = Pred(k)
        BY <2>5, <3>2 DEF DequeueClearTail, Pred
      <3> QED BY <1>2, <1>5, <2>5, <3>1, <3>2, <3>3 DEF DequeueClearTail, TakingOut
    <2>6. CASE ReceiveLoadCount
      <3>1. PICK k \in 1 .. Len(order) : TakingOut(k)
        BY <1>1, <2>6 DEF ReceiveLoadCount
      <3> QED BY <1>2, <1>5, <2>6, <3>1 DEF ReceiveLoadCount, TakingOut, boxVars
    <2> QED BY <2>1, <2>2, <2>3, <2>4, <2>5, <2>6
  <1>7. ReceiverWorks'
    BY <1>2, <1>6 DEF ReceiverWorks
  <1>8. ReceiverWaited'
    BY <1>1, <1>2 DEF ListInv, ReceiverWaited
  <1> QED BY <1>1, <1>2, <1>3, <1>7, <1>8 DEF ListInv, ListIsWhole, CursorIsInList

\* Moving the cursor over a list that is whole.
LEMMA CursorKeepsList ==
    ASSUME ReceiverWaits, TypeInv, ListInv, LoopRec \/ ResetCursor \/ LoopRecEnd
    PROVE  ListInv'
  <1>1. SendersDone /\ SendersDone' /\ OwesItsLink' /\ UNCHANGED discipline
    BY SendersStayDone DEF SelectiveReceive
  <1>2. /\ UNCHANGED <<order, allocated, next, head, tail, spc, snode, sprev>>
        /\ rpc = "idle" /\ rpc' = "idle" /\ discipline = "selective"
    BY DEF LoopRec, ResetCursor, LoopRecEnd, MayReceive, nodeVars, sendVars, recvVars
  <1>3. OrderDistinct' /\ ReceiverWorks' /\ ListIsWhole'
    BY <1>2 DEF ListInv, OrderDistinct, ReceiverWorks, ListIsWhole, Owes
  <1>4. ReceiverWaited'
    BY <1>1, <1>2 DEF ReceiverWaited
  <1>5. Len(order) \in Nat
    BY OrderIsNodes DEF TypeInv
  <1>6. CursorIsInList'
    <2>1. CASE LoopRec \/ ResetCursor
      <3>1. save_cursor' = head /\ save_prev' = Null
        BY <2>1 DEF LoopRec, ResetCursor
      <3>2. CASE order = << >>
        BY <1>1, <1>2, <3>1, <3>2, WholeWhenDone DEF CursorIsInList
      <3>3. CASE order # << >>
        <4>1. head = order[1] /\ 1 \in 1 .. Len(order)
          BY <1>1, <1>2, <1>5, <3>3, WholeWhenDone, OrderIsNodes DEF TypeInv
        <4> QED BY <1>2, <3>1, <4>1 DEF CursorIsInList
      <3> QED BY <3>2, <3>3
    <2>2. CASE LoopRecEnd
      <3>1. save_prev' = save_cursor /\ save_cursor' = next[save_cursor]
        BY <2>2 DEF LoopRecEnd
      <3>2. PICK i \in 1 .. Len(order) : save_cursor = order[i]
        BY <1>2, <2>2 DEF LoopRecEnd, ListInv, CursorIsInList
      <3>3. next[order[i]] = Succ(i)
        BY <1>1, <1>2, <1>5, <3>2, WholeWhenDone, OrderIsNodes DEF TypeInv
      <3>4. CASE i = Len(order)
        BY <1>2, <3>1, <3>2, <3>3, <3>4 DEF CursorIsInList, Succ
      <3>5. CASE i # Len(order)
        <4>1. /\ i + 1 \in 1 .. Len(order) /\ i + 1 # 1 /\ (i + 1) - 1 = i
              /\ save_cursor' = order[i + 1] /\ save_prev' = order[i]
          BY <1>5, <3>1, <3>2, <3>3, <3>5 DEF Succ
        <4> QED BY <1>2, <4>1 DEF CursorIsInList
      <3> QED BY <3>4, <3>5
    <2> QED BY <2>1, <2>2
  <1> QED BY <1>1, <1>3, <1>4, <1>6 DEF ListInv

\* Taking the node at the cursor out, up to the count.
LEMMA RemoveKeepsList ==
    ASSUME ReceiverWaits, TypeInv, ListInv,
           \/ RemoveLoadNext \/ RemoveUnlink \/ RemoveInside
           \/ RemoveAtTail \/ RemoveStoreTail
    PROVE  ListInv'
  <1>1. /\ SendersDone /\ SendersDone' /\ OwesItsLink' /\ UNCHANGED discipline
        /\ rpc # "idle" => \E k \in 1 .. Len(order) : TakingOut(k)
    BY SendersStayDone DEF SelectiveReceive
  <1>2. UNCHANGED <<order, allocated, save_prev>> /\ rpc' # "idle"
    BY DEF RemoveLoadNext, RemoveUnlink, RemoveInside, RemoveAtTail,
       RemoveStoreTail, boxVars, nodeVars
  <1>3. OrderDistinct'
    BY <1>2 DEF ListInv, OrderDistinct
  <1>4. Len(order) \in Nat
    BY OrderIsNodes DEF TypeInv
  <1>5. \A i : Succ(i)' = Succ(i) /\ Pred(i)' = Pred(i)
    BY <1>2 DEF Succ, Pred
  <1>6. discipline = "selective" /\ \E k \in 1 .. Len(order) : TakingOut(k)'
    <2>1. CASE RemoveLoadNext
      <3>1. PICK k \in 1 .. Len(order) :
               save_cursor = order[k] /\ save_prev = Pred(k)
        BY <2>1 DEF RemoveLoadNext, MayReceive, ListInv, CursorIsInList, Pred
      <3>2. /\ head = order[1] /\ tail = order[Len(order)]
            /\ \A i \in 1 .. Len(order) : next[order[i]] = Succ(i)
        BY <1>1, <1>4, <2>1, <3>1, WholeWhenDone, OrderIsNodes
           DEF RemoveLoadNext, MayReceive, TypeInv
      <3>3. TakingOut(k)'
        BY <1>2, <1>5, <2>1, <3>1, <3>2
           DEF RemoveLoadNext, MayReceive, TakingOut, boxVars, nodeVars
      <3> QED BY <2>1, <3>3 DEF RemoveLoadNext, MayReceive
    <2>2. CASE RemoveUnlink
      <3>1. PICK k \in 1 .. Len(order) : TakingOut(k)
        BY <1>1, <2>2 DEF RemoveUnlink
      <3>2. /\ rnode = order[k] /\ rnext = Succ(k) /\ discipline = "selective"
            /\ head = order[1] /\ tail = order[Len(order)]
            /\ \A i \in 1 .. Len(order) : next[order[i]] = Succ(i)
            /\ save_prev = Pred(k) /\ save_cursor = order[k]
        BY <2>2, <3>1 DEF RemoveUnlink, TakingOut
      <3>3. /\ head' = IF k = 1 THEN Succ(1) ELSE order[1]
            /\ \A i \in 1 .. Len(order) :
                  next'[order[i]] = IF i = k - 1 THEN Succ(k) ELSE Succ(i)
        <4>1. CASE k = 1
          BY <1>4, <2>2, <3>2, <4>1 DEF RemoveUnlink, Pred
        <4>2. CASE k # 1
          <5>1. k - 1 \in 1 .. Len(order) /\ save_prev = order[k - 1]
            BY <1>4, <3>2, <4>2 DEF Pred
          <5>2. head' = head /\ next' = [next EXCEPT ![order[k - 1]] = Succ(k)]
            BY <2>2, <3>2, <5>1, OrderIsNodes DEF RemoveUnlink, TypeInv
          <5>3. \A i \in 1 .. Len(order) :
                   next'[order[i]] = IF i = k - 1 THEN Succ(k) ELSE next[order[i]]
            BY <5>1, <5>2, OrderIsNodes DEF TypeInv, TypeOK, ListInv, OrderDistinct
          <5> QED BY <3>2, <4>2, <5>2, <5>3
        <4> QED BY <4>1, <4>2
      <3>4. TakingOut(k)'
        BY <1>1, <1>2, <1>5, <2>2, <3>2, <3>3 DEF RemoveUnlink, TakingOut
      <3> QED BY <3>2, <3>4
    <2>3. CASE RemoveInside
      <3>1. PICK k \in 1 .. Len(order) : TakingOut(k)
        BY <1>1, <2>3 DEF RemoveInside
      <3>2. k # Len(order) /\ discipline = "selective"
        BY <2>3, <3>1 DEF RemoveInside, TakingOut
      <3> QED BY <1>1, <1>2, <1>5, <2>3, <3>1, <3>2
              DEF RemoveInside, TakingOut, nodeVars
    <2>4. CASE RemoveAtTail
      <3>1. PICK k \in 1 .. Len(order) : TakingOut(k)
        BY <1>1, <2>4 DEF RemoveAtTail
      <3>2. k = Len(order) /\ discipline = "selective"
        BY <1>4, <2>4, <3>1 DEF RemoveAtTail, TakingOut, ListInv, OrderDistinct
      <3> QED BY <1>1, <1>2, <1>5, <2>4, <3>1, <3>2
              DEF RemoveAtTail, TakingOut, nodeVars, boxVars
    <2>5. CASE RemoveStoreTail
      <3>1. PICK k \in 1 .. Len(order) : TakingOut(k)
        BY <1>1, <2>5 DEF RemoveStoreTail
      <3>2. k = Len(order) /\ discipline = "selective"
        BY <2>5, <3>1 DEF RemoveStoreTail, TakingOut
      <3> QED BY <1>1, <1>2, <1>5, <2>5, <3>1, <3>2
              DEF RemoveStoreTail, TakingOut, nodeVars
    <2> QED BY <2>1, <2>2, <2>3, <2>4, <2>5
  <1>7. ReceiverWorks'
    BY <1>2, <1>6 DEF ReceiverWorks
  <1>8. ReceiverWaited'
    BY <1>1, <1>6 DEF ReceiverWaited
  <1> QED BY <1>1, <1>2, <1>3, <1>7, <1>8 DEF ListInv, ListIsWhole, CursorIsInList

\* The node is freed: what is left of the list is whole and the cursor is on the
\* node that followed.
LEMMA FreeKeepsList ==
    ASSUME ReceiverWaits, TypeInv, ListInv, ReceiveFree
    PROVE  ListInv'
  <1>1. /\ SendersDone /\ SendersDone' /\ OwesItsLink' /\ UNCHANGED discipline
        /\ rpc # "idle" => \E k \in 1 .. Len(order) : TakingOut(k)
    BY SendersStayDone DEF Dequeue
  <1>2. PICK k \in 1 .. Len(order) : TakingOut(k)
    BY <1>1 DEF ReceiveFree
  <1>3. /\ rpc' = "idle" /\ UNCHANGED <<head, tail, next, save_cursor, save_prev>>
        /\ allocated' = allocated \ {order[k]} /\ order' = Without(order, order[k])
    BY <1>2 DEF ReceiveFree, TakingOut
  <1>4. Len(order) \in Nat /\ order \in Seq(Node) /\ order' \in Seq(Node)
    BY <1>3, OrderIsNodes, WithoutType DEF TypeInv, TypeOK
  <1>5. /\ Len(order') = Len(order) - 1
        /\ \A j \in 1 .. Len(order) - 1 :
              order'[j] = IF j < k THEN order[j] ELSE order[j + 1]
    BY <1>3, <1>4, WithoutElements DEF ListInv, OrderDistinct
  <1>6. /\ head = IF k = 1 THEN Succ(1) ELSE order[1]
        /\ \A i \in 1 .. Len(order) :
              next[order[i]] = IF i = k - 1 THEN Succ(k) ELSE Succ(i)
        /\ tail = IF k = Len(order) THEN Pred(k) ELSE order[Len(order)]
    BY <1>2 DEF ReceiveFree, TakingOut
  <1>7. OrderDistinct'
    <2> DEFINE old(j) == IF j < k THEN j ELSE j + 1
    <2>1. ASSUME NEW j \in 1 .. Len(order')
          PROVE  old(j) \in 1 .. Len(order) /\ old(j) # k /\ order'[j] = order[old(j)]
      BY <1>4, <1>5
    <2>2. \A i, j \in 1 .. Len(order') : old(i) = old(j) => i = j
      BY <1>4, <1>5
    <2> HIDE DEF old
    <2>3. ASSUME NEW j \in 1 .. Len(order') PROVE order'[j] \in allocated'
      <3>1. order[old(j)] \in allocated /\ order[old(j)] # order[k]
        BY <2>1 DEF ListInv, OrderDistinct
      <3> QED BY <1>3, <2>1, <3>1
    <2>4. ASSUME NEW i \in 1 .. Len(order'), NEW j \in 1 .. Len(order'),
                 order'[i] = order'[j]
          PROVE  i = j
      <3>1. old(i) = old(j)
        BY <2>1, <2>4 DEF ListInv, OrderDistinct
      <3> QED BY <2>2, <3>1
    <2> QED BY <2>3, <2>4 DEF OrderDistinct
  <1>8. ListIsWhole'
    <2>1. CASE Len(order) = 1
      <3>1. order' = << >> /\ k = 1
        BY <1>4, <1>5, <2>1
      <3> QED BY <1>3, <1>6, <2>1, <3>1 DEF ListIsWhole, Succ, Pred
    <2>2. CASE Len(order) # 1
      <3>1. Len(order) > 1 /\ order' # << >>
        BY <1>4, <1>5, <2>2
      <3>2. head = order'[1]
        BY <1>4, <1>5, <1>6, <3>1 DEF Succ
      <3>3. ASSUME NEW i \in 1 .. Len(order') - 1
            PROVE  next[order'[i]] = order'[i + 1]
        <4>1. i \in 1 .. Len(order) - 1 /\ i + 1 \in 1 .. Len(order) - 1
          BY <1>4, <1>5
        <4>2. CASE i < k - 1
          <5>1. order'[i] = order[i] /\ order'[i + 1] = order[i + 1]
            BY <1>5, <4>1, <4>2
          <5>2. next[order[i]] = order[i + 1]
            BY <1>4, <1>6, <4>1, <4>2 DEF Succ
          <5> QED BY <5>1, <5>2
        <4>3. CASE i = k - 1
          <5>1. order'[i] = order[i] /\ order'[i + 1] = order[k + 1]
            BY <1>5, <4>1, <4>3
          <5>2. next[order[i]] = order[k + 1]
            BY <1>4, <1>6, <4>1, <4>3 DEF Succ
          <5> QED BY <5>1, <5>2
        <4>4. CASE i > k - 1
          <5>1. order'[i] = order[i + 1] /\ order'[i + 1] = order[(i + 1) + 1]
            BY <1>5, <4>1, <4>4
          <5>2. i + 1 \in 1 .. Len(order) /\ i + 1 # k - 1 /\ i + 1 # Len(order)
            BY <1>4, <4>1, <4>4
          <5>3. next[order[i + 1]] = order[(i + 1) + 1]
            BY <1>6, <5>2 DEF Succ
          <5> QED BY <5>1, <5>3
        <4> QED BY <4>1, <4>2, <4>3, <4>4
      <3>4. tail = order'[Len(order')] /\ next[tail] = Null
        <4>1. CASE k = Len(order)
          <5>1. tail = order[k - 1] /\ k - 1 \in 1 .. Len(order)
            BY <1>4, <1>6, <3>1, <4>1 DEF Pred
          <5>2. next[order[k - 1]] = Null
            BY <1>6, <4>1, <5>1 DEF Succ
          <5> QED BY <1>4, <1>5, <4>1, <5>1, <5>2
        <4>2. CASE k # Len(order)
          <5>1. tail = order[Len(order)] /\ Len(order) # k - 1
            BY <1>4, <1>6, <4>2
          <5>2. next[order[Len(order)]] = Null
            BY <1>4, <1>6, <3>1, <5>1 DEF Succ
          <5>3. /\ Len(order) - 1 \in 1 .. Len(order) - 1 /\ ~ (Len(order) - 1 < k)
                /\ (Len(order) - 1) + 1 = Len(order)
            BY <1>4, <3>1, <4>2
          <5> QED BY <1>5, <5>1, <5>2, <5>3
        <4> QED BY <4>1, <4>2
      <3> QED BY <1>3, <3>1, <3>2, <3>3, <3>4 DEF ListIsWhole
    <2> QED BY <2>1, <2>2
  <1>9. discipline = "dequeue" => save_cursor = Null
    BY DEF ListInv, ReceiverWaited
  <1>10. CursorIsInList'
    <2> SUFFICES ASSUME save_cursor # Null
                 PROVE  \E i \in 1 .. Len(order') :
                           /\ save_cursor = order'[i]
                           /\ save_prev = IF i = 1 THEN Null ELSE order'[i - 1]
      BY <1>3 DEF CursorIsInList
    <2>1. discipline = "selective"
      BY <1>9, MailboxAssumption DEF TypeInv, TypeOK, AllDisciplines
    <2>2. save_prev = Pred(k) /\ save_cursor = Succ(k)
      BY <1>2, <2>1 DEF TakingOut, ReceiveFree
    <2>3. k # Len(order) /\ save_cursor = order[k + 1]
      BY <2>2 DEF Succ
    <2>4. k \in 1 .. Len(order') /\ save_cursor = order'[k]
      BY <1>4, <1>5, <2>3
    <2>5. save_prev = IF k = 1 THEN Null ELSE order'[k - 1]
      BY <1>4, <1>5, <2>2, <2>3 DEF Pred
    <2> QED BY <2>4, <2>5
  <1>11. ReceiverWaited' /\ ReceiverWorks'
    BY <1>1, <1>3, <1>9 DEF ReceiverWaited, ReceiverWorks
  <1> QED BY <1>1, <1>7, <1>8, <1>10, <1>11 DEF ListInv

-----------------------------------------------------------------------------
(* The theorems about the list. *)

\* An empty mailbox is a whole list.
LEMMA ListInit == Init => ListInv
  BY DEF Init, ListInv, OrderDistinct, OwesItsLink, ReceiverWaited, ReceiverWorks,
     ListIsWhole, CursorIsInList, SendersDone

\* Every step keeps it one when the receiver waits for the senders.
LEMMA ListStep ==
    ASSUME ReceiverWaits
    PROVE  TypeInv /\ ListInv /\ [Next]_vars => ListInv'
  <1> SUFFICES ASSUME TypeInv, ListInv, [Next]_vars PROVE ListInv'
    OBVIOUS
  <1>1. ASSUME NEW s \in Sender, Send(s) PROVE ListInv'
    BY <1>1, SendKeepsList
  <1>2. CASE Dequeue
    BY <1>2, DequeueKeepsList, FreeKeepsList DEF Dequeue
  <1>3. CASE SelectiveReceive
    BY <1>3, CursorKeepsList, RemoveKeepsList DEF SelectiveReceive
  <1>4. CASE UNCHANGED vars
    BY <1>4 DEF vars, boxVars, nodeVars, sendVars, recvVars, ListInv, OrderDistinct,
       OwesItsLink, ReceiverWaited, ReceiverWorks, TakingOut, Pred, Succ,
       ListIsWhole, CursorIsInList, Owes, SendersDone
  <1> QED BY <1>1, <1>2, <1>3, <1>4 DEF Next, Finished

\* The two together hold from the start on.
LEMMA ListAlways ==
    ASSUME ReceiverWaits
    PROVE  Spec => [](TypeInv /\ ListInv)
  BY TypeInit, TypeStep, ListInit, ListStep, PTL DEF Spec

\* Whatever the senders' interleaving was, the list a receiver finds that waits
\* for them is whole, and stays whole as it takes nodes out: no message is lost
\* or found twice (ListIsWhole; erl_message.c:30-109).
THEOREM WholeList ==
    ASSUME ReceiverWaits
    PROVE  Spec => []ListIsWhole
  <1>1. ListInv => ListIsWhole
    BY DEF ListInv
  <1> QED BY <1>1, ListAlways, PTL

\* The save cursor of selective receive never dangles, and save_prev is the
\* node before it (CursorIsInList; erl_message.c:70-109).
THEOREM CursorCorrect ==
    ASSUME ReceiverWaits
    PROVE  Spec => []CursorIsInList
  <1>1. ListInv => CursorIsInList
    BY DEF ListInv
  <1> QED BY <1>1, ListAlways, PTL

-----------------------------------------------------------------------------
(* The order of messages. *)

OrderInv == TypeInv /\ ListInv /\ NumbersGrow /\ SenderOrder

\* A message has a sender and a number.
LEMMA MessageFacts == \A m \in Message : m[1] \in Sender /\ m[2] \in Nat
  BY MailboxAssumption DEF Message

\* A message that is sent has a greater number than its sender's earlier ones.
LEMMA ExchangeNumbers ==
    ASSUME OrderInv, NEW s \in Sender, EnqueueExchange(s)
    PROVE  NumbersGrow' /\ SenderOrder'
  <1> USE DEF OrderInv
  <1>1. PICK n \in Node \ allocated :
           /\ body' = [body EXCEPT ![n] = <<s, sent[s] + 1>>]
           /\ order' = Append(order, n)
    BY DEF EnqueueExchange
  <1>2. /\ Len(order) \in Nat /\ Len(order') = Len(order) + 1
        /\ order'[Len(order')] = n
        /\ \A i \in 1 .. Len(order) : order'[i] = order[i]
    BY <1>1, OrderIsNodes DEF TypeInv, TypeOK
  <1>3. UNCHANGED <<received, discipline>>
    BY DEF EnqueueExchange, recvVars
  <1>4. \A t \in Sender : /\ sent[t] \in Nat
                          /\ sent'[t] = IF t = s THEN sent[s] + 1 ELSE sent[t]
    BY MailboxAssumption DEF EnqueueExchange, TypeInv, TypeOK
  <1>5. \A i \in 1 .. Len(order) : body'[order[i]] = body[order[i]]
    BY <1>1, OrderIsNodes DEF ListInv, OrderDistinct, TypeInv, TypeOK
  <1>6. body'[n] = <<s, sent[s] + 1>> /\ <<s, sent[s] + 1>> \in Message
    BY <1>1, MailboxAssumption DEF TypeInv, TypeOK, EnqueueExchange, Message
  <1>7. \A i \in 1 .. Len(order) :
           /\ order[i] \in Node /\ body[order[i]] \in Message
           /\ body[order[i]][1] \in Sender /\ body[order[i]][2] \in Nat
           /\ body[order[i]][2] <= sent[body[order[i]][1]]
    BY MessageFacts DEF NumbersGrow, Filled
  <1>8. \A r \in 1 .. Len(received) :
           /\ received[r][1] \in Sender /\ received[r][2] \in Nat
           /\ received[r][2] <= sent[received[r][1]]
    BY MessageFacts DEF NumbersGrow, TypeInv, TypeOK
  <1>9. ASSUME NEW i \in 1 .. Len(order')
        PROVE  (Filled(order[i]) /\ body[order[i]][2] <= sent[body[order[i]][1]])'
    <2>1. CASE i = Len(order')
      BY <1>1, <1>2, <1>4, <1>6, <2>1 DEF Filled
    <2>2. CASE i # Len(order')
      <3>1. i \in 1 .. Len(order)
        BY <1>2, <2>2
      <3>2. /\ order'[i] = order[i] /\ body'[order[i]] = body[order[i]]
            /\ sent'[body[order[i]][1]] >= sent[body[order[i]][1]]
            /\ sent'[body[order[i]][1]] \in Nat /\ sent[body[order[i]][1]] \in Nat
        BY <1>2, <1>4, <1>5, <1>7, <3>1
      <3>3. body[order[i]][2] <= sent'[body[order[i]][1]]
        BY <1>7, <3>1, <3>2
      <3> QED BY <1>7, <3>1, <3>2, <3>3 DEF Filled
    <2> QED BY <2>1, <2>2
  <1>10. ASSUME NEW i \in 1 .. Len(order'), NEW j \in 1 .. Len(order'), i < j,
                body'[order'[i]][1] = body'[order'[j]][1]
         PROVE  body'[order'[i]][2] < body'[order'[j]][2]
    <2>1. i \in 1 .. Len(order) /\ body'[order'[i]] = body[order[i]]
      BY <1>2, <1>5, <1>10
    <2>2. CASE j = Len(order')
      BY <1>2, <1>4, <1>6, <1>7, <1>10, <2>1, <2>2
    <2>3. CASE j # Len(order')
      <3>1. j \in 1 .. Len(order) /\ body'[order'[j]] = body[order[j]]
        BY <1>2, <1>5, <2>3
      <3> QED BY <1>10, <2>1, <3>1 DEF NumbersGrow
    <2> QED BY <2>2, <2>3
  <1>11. ASSUME NEW r \in 1 .. Len(received)
         PROVE  received[r][2] <= sent'[received[r][1]]
    BY <1>4, <1>8
  <1>12. ASSUME discipline = "dequeue", NEW r \in 1 .. Len(received),
                NEW i \in 1 .. Len(order'), received[r][1] = body'[order'[i]][1]
         PROVE  received[r][2] < body'[order'[i]][2]
    <2>1. CASE i = Len(order')
      BY <1>2, <1>4, <1>6, <1>8, <1>12, <2>1
    <2>2. CASE i # Len(order')
      <3>1. i \in 1 .. Len(order) /\ body'[order'[i]] = body[order[i]]
        BY <1>2, <1>5, <2>2
      <3> QED BY <1>12, <3>1 DEF NumbersGrow
    <2> QED BY <2>1, <2>2
  <1>13. NumbersGrow'
    BY <1>3, <1>9, <1>10, <1>11, <1>12 DEF NumbersGrow
  <1> QED BY <1>3, <1>13 DEF SenderOrder

\* The head is the oldest message left of its sender.
LEMMA FreeNumbers ==
    ASSUME ReceiverWaits, OrderInv, ReceiveFree
    PROVE  NumbersGrow' /\ SenderOrder'
  <1> USE DEF OrderInv
  <1>1. PICK k \in 1 .. Len(order) : TakingOut(k)
    BY DEF ReceiveFree, ListInv, ReceiverWorks
  <1>2. /\ order' = Without(order, order[k])
        /\ received' = Append(received, body[order[k]])
        /\ UNCHANGED <<body, sent, discipline>>
        /\ discipline = "dequeue" => k = 1
    BY <1>1 DEF ReceiveFree, TakingOut, sendVars
  <1>3. Len(order) \in Nat /\ order \in Seq(Node)
    BY OrderIsNodes DEF TypeInv, TypeOK
  <1>4. /\ Len(order') = Len(order) - 1
        /\ \A j \in 1 .. Len(order) - 1 :
              order'[j] = IF j < k THEN order[j] ELSE order[j + 1]
    BY <1>2, <1>3, WithoutElements DEF ListInv, OrderDistinct
  <1> DEFINE old(j) == IF j < k THEN j ELSE j + 1
  <1>5. \A j \in 1 .. Len(order') :
           /\ old(j) \in 1 .. Len(order) /\ order'[j] = order[old(j)]
           /\ k = 1 => k < old(j)
    BY <1>3, <1>4
  <1>6. \A i, j \in 1 .. Len(order') : i < j => old(i) < old(j)
    BY <1>3, <1>4
  <1> HIDE DEF old
  <1>7. body[order[k]] \in Message /\ body[order[k]][2] <= sent[body[order[k]][1]]
    BY DEF NumbersGrow, Filled
  <1>8. /\ Len(received) \in Nat /\ Len(received') = Len(received) + 1
        /\ received'[Len(received')] = body[order[k]]
        /\ \A r \in 1 .. Len(received) : received'[r] = received[r]
    BY <1>2, <1>7 DEF TypeInv, TypeOK
  <1>9. \A i \in 1 .. Len(order') :
           (Filled(order[i]) /\ body[order[i]][2] <= sent[body[order[i]][1]])'
    BY <1>2, <1>5 DEF NumbersGrow, Filled
  <1>10. ASSUME NEW i \in 1 .. Len(order'), NEW j \in 1 .. Len(order'), i < j,
                body[order'[i]][1] = body[order'[j]][1]
         PROVE  body[order'[i]][2] < body[order'[j]][2]
    <2>1. /\ old(i) \in 1 .. Len(order) /\ order'[i] = order[old(i)]
          /\ old(j) \in 1 .. Len(order) /\ order'[j] = order[old(j)]
          /\ old(i) < old(j)
      BY <1>5, <1>6, <1>10
    <2> QED BY <1>10, <2>1 DEF NumbersGrow
  <1>11. ASSUME NEW r \in 1 .. Len(received')
         PROVE  received'[r][2] <= sent[received'[r][1]]
    <2>1. CASE r = Len(received')
      BY <1>7, <1>8, <2>1
    <2>2. CASE r # Len(received')
      BY <1>8, <2>2 DEF NumbersGrow
    <2> QED BY <2>1, <2>2
  <1>12. ASSUME discipline = "dequeue", NEW r \in 1 .. Len(received'),
                NEW i \in 1 .. Len(order'), received'[r][1] = body[order'[i]][1]
         PROVE  received'[r][2] < body[order'[i]][2]
    <2>1. old(i) \in 1 .. Len(order) /\ order'[i] = order[old(i)] /\ k < old(i)
      BY <1>2, <1>5, <1>12
    <2>2. CASE r = Len(received')
      BY <1>8, <1>12, <2>1, <2>2 DEF NumbersGrow
    <2>3. CASE r # Len(received')
      <3>1. r \in 1 .. Len(received) /\ received'[r] = received[r]
        BY <1>8, <2>3
      <3> QED BY <1>12, <2>1, <3>1 DEF NumbersGrow
    <2> QED BY <2>2, <2>3
  <1>13. NumbersGrow'
    BY <1>2, <1>9, <1>10, <1>11, <1>12 DEF NumbersGrow
  <1>14. ASSUME discipline = "dequeue", NEW i \in 1 .. Len(received'),
                NEW j \in 1 .. Len(received'), i < j,
                received'[i][1] = received'[j][1]
         PROVE  received'[i][2] < received'[j][2]
    <2>1. i \in 1 .. Len(received) /\ received'[i] = received[i]
      BY <1>8, <1>14
    <2>2. CASE j = Len(received')
      BY <1>8, <1>14, <2>1, <2>2 DEF NumbersGrow
    <2>3. CASE j # Len(received')
      <3>1. j \in 1 .. Len(received) /\ received'[j] = received[j]
        BY <1>8, <2>3
      <3> QED BY <1>14, <2>1, <3>1 DEF SenderOrder
    <2> QED BY <2>2, <2>3
  <1>15. SenderOrder'
    BY <1>2, <1>14 DEF SenderOrder
  <1> QED BY <1>13, <1>15

\* A message that is refused only uses up a number.
LEMMA RefusedNumbers ==
    ASSUME OrderInv, NEW s \in Sender, EnqueueNoMemory(s)
    PROVE  NumbersGrow' /\ SenderOrder'
  <1>1. UNCHANGED <<body, order, received, discipline>>
    BY DEF EnqueueNoMemory, recvVars, nodeVars
  <1>2. \A t \in Sender :
           sent[t] \in Nat /\ sent'[t] \in Nat /\ sent[t] <= sent'[t]
    BY MailboxAssumption DEF EnqueueNoMemory, OrderInv, TypeInv, TypeOK
  <1>3. ASSUME NEW m \in Message, m[2] <= sent[m[1]] PROVE m[2] <= sent'[m[1]]
    <2>1. m[1] \in Sender /\ m[2] \in Nat
      BY MessageFacts
    <2> QED BY <1>2, <1>3, <2>1
  <1>4. \A i \in 1 .. Len(order) :
           (Filled(order[i]) /\ body[order[i]][2] <= sent[body[order[i]][1]])'
    BY <1>1, <1>3 DEF OrderInv, NumbersGrow, Filled
  <1>5. \A r \in 1 .. Len(received) : received[r][2] <= sent'[received[r][1]]
    <2>1. \A r \in 1 .. Len(received) : received[r] \in Message
      BY DEF OrderInv, TypeInv, TypeOK
    <2>2. \A r \in 1 .. Len(received) : received[r][2] <= sent[received[r][1]]
      BY DEF OrderInv, NumbersGrow
    <2> QED BY <1>3, <2>1, <2>2
  <1> QED BY <1>1, <1>4, <1>5 DEF OrderInv, NumbersGrow, SenderOrder

\* The empty mailbox.
LEMMA OrderInit == Init => OrderInv
  BY TypeInit, ListInit DEF Init, OrderInv, NumbersGrow, SenderOrder

\* Every step keeps the order.
LEMMA OrderStep ==
    ASSUME ReceiverWaits
    PROVE  OrderInv /\ [Next]_vars => OrderInv'
  <1> SUFFICES ASSUME OrderInv, [Next]_vars PROVE NumbersGrow' /\ SenderOrder'
    BY TypeStep, ListStep DEF OrderInv
  <1>1. ASSUME NEW s \in Sender, EnqueueExchange(s) PROVE NumbersGrow' /\ SenderOrder'
    BY <1>1, ExchangeNumbers
  <1>2. ASSUME NEW s \in Sender, EnqueueNoMemory(s) PROVE NumbersGrow' /\ SenderOrder'
    BY <1>2, RefusedNumbers
  <1>3. CASE ReceiveFree
    BY <1>3, FreeNumbers
  <1>4. ASSUME UNCHANGED <<body, order, received, discipline, sent>>
        PROVE  NumbersGrow' /\ SenderOrder'
    BY <1>4 DEF OrderInv, NumbersGrow, SenderOrder, Filled
  <1>5. ASSUME NEW s \in Sender, Send(s), ~ EnqueueExchange(s), ~ EnqueueNoMemory(s)
        PROVE  UNCHANGED <<body, order, received, discipline, sent>>
    BY <1>5 DEF Send, EnqueueLink, EnqueueLoadCount, EnqueueStoreCount, nodeVars,
       recvVars
  <1>6. ASSUME Dequeue \/ SelectiveReceive, ~ ReceiveFree
        PROVE  UNCHANGED <<body, order, received, discipline, sent>>
    BY <1>6 DEF Dequeue, SelectiveReceive, DequeueReadHead, DequeueLoadNext,
       DequeueStoreHead, DequeueTestHead, DequeueClearTail, ReceiveLoadCount, LoopRec,
       ResetCursor, LoopRecEnd, RemoveLoadNext, RemoveUnlink, RemoveInside,
       RemoveAtTail, RemoveStoreTail, nodeVars, sendVars, recvVars
  <1>7. CASE UNCHANGED vars
    BY <1>4, <1>7 DEF vars, nodeVars, sendVars, recvVars
  <1> QED BY <1>1, <1>2, <1>3, <1>4, <1>5, <1>6, <1>7 DEF Next, Finished

\* Messages of one sender are dequeued in the order it sent them and none
\* twice, whatever the interleaving of the senders was and whichever of their
\* messages were refused (SenderOrder; erl_message.c:30-68).
THEOREM OrderCorrect ==
    ASSUME ReceiverWaits
    PROVE  Spec => []SenderOrder
  <1>1. OrderInv => SenderOrder
    BY DEF OrderInv
  <1> QED BY <1>1, OrderInit, OrderStep, PTL DEF Spec
=============================================================================
