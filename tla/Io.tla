--------------------------------- MODULE Io ---------------------------------
(***************************************************************************)
(* sys_poll.c: the poller's table of descriptors beside the kernel's       *)
(* interest list, and sockets whose bytes become messages.  Each call is   *)
(* one locked section, or one system call, of the thread that makes it.    *)
(***************************************************************************)
EXTENDS Memory, Sequences

CONSTANTS
    MaxFd,              \* descriptors are 1 .. MaxFd
    MAX_POLL_ENTRIES,
    ReadMax,            \* sizeof(buf) - 1
    MaxBytes            \* bound: bytes the peers send

ASSUME IoAssumption ==
    {MaxFd, MAX_POLL_ENTRIES, ReadMax} \subseteq Nat \ {0}

VARIABLES
    sockets,            \* by descriptor: "closed", "listener" or "client"
    interest,           \* the kernel's list
    entries,            \* the poller's
    ready,              \* *out_events_ready of the last poll
    unread, sent,       \* by descriptor; in all
    messages,           \* the numbers in the mailbox of the receiving process
    dropped             \* an enqueue had no memory

ioVars == <<mem, sockets, interest, entries, ready, unread, sent, messages, dropped>>

Fd == 1 .. MaxFd

IoInit ==
    /\ sockets = [fd \in Fd |-> "closed"]
    /\ interest = {} /\ entries = <<>> /\ ready = 0
    /\ unread = [fd \in Fd |-> 0] /\ sent = 0
    /\ messages = <<>> /\ dropped = FALSE

\* The kernel gives the lowest free descriptor.
Opens(kind) ==
    \E fd \in Fd :
        /\ sockets[fd] = "closed"
        /\ \A g \in 1 .. fd - 1 : sockets[g] # "closed"
        /\ sockets' = [sockets EXCEPT ![fd] = kind]
        /\ UNCHANGED <<mem, interest, entries, ready, unread, sent, messages,
                       dropped>>

\* A socket that cannot be bound or listen is closed again: nothing changes.
beam_socket_listen == Opens("listener")

beam_socket_accept ==
    /\ \E fd \in Fd : sockets[fd] = "listener"
    /\ Opens("client")

\* The host, or the peer's side of it: close is not wrapped.  The kernel
\* forgets the descriptor, the poller does not.
Close(fd) ==
    /\ sockets[fd] # "closed"
    /\ sockets' = [sockets EXCEPT ![fd] = "closed"]
    /\ interest' = interest \ {fd}
    /\ sent' = sent - unread[fd]
    /\ unread' = [unread EXCEPT ![fd] = 0]
    /\ UNCHANGED <<mem, entries, ready, messages, dropped>>

PeerSends(fd, n) ==
    /\ sockets[fd] = "client"
    /\ sent + n <= MaxBytes
    /\ unread' = [unread EXCEPT ![fd] = @ + n]
    /\ sent' = sent + n
    /\ UNCHANGED <<mem, sockets, interest, entries, ready, messages, dropped>>

\* Mutant of the next definition: the table's limit is tested after the kernel
\* has agreed.
RegisterKernelOnly(fd) ==
    /\ sockets[fd] # "closed" /\ fd \notin interest
    /\ interest' = interest \cup {fd}
    /\ entries' = IF Len(entries) < MAX_POLL_ENTRIES THEN Append(entries, fd)
                  ELSE entries
    /\ UNCHANGED <<mem, sockets, ready, unread, sent, messages, dropped>>

\* NO_MEMORY when the table is full, INVALID_ARG when the kernel refuses: a
\* descriptor that is closed, or watched already, or (kernel memory) any.
beam_io_poller_register(fd) ==
    /\ Len(entries) < MAX_POLL_ENTRIES
    /\ sockets[fd] # "closed" /\ fd \notin interest
    /\ interest' = interest \cup {fd}
    /\ entries' = Append(entries, fd)
    /\ UNCHANGED <<mem, sockets, ready, unread, sent, messages, dropped>>

\* The descriptors of the interest list that have bytes to read; an
\* interrupted wait reports none.
beam_io_poller_poll(interrupted) ==
    LET readable == {fd \in interest : unread[fd] > 0}
        n == Cardinality(readable)
    IN  /\ ready' = IF interrupted THEN 0
                    ELSE IF n < MAX_POLL_ENTRIES THEN n ELSE MAX_POLL_ENTRIES
        /\ UNCHANGED <<mem, sockets, interest, entries, unread, sent, messages,
                       dropped>>

\* Mutant of the next definition: the buffer's last byte, kept for the
\* terminator, is counted as read.
DispatchCountsTerminator(fd, got_node) ==
    LET n == IF unread[fd] < ReadMax THEN unread[fd] ELSE ReadMax
    IN  /\ sockets[fd] = "client" /\ n > 0
        /\ unread' = [unread EXCEPT ![fd] = @ - n]
        /\ messages' = Append(messages, n + 1)
        /\ mem' = sys_alloc(mem, One("message", 0))
        /\ UNCHANGED <<sockets, interest, entries, ready, sent, dropped>>

\* Up to ReadMax bytes become one message, the number of them; nothing to read
\* is NOT_FOUND.  The bytes are gone also when the mailbox has no memory.
beam_socket_dispatch_mailbox(fd, got_node) ==
    LET n == IF unread[fd] < ReadMax THEN unread[fd] ELSE ReadMax
    IN  /\ sockets[fd] = "client" /\ n > 0
        /\ unread' = [unread EXCEPT ![fd] = @ - n]
        /\ IF got_node
           THEN /\ messages' = Append(messages, n)
                /\ mem' = sys_alloc(mem, One("message", 0))
                /\ UNCHANGED dropped
           ELSE dropped' = TRUE /\ UNCHANGED <<messages, mem>>
        /\ UNCHANGED <<sockets, interest, entries, ready, sent>>

IoNext ==
    \/ beam_socket_listen
    \/ beam_socket_accept
    \/ \E interrupted \in BOOLEAN : beam_io_poller_poll(interrupted)
    \/ \E fd \in Fd :
        \/ Close(fd)
        \/ PeerSends(fd, 1)
        \/ PeerSends(fd, ReadMax + 1)
        \/ beam_io_poller_register(fd)
        \/ \E got_node \in BOOLEAN : beam_socket_dispatch_mailbox(fd, got_node)

IoSpec == MemoryInit /\ IoInit /\ [][IoNext]_ioVars

-----------------------------------------------------------------------------
\* The sum of a sequence of numbers.
Total(numbers) ==
    LET upTo[i \in 0 .. Len(numbers)] ==
            IF i = 0 THEN 0 ELSE upTo[i - 1] + numbers[i]
    IN  upTo[Len(numbers)]
IoTypeOK ==
    /\ interest \subseteq {fd \in Fd : sockets[fd] # "closed"}
    /\ Len(entries) <= MAX_POLL_ENTRIES /\ ready \in 0 .. MAX_POLL_ENTRIES
    /\ \A i \in DOMAIN messages : messages[i] \in 1 .. ReadMax

\* What the peers have sent is still unread or counted in a message, as long
\* as no enqueue has failed (beam_socket_dispatch_mailbox), whatever order
\* arrivals, reads and closes come in.
BytesAccountedFor == ~dropped => sent = Total(messages) + Total(unread)

\* The kernel watches nothing that is not in the poller's table, after any
\* sequence of closes and of numbers given out again (beam_io_poller_register).
WatchedIsInTable == interest \subseteq {entries[i] : i \in DOMAIN entries}
=============================================================================
