--------------------------------- MODULE Ets ---------------------------------
(***************************************************************************)
(* The ETS tables of src/global/ets.c: hash buckets that are singly linked *)
(* lists of (key, value) entries, and an item count.  The code takes no    *)
(* lock.                                                                   *)
(*                                                                         *)
(* Each client runs one operation at a time.  Walking a chain is one step; *)
(* every store to the table is another, so clients interleave between the  *)
(* search and the change an operation makes, and between the load and the  *)
(* store of a counter.                                                     *)
(***************************************************************************)
EXTENDS Integers, Sequences, FiniteSets

CONSTANTS
    Client,         \* threads that use the table
    KeysOf(_),      \* the keys a client uses
    Key,
    Bucket,
    BucketOf(_),    \* hash_eterm(key) % bucket_count
    Value,          \* the values clients insert
    Entry,          \* the addresses the allocator may hand out
    Null,
    IntBits,        \* bits of a small integer: 60 in the code
    CountBits,      \* bits of the size_t item_count: 64 in the code
    Ops             \* the operations the clients use

AllOps == {"insert", "delete", "counter"}
TableTypes == {"SET", "ORDERED_SET", "BAG", "DUPLICATE_BAG"}

\* The integers that IntBits bits of two's complement hold.
Half == 2 ^ (IntBits - 1)
SmallInts == -Half .. Half - 1

ASSUME EtsAssumption ==
    /\ Null \notin Entry
    /\ \A key \in Key : BucketOf(key) \in Bucket
    /\ \A c \in Client : KeysOf(c) \subseteq Key
    /\ IntBits \in Nat \ {0} /\ CountBits \in Nat \ {0}
    /\ Value \cup {0} \subseteq SmallInts
    /\ Ops \subseteq AllOps

\* A size_t can count the threads' entries, all of which are in memory.
ASSUME CountAssumption ==
    /\ IsFiniteSet(Client) /\ IsFiniteSet(Entry)
    /\ Cardinality(Entry) < 2 ^ CountBits

\* No two clients use keys of one bucket: what the code, which takes no lock,
\* needs of its callers.
OwnBuckets ==
    \A c, d \in Client : c # d =>
        \A k \in KeysOf(c), l \in KeysOf(d) : BucketOf(k) # BucketOf(l)

VARIABLES
    type,                 \* table->type, fixed at creation
    buckets,              \* the first entry of each chain
    key, value, next,     \* the fields of the entries
    allocated,
    item_count,
    pc,                   \* where each client is in its operation
    arg,                  \* the key and value of that operation
    at,                   \* the entry it works on
    pred,                 \* the entry before it, Null for the bucket itself
    tmp,                  \* the counter or count it has loaded
    ref,                  \* history: the values of each key, newest first
    raced                 \* history: two updates of item_count overlapped

tableVars == <<type, buckets, key, value, next, allocated, item_count>>
vars == <<tableVars, pc, arg, at, pred, tmp, ref, raced>>

-----------------------------------------------------------------------------
\* Mutant of the next definition: no bit is shifted out.
SmallIntUnbounded(i) == i

\* make_small_int and back: IntBits bits of two's complement are kept.
SmallInt(i) == ((i + Half) % (2 * Half)) - Half

\* What a walk along the links from a first entry meets, Null past the end.  A
\* chain has at most Cardinality(Entry) entries, unless two racing operations
\* have tied it into a loop, which is followed no further.
Walk(head, link) ==
    LET nth[i \in 1 .. Cardinality(Entry)] ==
            IF i = 1 THEN head
            ELSE IF nth[i - 1] = Null THEN Null ELSE link[nth[i - 1]]
    IN  nth

ChainFrom(head, link) ==
    LET walk == Walk(head, link)
    IN  [i \in {j \in 1 .. Cardinality(Entry) : walk[j] # Null} |-> walk[i]]

Chain(b) == ChainFrom(buckets[b], next)

\* Where a key lies in the chain of its bucket, and the first place of these.
PositionsOf(k) ==
    LET chain == Chain(BucketOf(k)) IN {i \in DOMAIN chain : key[chain[i]] = k}

PosOfKey(k) == CHOOSE i \in PositionsOf(k) : \A j \in PositionsOf(k) : i <= j

EntryOfKey(k) == Chain(BucketOf(k))[PosOfKey(k)]

IsSet == type \in {"SET", "ORDERED_SET"}

\* beam_ets_lookup: the first match, Null for BEAM_ERR_NOT_FOUND.
beam_ets_lookup(k) == IF PositionsOf(k) = {} THEN Null ELSE value[EntryOfKey(k)]

\* beam_ets_table_create_typed.
Init ==
    /\ type \in TableTypes
    /\ buckets = [b \in Bucket |-> Null]
    /\ key = [e \in Entry |-> Null]
    /\ value = [e \in Entry |-> 0]
    /\ next = [e \in Entry |-> Null]
    /\ allocated = {}
    /\ item_count = 0
    /\ pc = [c \in Client |-> "idle"]
    /\ arg = [c \in Client |-> <<Null, 0>>]
    /\ at = [c \in Client |-> Null]
    /\ pred = [c \in Client |-> Null]
    /\ tmp = [c \in Client |-> 0]
    /\ ref = [k \in Key |-> << >>]
    /\ raced = FALSE

-----------------------------------------------------------------------------
Begin(c, label, k, v) ==
    /\ pc' = [pc EXCEPT ![c] = label]
    /\ arg' = [arg EXCEPT ![c] = <<k, v>>]

End(c) ==
    /\ pc' = [pc EXCEPT ![c] = "idle"]
    /\ arg' = [arg EXCEPT ![c] = <<Null, 0>>]
    /\ at' = [at EXCEPT ![c] = Null]
    /\ pred' = [pred EXCEPT ![c] = Null]
    /\ tmp' = [tmp EXCEPT ![c] = 0]

\* The load of item_count++ or item_count--.
LoadCount(c) ==
    /\ tmp' = [tmp EXCEPT ![c] = item_count]
    /\ raced' = (raced \/ \E d \in Client \ {c} : pc[d] \in {"count_up", "count_down"})

MayBegin(c, op) == pc[c] = "idle" /\ op \in Ops

\* What an insertion into each type of table makes of a key's values.
RefInsert(values, v) ==
    CASE IsSet                  -> <<v>>
      [] type = "BAG"           -> IF \E i \in 1 .. Len(values) : values[i] = v
                                   THEN values ELSE <<v>> \o values
      [] type = "DUPLICATE_BAG" -> <<v>> \o values

\* beam_ets_insert on a SET finds the key: the value will be replaced.
InsertFindsKey(c, k, v) ==
    /\ MayBegin(c, "insert")
    /\ IsSet
    /\ PositionsOf(k) # {}
    /\ at' = [at EXCEPT ![c] = EntryOfKey(k)]
    /\ Begin(c, "store_value", k, v)
    /\ UNCHANGED <<tableVars, pred, tmp, ref, raced>>

InsertStoreValue(c) ==
    /\ pc[c] = "store_value"
    /\ value' = [value EXCEPT ![at[c]] = arg[c][2]]
    /\ ref' = [ref EXCEPT ![arg[c][1]] = RefInsert(@, arg[c][2])]
    /\ End(c)
    /\ UNCHANGED <<type, buckets, key, next, allocated, item_count, raced>>

\* An exact duplicate in a BAG is ignored and the call returns BEAM_OK.
BagHolds(k, v) ==
    /\ type = "BAG"
    /\ \E i \in PositionsOf(k) : value[Chain(BucketOf(k))[i]] = v

\* Mutant of the next definition: a BAG is not searched for the pair.
InsertNewUnchecked(c, k, v) ==
    /\ MayBegin(c, "insert")
    /\ IsSet => PositionsOf(k) = {}
    /\ \E e \in Entry \ allocated :
        /\ allocated' = allocated \cup {e}
        /\ key' = [key EXCEPT ![e] = k]
        /\ value' = [value EXCEPT ![e] = v]
        /\ at' = [at EXCEPT ![c] = e]
    /\ Begin(c, "load_head", k, v)
    /\ UNCHANGED <<type, buckets, next, item_count, pred, tmp, ref, raced>>

\* Nothing stands in the way: an entry is allocated and filled.  Without
\* memory the call returns BEAM_ERR_NO_MEMORY and changes nothing.
InsertNew(c, k, v) ==
    /\ MayBegin(c, "insert")
    /\ IsSet => PositionsOf(k) = {}
    /\ ~BagHolds(k, v)
    /\ \E e \in Entry \ allocated :
        /\ allocated' = allocated \cup {e}
        /\ key' = [key EXCEPT ![e] = k]
        /\ value' = [value EXCEPT ![e] = v]
        /\ at' = [at EXCEPT ![c] = e]
    /\ Begin(c, "load_head", k, v)
    /\ UNCHANGED <<type, buckets, next, item_count, pred, tmp, ref, raced>>

InsertLoadHead(c) ==
    /\ pc[c] = "load_head"
    /\ next' = [next EXCEPT ![at[c]] = buckets[BucketOf(arg[c][1])]]
    /\ pc' = [pc EXCEPT ![c] = "store_head"]
    /\ UNCHANGED <<type, buckets, key, value, allocated, item_count, arg, at,
                   pred, tmp, ref, raced>>

\* The entry becomes the head of its chain; the load of item_count++ follows.
InsertStoreHead(c) ==
    /\ pc[c] = "store_head"
    /\ buckets' = [buckets EXCEPT ![BucketOf(arg[c][1])] = at[c]]
    /\ LoadCount(c)
    /\ ref' = [ref EXCEPT ![arg[c][1]] = RefInsert(@, arg[c][2])]
    /\ pc' = [pc EXCEPT ![c] = "count_up"]
    /\ UNCHANGED <<type, key, value, next, allocated, item_count, arg, at,
                   pred>>

InsertStoreCount(c) ==
    /\ pc[c] = "count_up"
    /\ item_count' = (tmp[c] + 1) % 2 ^ CountBits
    /\ End(c)
    /\ UNCHANGED <<type, buckets, key, value, next, allocated, ref, raced>>

\* beam_ets_delete finds the first entry of the key and the link to it.
DeleteFinds(c, k) ==
    /\ MayBegin(c, "delete")
    /\ PositionsOf(k) # {}
    /\ at' = [at EXCEPT ![c] = EntryOfKey(k)]
    /\ pred' = [pred EXCEPT ![c] =
            IF PosOfKey(k) = 1 THEN Null ELSE Chain(BucketOf(k))[PosOfKey(k) - 1]]
    /\ Begin(c, "unlink", k, 0)
    /\ UNCHANGED <<tableVars, tmp, ref, raced>>

\* The free of an entry: its fields are no longer anyone's.
FreeEntry(c) ==
    /\ allocated' = allocated \ {at[c]}
    /\ key' = [key EXCEPT ![at[c]] = Null]
    /\ value' = [value EXCEPT ![at[c]] = 0]

\* Mutant of the next definition: the entry is freed and stays linked.
FreeWithoutUnlink(c) ==
    /\ pc[c] = "unlink"
    /\ FreeEntry(c)
    /\ ref' = [ref EXCEPT ![arg[c][1]] = Tail(@)]
    /\ LoadCount(c)
    /\ pc' = [pc EXCEPT ![c] = "count_down"]
    /\ UNCHANGED <<type, buckets, next, item_count, arg, at, pred>>

\* *curr = to_free->next, the free, and the load of item_count--.
DeleteUnlink(c) ==
    /\ pc[c] = "unlink"
    /\ IF pred[c] = Null
       THEN /\ buckets' = [buckets EXCEPT ![BucketOf(arg[c][1])] = next[at[c]]]
            /\ next' = [next EXCEPT ![at[c]] = Null]
       ELSE /\ next' = [next EXCEPT ![pred[c]] = next[at[c]], ![at[c]] = Null]
            /\ UNCHANGED buckets
    /\ FreeEntry(c)
    /\ ref' = [ref EXCEPT ![arg[c][1]] = Tail(@)]
    /\ LoadCount(c)
    /\ pc' = [pc EXCEPT ![c] = "count_down"]
    /\ UNCHANGED <<type, item_count, arg, at, pred>>

\* Mutant of the next definition: the item stays counted.
DeleteKeepsCount(c) ==
    /\ pc[c] = "count_down"
    /\ End(c)
    /\ UNCHANGED <<tableVars, ref, raced>>

DeleteStoreCount(c) ==
    /\ pc[c] = "count_down"
    /\ item_count' = (tmp[c] - 1) % 2 ^ CountBits
    /\ End(c)
    /\ UNCHANGED <<type, buckets, key, value, next, allocated, ref, raced>>

\* beam_ets_update_counter finds the key and loads its value.
CounterLoads(c, k) ==
    /\ MayBegin(c, "counter")
    /\ PositionsOf(k) # {}
    /\ at' = [at EXCEPT ![c] = EntryOfKey(k)]
    /\ tmp' = [tmp EXCEPT ![c] = value[EntryOfKey(k)]]
    /\ Begin(c, "store_counter", k, 0)
    /\ UNCHANGED <<tableVars, pred, ref, raced>>

\* An increment of one is stored and returned.
CounterStores(c) ==
    /\ pc[c] = "store_counter"
    /\ value' = [value EXCEPT ![at[c]] = SmallInt(tmp[c] + 1)]
    /\ ref' = [ref EXCEPT ![arg[c][1]] = <<SmallInt(Head(@) + 1)>> \o Tail(@)]
    /\ End(c)
    /\ UNCHANGED <<type, buckets, key, next, allocated, item_count, raced>>

Operate(c) ==
    \/ \E k \in KeysOf(c), v \in Value : InsertFindsKey(c, k, v) \/ InsertNew(c, k, v)
    \/ \E k \in KeysOf(c) : DeleteFinds(c, k) \/ CounterLoads(c, k)

Continue(c) ==
    \/ InsertStoreValue(c) \/ InsertLoadHead(c) \/ InsertStoreHead(c)
    \/ InsertStoreCount(c) \/ DeleteUnlink(c) \/ DeleteStoreCount(c)
    \/ CounterStores(c)

Next == \E c \in Client : Operate(c) \/ Continue(c)

Spec == Init /\ [][Next]_vars

-----------------------------------------------------------------------------
Stages == {"idle", "store_value", "load_head", "store_head", "count_up",
           "unlink", "count_down", "store_counter"}

TypeOK ==
    /\ type \in TableTypes
    /\ buckets \in [Bucket -> Entry \cup {Null}]
    /\ key \in [Entry -> Key \cup {Null}]
    /\ value \in [Entry -> SmallInts]
    /\ next \in [Entry -> Entry \cup {Null}]
    /\ allocated \subseteq Entry
    /\ item_count \in 0 .. 2 ^ CountBits - 1
    /\ pc \in [Client -> Stages]
    /\ arg \in [Client -> (Key \cup {Null}) \X SmallInts]
    /\ at \in [Client -> Entry \cup {Null}]
    /\ pred \in [Client -> Entry \cup {Null}]
    /\ tmp \in [Client -> Int]
    /\ raced \in BOOLEAN

\* The entries of key k in a chain, taken in its order, hold these values; keyOf
\* and valueOf give the fields of the entries.
Lists(chain, keyOf, valueOf, k, values) ==
    \E f \in [1 .. Len(values) -> DOMAIN chain] :
        /\ \A i, j \in 1 .. Len(values) : i < j => f[i] < f[j]
        /\ \A p \in DOMAIN chain :
              keyOf[chain[p]] = k <=> \E i \in 1 .. Len(values) : f[i] = p
        /\ \A i \in 1 .. Len(values) : valueOf[chain[f[i]]] = values[i]

(***************************************************************************)
(* The table holds for every key exactly the values that the operations on *)
(* that key left, in the order lookups would meet them, whatever other     *)
(* keys share its bucket and whatever is in progress (ets.c:61-164): a SET *)
(* one value, a BAG nothing it has already, a deletion taking the newest   *)
(* entry only; and a lookup returns the newest of them.                    *)
(***************************************************************************)
ContentsRight ==
    \A k \in Key :
        /\ Lists(Chain(BucketOf(k)), key, value, k, ref[k])
        /\ beam_ets_lookup(k) = IF ref[k] = << >> THEN Null ELSE ref[k][1]

(***************************************************************************)
(* Whenever nothing is going on beam_ets_count is the number of entries,   *)
(* unless two clients' plain item_count++ and item_count-- overlapped      *)
(* (ets.c:97, :132): ignored duplicates, replaced values and deletions     *)
(* from the middle of a chain are all counted once or not at all.          *)
(***************************************************************************)
CountRight ==
    ~raced /\ (\A c \in Client : pc[c] = "idle")
        => item_count = Cardinality(allocated)

(***************************************************************************)
(* Every entry in a chain is allocated memory: no operation walks through  *)
(* an entry that another one has freed.                                    *)
(***************************************************************************)
NoFreedEntryLinked ==
    \A b \in Bucket : \A i \in DOMAIN Chain(b) : Chain(b)[i] \in allocated
=============================================================================
