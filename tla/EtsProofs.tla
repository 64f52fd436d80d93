----------------------------- MODULE EtsProofs -----------------------------
(***************************************************************************)
(* ETS tables hold what the operations left, for every number of clients,  *)
(* keys, buckets and entries.  The types are proved for every use of a     *)
(* table; contents, memory and count for clients that share no bucket.     *)
(*                                                                         *)
(* The walk along a chain is a recursive function.  Most of what is needed *)
(* of it is that a path, a sequence of different entries in which each     *)
(* leads to the next, is what the walk finds (ChainOfPath): every change   *)
(* of a chain is then a change of a sequence.                              *)
(***************************************************************************)
EXTENDS Ets, SequenceFacts, FiniteSetTheorems

Size == Cardinality(Entry)

LEMMA SizeIsNat == Size \in Nat
BY CountAssumption, FS_CardinalityType DEF Size

-----------------------------------------------------------------------------
\* The walk

\* One step of a walk that has come as far as `walk' tells.
Reaches(head, link, walk, i) ==
    IF i = 1 THEN head
    ELSE IF walk[i - 1] = Null THEN Null ELSE link[walk[i - 1]]

\* There is a walk of every length up to the number of entries, so that the
\* recursive definition of the model describes one.
LEMMA WalkExists ==
    ASSUME NEW head, NEW link
    PROVE  \E walk : walk = [i \in 1 .. Size |-> Reaches(head, link, walk, i)]
<1> DEFINE Follows(walk, n) ==
             /\ walk = [i \in 1 .. Size |-> walk[i]]
             /\ \A i \in 1 .. n : walk[i] = Reaches(head, link, walk, i)
           S == {n \in 0 .. Size : \E walk : Follows(walk, n)}
<1>1. 0 \in S
  <2>1. Follows([i \in 1 .. Size |-> Null], 0)
      BY SizeIsNat
  <2> HIDE DEF Follows
  <2>2. \E walk : Follows(walk, 0)
      BY <2>1
  <2> QED BY <2>2, SizeIsNat
<1>2. ASSUME NEW n \in 0 .. Size - 1, n \in S
      PROVE  n + 1 \in S
  <2>1. PICK walk : Follows(walk, n)
      BY <1>2
  <2> DEFINE longer == [i \in 1 .. Size |->
                          IF i = n + 1 THEN Reaches(head, link, walk, i) ELSE walk[i]]
  <2>2. ASSUME NEW i \in 1 .. n + 1
        PROVE  longer[i] = Reaches(head, link, longer, i)
    <3>1. i \in 1 .. Size /\ (i # 1 => i - 1 \in 1 .. Size /\ i - 1 # n + 1)
        BY SizeIsNat
    <3>2. i # 1 => longer[i - 1] = walk[i - 1]
        BY <3>1
    <3>3. Reaches(head, link, longer, i) = Reaches(head, link, walk, i)
        BY <3>2 DEF Reaches
    <3>4. longer[i] = Reaches(head, link, walk, i)
        BY <2>1, <3>1, SizeIsNat
    <3> QED BY <3>3, <3>4
  <2>3. Follows(longer, n + 1)
      BY <2>2
  <2>4. n + 1 \in 0 .. Size
      BY SizeIsNat
  <2> QED BY <2>3, <2>4
<1> HIDE DEF S
<1>3. \A n \in 0 .. Size : n \in S
    BY <1>1, <1>2, SizeIsNat, StepByStep
<1>4. PICK walk : Follows(walk, Size)
    BY <1>3, SizeIsNat DEF S
<1>5. walk = [i \in 1 .. Size |-> Reaches(head, link, walk, i)]
    BY <1>4
<1> QED BY <1>5

LEMMA WalkEquation ==
    ASSUME NEW head, NEW link
    PROVE  Walk(head, link) =
             [i \in 1 .. Size |-> Reaches(head, link, Walk(head, link), i)]
<1>1. Walk(head, link) =
        CHOOSE walk : walk = [i \in 1 .. Size |-> Reaches(head, link, walk, i)]
    BY DEF Walk, Reaches, Size
<1> QED BY <1>1, WalkExists

\* Whatever the links, a walk stays among the entries, and what comes before an
\* entry of it is one.
LEMMA ChainType ==
    ASSUME NEW head \in Entry \cup {Null}, NEW link \in [Entry -> Entry \cup {Null}]
    PROVE  LET chain == ChainFrom(head, link)
           IN  /\ DOMAIN chain \subseteq 1 .. Size
               /\ \A i \in DOMAIN chain : chain[i] \in Entry
               /\ \A i \in DOMAIN chain : i = 1 \/ i - 1 \in DOMAIN chain
<1> DEFINE walk == Walk(head, link)
           S == {n \in 0 .. Size : n = 0 \/ walk[n] \in Entry \cup {Null}}
<1>1. walk = [i \in 1 .. Size |-> Reaches(head, link, walk, i)]
    BY WalkEquation
<1> HIDE DEF walk
<1>2. 0 \in S
    BY SizeIsNat
<1>3. ASSUME NEW n \in 0 .. Size - 1, n \in S
      PROVE  n + 1 \in S
  <2>1. n + 1 \in 1 .. Size /\ walk[n + 1] = Reaches(head, link, walk, n + 1)
      BY <1>1, SizeIsNat
  <2>2. n # 0 => walk[n] \in Entry \cup {Null}
      BY <1>3
  <2>3. Reaches(head, link, walk, n + 1) \in Entry \cup {Null}
      BY <2>2 DEF Reaches
  <2> QED BY <2>1, <2>3
<1> HIDE DEF S
<1>4. \A n \in 0 .. Size : n \in S
    BY <1>2, <1>3, SizeIsNat, StepByStep
<1>5. \A i \in 1 .. Size : walk[i] \in Entry \cup {Null}
    BY <1>4 DEF S
<1>6. ChainFrom(head, link) = [i \in {j \in 1 .. Size : walk[j] # Null} |-> walk[i]]
    BY DEF ChainFrom, Size, walk
<1>7. ASSUME NEW i \in 1 .. Size, walk[i] # Null, i # 1
      PROVE  i - 1 \in 1 .. Size /\ walk[i - 1] # Null
    BY <1>1, <1>7, SizeIsNat DEF Reaches
<1> QED BY <1>5, <1>6, <1>7

\* A sequence of different entries that the links lead through, to its end.
IsPath(head, link, path) ==
    /\ path \in Seq(Entry)
    /\ \A i, j \in 1 .. Len(path) : path[i] = path[j] => i = j
    /\ head = IF Len(path) = 0 THEN Null ELSE path[1]
    /\ \A i \in 1 .. Len(path) :
          link[path[i]] = IF i = Len(path) THEN Null ELSE path[i + 1]

LEMMA PathFits ==
    ASSUME NEW head, NEW link, NEW path, IsPath(head, link, path)
    PROVE  Len(path) \in 0 .. Size
<1>1. path \in Injection(1 .. Len(path), Entry)
    BY DEF IsPath, Injection, IsInjective
<1>2. Cardinality(1 .. Len(path)) <= Size
    BY <1>1, CountAssumption, FS_Injection DEF Size
<1>3. Len(path) \in Nat
    BY DEF IsPath
<1>4. Cardinality(1 .. Len(path)) = Len(path)
    BY <1>3, FS_Interval
<1> QED BY <1>2, <1>3, <1>4, SizeIsNat

\* The chain that starts a path is that path.
LEMMA ChainOfPath ==
    ASSUME NEW head, NEW link, NEW path, IsPath(head, link, path)
    PROVE  ChainFrom(head, link) = path
<1> DEFINE walk == Walk(head, link)
           S == {n \in 0 .. Size : n = 0 \/
                    walk[n] = IF n <= Len(path) THEN path[n] ELSE Null}
<1>1. walk = [i \in 1 .. Size |-> Reaches(head, link, walk, i)]
    BY WalkEquation
<1> HIDE DEF walk
<1>2. Len(path) \in 0 .. Size
    BY PathFits
<1>3. 0 \in S
    BY SizeIsNat
<1>4. ASSUME NEW n \in 0 .. Size - 1, n \in S
      PROVE  n + 1 \in S
  <2>1. n + 1 \in 1 .. Size /\ walk[n + 1] = Reaches(head, link, walk, n + 1)
      BY <1>1, SizeIsNat
  <2>2. n # 0 => walk[n] = IF n <= Len(path) THEN path[n] ELSE Null
      BY <1>4
  <2>3. \A i \in 1 .. Len(path) : path[i] \in Entry
      BY DEF IsPath
  <2>4. Reaches(head, link, walk, n + 1) =
            IF n + 1 <= Len(path) THEN path[n + 1] ELSE Null
    <3>1. CASE n = 0
        BY <1>2, <3>1 DEF Reaches, IsPath
    <3>2. CASE n # 0 /\ n <= Len(path)
      <4>1. walk[n] = path[n] /\ path[n] # Null
          BY <1>2, <2>2, <2>3, <3>2, EtsAssumption
      <4> QED BY <1>2, <3>2, <4>1 DEF Reaches, IsPath
    <3>3. CASE n # 0 /\ ~(n <= Len(path))
        BY <1>2, <2>2, <3>3 DEF Reaches
    <3> QED BY <3>1, <3>2, <3>3
  <2> QED BY <2>1, <2>4
<1> HIDE DEF S
<1>5. \A n \in 0 .. Size : n \in S
    BY <1>3, <1>4, SizeIsNat, StepByStep
<1>6. \A i \in 1 .. Size : walk[i] = IF i <= Len(path) THEN path[i] ELSE Null
    BY <1>5 DEF S
<1>7. {j \in 1 .. Size : walk[j] # Null} = 1 .. Len(path)
  <2>1. \A i \in 1 .. Len(path) : path[i] \in Entry
      BY DEF IsPath
  <2> QED BY <1>2, <1>6, <2>1, SizeIsNat, EtsAssumption
<1>8. ChainFrom(head, link) = [i \in 1 .. Len(path) |-> walk[i]]
    BY <1>7 DEF ChainFrom, Size, walk
<1>9. [i \in 1 .. Len(path) |-> walk[i]] = path
  <2>1. path = [i \in 1 .. Len(path) |-> path[i]]
      BY DEF IsPath
  <2>2. \A i \in 1 .. Len(path) : walk[i] = path[i]
      BY <1>2, <1>6, SizeIsNat
  <2> QED BY <2>1, <2>2
<1> QED BY <1>8, <1>9

-----------------------------------------------------------------------------
\* Types

LEMMA HalfIsNat == Half \in Nat \ {0}
<1>1. IntBits - 1 \in Nat
    BY EtsAssumption
<1>2. Half \in Int
    BY <1>1 DEF Half
<1>3. 0 \in -Half .. Half - 1
    BY EtsAssumption DEF SmallInts
<1> QED BY <1>2, <1>3

\* make_small_int keeps a number within its bits.
LEMMA SmallIntType ==
    ASSUME NEW i \in Int
    PROVE  SmallInt(i) \in SmallInts
BY HalfIsNat DEF SmallInt, SmallInts

LEMMA CountRange == 2 ^ CountBits \in Nat \ {0}
<1>1. 2 ^ CountBits \in Int
    BY EtsAssumption
<1> QED BY <1>1, CountAssumption, SizeIsNat DEF Size

\* A client that is inside an operation works on an entry, for a key of its own.
AtAgrees ==
    \A c \in Client : pc[c] # "idle" => at[c] \in Entry /\ arg[c][1] \in KeysOf(c)

\* The search that the operations begin with: the first place of a key that is
\* in its chain, and the place before it.
LEMMA FirstPlace ==
    ASSUME TypeOK, NEW k \in Key, PositionsOf(k) # {}
    PROVE  /\ PosOfKey(k) \in PositionsOf(k)
           /\ \A j \in PositionsOf(k) : PosOfKey(k) <= j
           /\ PosOfKey(k) \in DOMAIN Chain(BucketOf(k))
           /\ PosOfKey(k) \in Nat
           /\ EntryOfKey(k) \in Entry
           /\ PosOfKey(k) # 1 => /\ PosOfKey(k) - 1 \in DOMAIN Chain(BucketOf(k))
                                 /\ Chain(BucketOf(k))[PosOfKey(k) - 1] \in Entry
<1>1. buckets[BucketOf(k)] \in Entry \cup {Null}
    BY EtsAssumption DEF TypeOK
<1>2. /\ DOMAIN Chain(BucketOf(k)) \subseteq 1 .. Size
      /\ \A i \in DOMAIN Chain(BucketOf(k)) : Chain(BucketOf(k))[i] \in Entry
      /\ \A i \in DOMAIN Chain(BucketOf(k)) :
            i = 1 \/ i - 1 \in DOMAIN Chain(BucketOf(k))
    BY <1>1, ChainType DEF TypeOK, Chain
<1>3. PositionsOf(k) \subseteq DOMAIN Chain(BucketOf(k))
    BY DEF PositionsOf
<1>4. PositionsOf(k) \subseteq Nat
    BY <1>2, <1>3, SizeIsNat
<1>5. \E i \in PositionsOf(k) : \A j \in PositionsOf(k) : i <= j
    BY <1>4, LeastElement
<1>6. /\ PosOfKey(k) \in PositionsOf(k)
      /\ \A j \in PositionsOf(k) : PosOfKey(k) <= j
    BY <1>5 DEF PosOfKey
<1> QED BY <1>2, <1>3, <1>4, <1>6 DEF EntryOfKey

LEMMA BeginType ==
    ASSUME TypeOK, AtAgrees, NEW c \in Client, NEW k \in KeysOf(c),
           NEW v \in SmallInts, NEW label \in Stages, Begin(c, label, k, v),
           NEW e \in Entry, at' = [at EXCEPT ![c] = e]
    PROVE  /\ pc' \in [Client -> Stages]
           /\ arg' \in [Client -> (Key \cup {Null}) \X SmallInts]
           /\ at' \in [Client -> Entry \cup {Null}]
           /\ AtAgrees'
<1>1. k \in Key /\ <<k, v>> \in (Key \cup {Null}) \X SmallInts
    BY EtsAssumption
<1>2. pc' = [pc EXCEPT ![c] = label] /\ arg' = [arg EXCEPT ![c] = <<k, v>>]
    BY DEF Begin
<1>3. pc' \in [Client -> Stages] /\ at' \in [Client -> Entry \cup {Null}]
    BY <1>2 DEF TypeOK
<1>4. arg' \in [Client -> (Key \cup {Null}) \X SmallInts]
    BY <1>1, <1>2 DEF TypeOK
<1>5. ASSUME NEW d \in Client, pc'[d] # "idle"
      PROVE  at'[d] \in Entry /\ arg'[d][1] \in KeysOf(d)
  <2>1. CASE d = c
    <3>1. arg'[d] = <<k, v>> /\ at'[d] = e
        BY <1>2, <2>1 DEF TypeOK
    <3> QED BY <2>1, <3>1
  <2>2. CASE d # c
    <3>1. arg'[d] = arg[d] /\ at'[d] = at[d] /\ pc'[d] = pc[d]
        BY <1>2, <2>2 DEF TypeOK
    <3> QED BY <1>5, <3>1 DEF AtAgrees
  <2> QED BY <2>1, <2>2
<1> QED BY <1>3, <1>4, <1>5 DEF AtAgrees

LEMMA EndType ==
    ASSUME TypeOK, AtAgrees, NEW c \in Client, End(c)
    PROVE  /\ pc' \in [Client -> Stages]
           /\ arg' \in [Client -> (Key \cup {Null}) \X SmallInts]
           /\ at' \in [Client -> Entry \cup {Null}]
           /\ pred' \in [Client -> Entry \cup {Null}]
           /\ tmp' \in [Client -> Int]
           /\ AtAgrees'
<1>1. <<Null, 0>> \in (Key \cup {Null}) \X SmallInts
    BY EtsAssumption
<1>2. /\ pc' = [pc EXCEPT ![c] = "idle"]
      /\ arg' = [arg EXCEPT ![c] = <<Null, 0>>]
      /\ at' = [at EXCEPT ![c] = Null]
      /\ pred' = [pred EXCEPT ![c] = Null]
      /\ tmp' = [tmp EXCEPT ![c] = 0]
    BY DEF End
<1>3. pc' \in [Client -> Stages]
    BY <1>2 DEF TypeOK, Stages
<1>4. arg' \in [Client -> (Key \cup {Null}) \X SmallInts]
    BY <1>1, <1>2 DEF TypeOK
<1>5. ASSUME NEW d \in Client, pc'[d] # "idle"
      PROVE  at'[d] \in Entry /\ arg'[d][1] \in KeysOf(d)
  <2>1. arg'[d] = arg[d] /\ at'[d] = at[d] /\ pc'[d] = pc[d]
      BY <1>2, <1>5 DEF TypeOK
  <2> QED BY <1>5, <2>1 DEF AtAgrees
<1> QED BY <1>2, <1>3, <1>4, <1>5 DEF AtAgrees, TypeOK

\* A stage that only moves on keeps the entry and the key of its client.
LEMMA MoveType ==
    ASSUME TypeOK, AtAgrees, NEW c \in Client, pc[c] # "idle", NEW label \in Stages,
           pc' = [pc EXCEPT ![c] = label], UNCHANGED <<arg, at>>
    PROVE  pc' \in [Client -> Stages] /\ AtAgrees'
<1>1. pc' \in [Client -> Stages]
    BY DEF TypeOK
<1>2. ASSUME NEW d \in Client, pc'[d] # "idle"
      PROVE  at[d] \in Entry /\ arg[d][1] \in KeysOf(d)
    BY <1>2 DEF AtAgrees, TypeOK
<1> QED BY <1>1, <1>2 DEF AtAgrees

LEMMA LoadCountType ==
    ASSUME TypeOK, NEW c \in Client, LoadCount(c)
    PROVE  tmp' \in [Client -> Int] /\ raced' \in BOOLEAN
<1>1. item_count \in Int
    BY CountRange DEF TypeOK
<1>2. tmp' \in [Client -> Int]
    BY <1>1 DEF TypeOK, LoadCount
<1>3. raced' \in BOOLEAN
    BY Zenon DEF LoadCount
<1> QED BY <1>2, <1>3

\* The types are kept by every step of an operation, whoever else is inside one.
LEMMA TypeStep ==
    ASSUME TypeOK, AtAgrees, [Next]_vars
    PROVE  TypeOK' /\ AtAgrees'
<1>0. CASE UNCHANGED vars
    BY <1>0 DEF TypeOK, AtAgrees, vars, tableVars
<1>1. ASSUME NEW c \in Client, NEW k \in KeysOf(c), NEW v \in Value,
             InsertFindsKey(c, k, v)
      PROVE  TypeOK' /\ AtAgrees'
  <2>1. k \in Key /\ v \in SmallInts /\ "store_value" \in Stages
      BY EtsAssumption DEF Stages
  <2>2. EntryOfKey(k) \in Entry
      BY <1>1, <2>1, FirstPlace DEF InsertFindsKey
  <2>3. /\ at' = [at EXCEPT ![c] = EntryOfKey(k)]
        /\ Begin(c, "store_value", k, v)
        /\ UNCHANGED <<tableVars, pred, tmp, ref, raced>>
      BY <1>1 DEF InsertFindsKey
  <2>4. /\ pc' \in [Client -> Stages]
        /\ arg' \in [Client -> (Key \cup {Null}) \X SmallInts]
        /\ at' \in [Client -> Entry \cup {Null}]
        /\ AtAgrees'
      BY <2>1, <2>2, <2>3, BeginType
  <2> QED BY <2>3, <2>4 DEF TypeOK, tableVars
<1>2. ASSUME NEW c \in Client, NEW k \in KeysOf(c), NEW v \in Value, InsertNew(c, k, v)
      PROVE  TypeOK' /\ AtAgrees'
  <2>1. k \in Key /\ v \in SmallInts /\ "load_head" \in Stages
      BY EtsAssumption DEF Stages
  <2>2. PICK e \in Entry \ allocated :
          /\ allocated' = allocated \cup {e}
          /\ key' = [key EXCEPT ![e] = k]
          /\ value' = [value EXCEPT ![e] = v]
          /\ at' = [at EXCEPT ![c] = e]
      BY <1>2 DEF InsertNew
  <2>3. /\ Begin(c, "load_head", k, v)
        /\ UNCHANGED <<type, buckets, next, item_count, pred, tmp, ref, raced>>
      BY <1>2 DEF InsertNew
  <2>4. /\ pc' \in [Client -> Stages]
        /\ arg' \in [Client -> (Key \cup {Null}) \X SmallInts]
        /\ at' \in [Client -> Entry \cup {Null}]
        /\ AtAgrees'
      BY <2>1, <2>2, <2>3, BeginType
  <2>5. key' \in [Entry -> Key \cup {Null}] /\ value' \in [Entry -> SmallInts]
      BY <2>1, <2>2 DEF TypeOK
  <2> QED BY <2>2, <2>3, <2>4, <2>5 DEF TypeOK
<1>3. ASSUME NEW c \in Client, NEW k \in KeysOf(c), DeleteFinds(c, k)
      PROVE  TypeOK' /\ AtAgrees'
  <2>1. k \in Key /\ 0 \in SmallInts /\ "unlink" \in Stages
      BY EtsAssumption DEF Stages
  <2>2. /\ EntryOfKey(k) \in Entry
        /\ PosOfKey(k) # 1 => Chain(BucketOf(k))[PosOfKey(k) - 1] \in Entry
      BY <1>3, <2>1, FirstPlace DEF DeleteFinds
  <2>3. /\ at' = [at EXCEPT ![c] = EntryOfKey(k)]
        /\ pred' = [pred EXCEPT ![c] =
              IF PosOfKey(k) = 1 THEN Null ELSE Chain(BucketOf(k))[PosOfKey(k) - 1]]
        /\ Begin(c, "unlink", k, 0)
        /\ UNCHANGED <<tableVars, tmp, ref, raced>>
      BY <1>3 DEF DeleteFinds
  <2>4. /\ pc' \in [Client -> Stages]
        /\ arg' \in [Client -> (Key \cup {Null}) \X SmallInts]
        /\ at' \in [Client -> Entry \cup {Null}]
        /\ AtAgrees'
      BY <2>1, <2>2, <2>3, BeginType
  <2>5. pred' \in [Client -> Entry \cup {Null}]
      BY <2>2, <2>3 DEF TypeOK
  <2> QED BY <2>3, <2>4, <2>5 DEF TypeOK, tableVars
<1>4. ASSUME NEW c \in Client, NEW k \in KeysOf(c), CounterLoads(c, k)
      PROVE  TypeOK' /\ AtAgrees'
  <2>1. k \in Key /\ 0 \in SmallInts /\ "store_counter" \in Stages
      BY EtsAssumption DEF Stages
  <2>2. EntryOfKey(k) \in Entry
      BY <1>4, <2>1, FirstPlace DEF CounterLoads
  <2>3. /\ at' = [at EXCEPT ![c] = EntryOfKey(k)]
        /\ tmp' = [tmp EXCEPT ![c] = value[EntryOfKey(k)]]
        /\ Begin(c, "store_counter", k, 0)
        /\ UNCHANGED <<tableVars, pred, ref, raced>>
      BY <1>4 DEF CounterLoads
  <2>4. /\ pc' \in [Client -> Stages]
        /\ arg' \in [Client -> (Key \cup {Null}) \X SmallInts]
        /\ at' \in [Client -> Entry \cup {Null}]
        /\ AtAgrees'
      BY <2>1, <2>2, <2>3, BeginType
  <2>5. value[EntryOfKey(k)] \in Int
      BY <2>2, HalfIsNat DEF TypeOK, SmallInts
  <2>6. tmp' \in [Client -> Int]
      BY <2>3, <2>5 DEF TypeOK
  <2> QED BY <2>3, <2>4, <2>6 DEF TypeOK, tableVars
<1>5. ASSUME NEW c \in Client, InsertStoreValue(c)
      PROVE  TypeOK' /\ AtAgrees'
  <2>1. /\ value' = [value EXCEPT ![at[c]] = arg[c][2]]
        /\ End(c)
        /\ UNCHANGED <<type, buckets, key, next, allocated, item_count, raced>>
      BY <1>5 DEF InsertStoreValue
  <2>2. arg[c][2] \in SmallInts
      BY DEF TypeOK
  <2>3. value' \in [Entry -> SmallInts]
      BY <2>1, <2>2 DEF TypeOK
  <2> QED BY <2>1, <2>3, EndType DEF TypeOK
<1>6. ASSUME NEW c \in Client, CounterStores(c)
      PROVE  TypeOK' /\ AtAgrees'
  <2>1. /\ value' = [value EXCEPT ![at[c]] = SmallInt(tmp[c] + 1)]
        /\ End(c)
        /\ UNCHANGED <<type, buckets, key, next, allocated, item_count, raced>>
      BY <1>6 DEF CounterStores
  <2>2. tmp[c] + 1 \in Int
      BY DEF TypeOK
  <2>3. SmallInt(tmp[c] + 1) \in SmallInts
      BY <2>2, SmallIntType
  <2>4. value' \in [Entry -> SmallInts]
      BY <2>1, <2>3 DEF TypeOK
  <2> QED BY <2>1, <2>4, EndType DEF TypeOK
<1>7. ASSUME NEW c \in Client, InsertLoadHead(c)
      PROVE  TypeOK' /\ AtAgrees'
  <2>1. /\ pc[c] = "load_head"
        /\ next' = [next EXCEPT ![at[c]] = buckets[BucketOf(arg[c][1])]]
        /\ pc' = [pc EXCEPT ![c] = "store_head"]
        /\ UNCHANGED <<type, buckets, key, value, allocated, item_count, arg, at,
                       pred, tmp, ref, raced>>
      BY <1>7 DEF InsertLoadHead
  <2>2. BucketOf(arg[c][1]) \in Bucket
      BY <2>1, EtsAssumption DEF AtAgrees
  <2>3. next' \in [Entry -> Entry \cup {Null}]
      BY <2>1, <2>2 DEF TypeOK
  <2>4. pc' \in [Client -> Stages] /\ AtAgrees'
    <3>1. "store_head" \in Stages /\ pc[c] # "idle"
        BY <2>1 DEF Stages
    <3> QED BY <2>1, <3>1, MoveType
  <2> QED BY <2>1, <2>3, <2>4 DEF TypeOK
<1>8. ASSUME NEW c \in Client, InsertStoreHead(c)
      PROVE  TypeOK' /\ AtAgrees'
  <2>1. /\ pc[c] = "store_head"
        /\ buckets' = [buckets EXCEPT ![BucketOf(arg[c][1])] = at[c]]
        /\ LoadCount(c)
        /\ pc' = [pc EXCEPT ![c] = "count_up"]
        /\ UNCHANGED <<type, key, value, next, allocated, item_count, arg, at, pred>>
      BY <1>8 DEF InsertStoreHead
  <2>2. buckets' \in [Bucket -> Entry \cup {Null}]
      BY <2>1 DEF TypeOK
  <2>3. pc' \in [Client -> Stages] /\ AtAgrees'
    <3>1. "count_up" \in Stages /\ pc[c] # "idle"
        BY <2>1 DEF Stages
    <3> QED BY <2>1, <3>1, MoveType
  <2>4. tmp' \in [Client -> Int] /\ raced' \in BOOLEAN
      BY <2>1, LoadCountType
  <2> QED BY <2>1, <2>2, <2>3, <2>4 DEF TypeOK
<1>9. ASSUME NEW c \in Client, InsertStoreCount(c)
      PROVE  TypeOK' /\ AtAgrees'
  <2>1. /\ item_count' = (tmp[c] + 1) % 2 ^ CountBits
        /\ End(c)
        /\ UNCHANGED <<type, buckets, key, value, next, allocated, ref, raced>>
      BY <1>9 DEF InsertStoreCount
  <2>2. tmp[c] \in Int
      BY DEF TypeOK
  <2>3. item_count' \in 0 .. 2 ^ CountBits - 1
      BY <2>1, <2>2, CountRange
  <2> QED BY <2>1, <2>3, EndType DEF TypeOK
<1>10. ASSUME NEW c \in Client, DeleteUnlink(c)
      PROVE  TypeOK' /\ AtAgrees'
  <2>1. /\ pc[c] = "unlink"
        /\ FreeEntry(c)
        /\ LoadCount(c)
        /\ pc' = [pc EXCEPT ![c] = "count_down"]
        /\ UNCHANGED <<type, item_count, arg, at, pred>>
      BY <1>10 DEF DeleteUnlink
  <2>2. next[at[c]] \in Entry \cup {Null}
      BY <2>1 DEF AtAgrees, TypeOK
  <2>3. /\ buckets' \in [Bucket -> Entry \cup {Null}]
        /\ next' \in [Entry -> Entry \cup {Null}]
    <3>1. CASE pred[c] = Null
        BY <1>10, <2>2, <3>1 DEF DeleteUnlink, TypeOK
    <3>2. CASE pred[c] # Null
        BY <1>10, <2>2, <3>2 DEF DeleteUnlink, TypeOK
    <3> QED BY <3>1, <3>2
  <2>4. /\ allocated' \subseteq Entry
        /\ key' \in [Entry -> Key \cup {Null}]
        /\ value' \in [Entry -> SmallInts]
      BY <2>1, EtsAssumption DEF FreeEntry, TypeOK
  <2>5. pc' \in [Client -> Stages] /\ AtAgrees'
    <3>1. "count_down" \in Stages /\ pc[c] # "idle"
        BY <2>1 DEF Stages
    <3> QED BY <2>1, <3>1, MoveType
  <2>6. tmp' \in [Client -> Int] /\ raced' \in BOOLEAN
      BY <2>1, LoadCountType
  <2> QED BY <2>1, <2>3, <2>4, <2>5, <2>6 DEF TypeOK
<1>11. ASSUME NEW c \in Client, DeleteStoreCount(c)
      PROVE  TypeOK' /\ AtAgrees'
  <2>1. /\ item_count' = (tmp[c] - 1) % 2 ^ CountBits
        /\ End(c)
        /\ UNCHANGED <<type, buckets, key, value, next, allocated, ref, raced>>
      BY <1>11 DEF DeleteStoreCount
  <2>2. tmp[c] \in Int
      BY DEF TypeOK
  <2>3. item_count' \in 0 .. 2 ^ CountBits - 1
      BY <2>1, <2>2, CountRange
  <2> QED BY <2>1, <2>3, EndType DEF TypeOK
<1> QED BY <1>0, <1>1, <1>2, <1>3, <1>4, <1>5, <1>6, <1>7, <1>8, <1>9, <1>10, <1>11
        DEF Next, Operate, Continue

LEMMA TypeInit == Init => TypeOK /\ AtAgrees
<1> SUFFICES ASSUME Init
             PROVE  TypeOK /\ AtAgrees
    OBVIOUS
<1>1. 0 \in SmallInts /\ 0 \in 0 .. 2 ^ CountBits - 1
    BY EtsAssumption, CountRange
<1>2. <<Null, 0>> \in (Key \cup {Null}) \X SmallInts
    BY <1>1
<1>3. pc \in [Client -> Stages]
    BY DEF Init, Stages
<1>4. arg \in [Client -> (Key \cup {Null}) \X SmallInts]
    BY <1>2 DEF Init
<1>5. /\ buckets \in [Bucket -> Entry \cup {Null}] /\ key \in [Entry -> Key \cup {Null}]
      /\ value \in [Entry -> SmallInts] /\ next \in [Entry -> Entry \cup {Null}]
      /\ at \in [Client -> Entry \cup {Null}] /\ pred \in [Client -> Entry \cup {Null}]
      /\ tmp \in [Client -> Int]
    BY <1>1 DEF Init
<1>6. type \in TableTypes /\ allocated \subseteq Entry /\ raced \in BOOLEAN
    BY DEF Init
<1>7. item_count \in 0 .. 2 ^ CountBits - 1
    BY <1>1 DEF Init
<1>8. TypeOK
    BY <1>3, <1>4, <1>5, <1>6, <1>7 DEF TypeOK
<1> QED BY <1>8 DEF Init, AtAgrees

(***************************************************************************)
(* Every reachable state of a table is well typed, also when clients race  *)
(* in one bucket: no link leads out of memory, integers keep their bits    *)
(* and the count its width (ets.c:61-164).                                 *)
(***************************************************************************)
THEOREM TypeCorrect == Spec => []TypeOK
<1>1. TypeOK /\ AtAgrees /\ [Next]_vars => (TypeOK /\ AtAgrees)'
    BY TypeStep
<1> QED BY <1>1, TypeInit, PTL DEF Spec

-----------------------------------------------------------------------------
\* What the operations do to a path

LEMMA PathFrame ==
    ASSUME NEW head, NEW link, NEW path, IsPath(head, link, path), NEW other,
           \A i \in 1 .. Len(path) : other[path[i]] = link[path[i]]
    PROVE  IsPath(head, other, path)
BY DEF IsPath

\* entry->next = buckets[idx]; buckets[idx] = entry.
LEMMA PathPush ==
    ASSUME NEW head, NEW link, NEW path, IsPath(head, link, path),
           NEW e \in Entry, link[e] = head, \A i \in 1 .. Len(path) : path[i] # e
    PROVE  IsPath(e, link, <<e>> \o path)
<1> DEFINE new == <<e>> \o path
<1>1. path \in Seq(Entry) /\ Len(path) \in Nat
    BY DEF IsPath
<1>2. /\ new \in Seq(Entry) /\ Len(new) = Len(path) + 1 /\ new[1] = e
      /\ \A i \in 2 .. Len(path) + 1 : new[i] = path[i - 1]
    BY <1>1, PushElement
<1> HIDE DEF new
<1>3. ASSUME NEW i \in 1 .. Len(new), NEW j \in 1 .. Len(new), new[i] = new[j]
      PROVE  i = j
  <2>1. \A m \in 1 .. Len(new) : m # 1 => m - 1 \in 1 .. Len(path)
      BY <1>1, <1>2
  <2>2. \A m, n \in 1 .. Len(path) : path[m] = path[n] => m = n
      BY DEF IsPath
  <2>3. CASE i = 1 \/ j = 1
      BY <1>1, <1>2, <1>3, <2>1, <2>3
  <2>4. CASE i # 1 /\ j # 1
    <3>1. path[i - 1] = path[j - 1]
        BY <1>1, <1>2, <1>3, <2>4
    <3>2. i - 1 = j - 1
        BY <2>1, <2>2, <2>4, <3>1
    <3> QED BY <1>2, <3>2
  <2> QED BY <2>3, <2>4
<1>4. ASSUME NEW i \in 1 .. Len(new)
      PROVE  link[new[i]] = IF i = Len(new) THEN Null ELSE new[i + 1]
  <2>1. CASE i = 1
      BY <1>1, <1>2, <2>1 DEF IsPath
  <2>2. CASE i # 1
    <3>1. i - 1 \in 1 .. Len(path) /\ new[i] = path[i - 1]
        BY <1>1, <1>2, <2>2
    <3>2. i # Len(new) => new[i + 1] = path[i]
        BY <1>1, <1>2, <2>2
    <3> QED BY <1>1, <1>2, <3>1, <3>2 DEF IsPath
  <2> QED BY <2>1, <2>2
<1>5. e = IF Len(new) = 0 THEN Null ELSE new[1]
    BY <1>1, <1>2
<1>6. IsPath(e, link, new)
    BY <1>2, <1>3, <1>4, <1>5 DEF IsPath
<1> QED BY <1>6 DEF new

Drop(seq, k) == SubSeq(seq, 1, k - 1) \o SubSeq(seq, k + 1, Len(seq))

LEMMA DropFacts ==
    ASSUME NEW S, NEW seq \in Seq(S), NEW k \in 1 .. Len(seq)
    PROVE  /\ Drop(seq, k) \in Seq(S)
           /\ Len(Drop(seq, k)) = Len(seq) - 1
           /\ \A j \in 1 .. Len(seq) - 1 :
                 Drop(seq, k)[j] = IF j < k THEN seq[j] ELSE seq[j + 1]
BY DropElement DEF Drop

\* *curr = to_free->next, where curr is the bucket or the entry before.
Unlinks(head, link, path, k, newHead, other) ==
    /\ k = 1 => /\ newHead = link[path[k]]
                /\ other = [link EXCEPT ![path[k]] = Null]
    /\ k # 1 => /\ newHead = head
                /\ other = [link EXCEPT ![path[k - 1]] = link[path[k]],
                                        ![path[k]] = Null]

LEMMA PathDrop ==
    ASSUME NEW head, NEW link \in [Entry -> Entry \cup {Null}], NEW path,
           IsPath(head, link, path), NEW k \in 1 .. Len(path), NEW newHead, NEW other,
           Unlinks(head, link, path, k, newHead, other)
    PROVE  IsPath(newHead, other, Drop(path, k))
<1> DEFINE new == Drop(path, k)
<1>1. path \in Seq(Entry) /\ Len(path) \in Nat
    BY DEF IsPath
<1>2. /\ new \in Seq(Entry) /\ Len(new) = Len(path) - 1
      /\ \A j \in 1 .. Len(path) - 1 : new[j] = IF j < k THEN path[j] ELSE path[j + 1]
    BY <1>1, DropFacts
<1> HIDE DEF new
<1>3. /\ \A i \in 1 .. Len(path) : path[i] \in Entry
      /\ \A i, j \in 1 .. Len(path) : path[i] = path[j] => i = j
      /\ head = IF Len(path) = 0 THEN Null ELSE path[1]
      /\ \A i \in 1 .. Len(path) :
            link[path[i]] = IF i = Len(path) THEN Null ELSE path[i + 1]
    BY DEF IsPath
<1>4. ASSUME NEW i \in 1 .. Len(new), NEW j \in 1 .. Len(new), new[i] = new[j]
      PROVE  i = j
  <2>1. PICK m \in 1 .. Len(path) : new[i] = path[m] /\ m = IF i < k THEN i ELSE i + 1
      BY <1>1, <1>2
  <2>2. PICK n \in 1 .. Len(path) : new[j] = path[n] /\ n = IF j < k THEN j ELSE j + 1
      BY <1>1, <1>2
  <2>3. path[m] = path[n]
      BY <1>4, <2>1, <2>2
  <2>4. m = n
      BY <1>3, <2>3
  <2> QED BY <2>1, <2>2, <2>4
<1>5. \A i \in 1 .. Len(path) :
         other[path[i]] = IF i = k THEN Null
                          ELSE IF i = k - 1 THEN link[path[k]] ELSE link[path[i]]
  <2>1. CASE k = 1
      BY <1>3, <2>1 DEF Unlinks
  <2>2. CASE k # 1
    <3>1. k - 1 \in 1 .. Len(path) /\ path[k - 1] # path[k]
        BY <1>1, <1>3, <2>2
    <3> QED BY <1>3, <2>2, <3>1 DEF Unlinks
  <2> QED BY <2>1, <2>2
<1>6. ASSUME NEW i \in 1 .. Len(new)
      PROVE  other[new[i]] = IF i = Len(new) THEN Null ELSE new[i + 1]
  <2>1. CASE i < k - 1
    <3>1. i \in 1 .. Len(path) /\ new[i] = path[i] /\ i # Len(new)
        BY <1>1, <1>2, <2>1
    <3>2. new[i + 1] = path[i + 1] /\ i # Len(path)
        BY <1>1, <1>2, <2>1
    <3> QED BY <1>3, <1>5, <2>1, <3>1, <3>2
  <2>2. CASE i = k - 1
    <3>1. i \in 1 .. Len(path) /\ new[i] = path[i]
        BY <1>1, <1>2, <2>2
    <3>2. other[new[i]] = link[path[k]]
        BY <1>5, <2>2, <3>1
    <3>3. i # Len(new) => new[i + 1] = path[k + 1] /\ k # Len(path)
        BY <1>1, <1>2, <2>2
    <3>4. i = Len(new) => k = Len(path)
        BY <1>1, <1>2, <2>2
    <3> QED BY <1>3, <3>2, <3>3, <3>4
  <2>3. CASE i >= k
    <3>1. i + 1 \in 1 .. Len(path) /\ new[i] = path[i + 1]
        BY <1>1, <1>2, <2>3
    <3>2. other[new[i]] = link[path[i + 1]]
        BY <1>5, <2>3, <3>1
    <3>3. i # Len(new) => new[i + 1] = path[i + 2] /\ i + 1 # Len(path)
        BY <1>1, <1>2, <2>3
    <3> QED BY <1>1, <1>2, <1>3, <3>1, <3>2, <3>3
  <2> QED BY <1>1, <1>2, <2>1, <2>2, <2>3
<1>7. newHead = IF Len(new) = 0 THEN Null ELSE new[1]
  <2>1. CASE k = 1
      BY <1>1, <1>2, <1>3, <2>1 DEF Unlinks
  <2>2. CASE k # 1
      BY <1>1, <1>2, <1>3, <2>2 DEF Unlinks
  <2> QED BY <2>1, <2>2
<1>8. IsPath(newHead, other, new)
    BY <1>2, <1>4, <1>6, <1>7 DEF IsPath
<1> QED BY <1>8 DEF new

-----------------------------------------------------------------------------
\* What the operations do to the values of a key

\* f gives the places of k's entries in the chain, in their order.
Listing(f, chain, keyOf, valueOf, k, values) ==
    /\ f \in [1 .. Len(values) -> DOMAIN chain]
    /\ \A i, j \in 1 .. Len(values) : i < j => f[i] < f[j]
    /\ \A p \in DOMAIN chain :
          keyOf[chain[p]] = k <=> \E i \in 1 .. Len(values) : f[i] = p
    /\ \A i \in 1 .. Len(values) : valueOf[chain[f[i]]] = values[i]

LEMMA ListsByListing ==
    ASSUME NEW chain, NEW keyOf, NEW valueOf, NEW k, NEW values
    PROVE  Lists(chain, keyOf, valueOf, k, values)
              <=> \E f : Listing(f, chain, keyOf, valueOf, k, values)
BY DEF Lists, Listing

LEMMA ListsFrame ==
    ASSUME NEW chain, NEW keyOf, NEW valueOf, NEW k, NEW values, NEW keyOf2, NEW valueOf2,
           Lists(chain, keyOf, valueOf, k, values),
           \A p \in DOMAIN chain :
              /\ keyOf2[chain[p]] = k <=> keyOf[chain[p]] = k
              /\ keyOf[chain[p]] = k => valueOf2[chain[p]] = valueOf[chain[p]]
    PROVE  Lists(chain, keyOf2, valueOf2, k, values)
<1>1. PICK f : Listing(f, chain, keyOf, valueOf, k, values)
    BY ListsByListing
<1>2. \A i \in 1 .. Len(values) : f[i] \in DOMAIN chain /\ keyOf[chain[f[i]]] = k
    BY <1>1 DEF Listing
<1>3. Listing(f, chain, keyOf2, valueOf2, k, values)
    BY <1>1, <1>2 DEF Listing
<1> QED BY <1>3, ListsByListing

\* A key has no values exactly when it has no place in the chain.
LEMMA ListsEmpty ==
    ASSUME NEW chain, NEW keyOf, NEW valueOf, NEW k, NEW values \in Seq(SmallInts),
           Lists(chain, keyOf, valueOf, k, values)
    PROVE  values = << >> <=> \A p \in DOMAIN chain : keyOf[chain[p]] # k
<1>1. Len(values) \in Nat /\ (values = << >> <=> Len(values) = 0)
    OBVIOUS
<1>2. PICK f : Listing(f, chain, keyOf, valueOf, k, values)
    BY ListsByListing
<1>3. CASE Len(values) = 0
    BY <1>1, <1>2, <1>3 DEF Listing
<1>4. CASE Len(values) # 0
  <2>1. 1 \in 1 .. Len(values)
      BY <1>1, <1>4
  <2> QED BY <1>1, <1>2, <1>4, <2>1 DEF Listing
<1> QED BY <1>3, <1>4

\* The first place of a key in a chain.
IsFirst(p, chain, keyOf, k) ==
    /\ p \in DOMAIN chain
    /\ keyOf[chain[p]] = k
    /\ \A q \in DOMAIN chain : keyOf[chain[q]] = k => p <= q

\* The first of the values is the one at the first place, which is where a
\* lookup stops.
LEMMA ListsFirst ==
    ASSUME NEW chain \in Seq(Entry), NEW keyOf, NEW valueOf, NEW k,
           NEW values \in Seq(SmallInts), NEW f,
           Listing(f, chain, keyOf, valueOf, k, values),
           NEW p, IsFirst(p, chain, keyOf, k)
    PROVE  /\ Len(values) \in Nat \ {0}
           /\ f[1] = p
           /\ valueOf[chain[p]] = values[1]
           /\ \A i \in 2 .. Len(values) : f[i] > p
<1>1. /\ p \in DOMAIN chain /\ keyOf[chain[p]] = k
      /\ \A q \in DOMAIN chain : keyOf[chain[q]] = k => p <= q
      /\ Len(values) \in Nat
    BY DEF IsFirst
<1>2. PICK i \in 1 .. Len(values) : f[i] = p
    BY <1>1 DEF Listing
<1>3. 1 \in 1 .. Len(values) /\ Len(values) \in Nat \ {0}
    BY <1>1, <1>2
<1>4. f[1] \in DOMAIN chain /\ keyOf[chain[f[1]]] = k
    BY <1>3 DEF Listing
<1>5. p <= f[1]
    BY <1>1, <1>4
<1>6. f[1] = p
  <2>1. CASE i = 1
      BY <1>2, <2>1
  <2>2. CASE i # 1
    <3>1. f[1] < f[i]
        BY <1>1, <1>3, <2>2 DEF Listing
    <3>2. f[1] \in Nat /\ p \in Nat
        BY <1>1, <1>4
    <3> QED BY <1>2, <1>5, <3>1, <3>2
  <2> QED BY <2>1, <2>2
<1>7. \A j \in 2 .. Len(values) : f[j] > p
  <2>1. \A j \in 2 .. Len(values) : j \in 1 .. Len(values) /\ 1 < j
      BY <1>1
  <2>2. \A j \in 2 .. Len(values) : f[1] < f[j]
      BY <1>3, <2>1 DEF Listing
  <2>3. DOMAIN chain \subseteq Nat
      OBVIOUS
  <2>4. \A j \in 2 .. Len(values) : f[j] \in DOMAIN chain
      BY <2>1 DEF Listing
  <2> QED BY <1>1, <1>6, <2>2, <2>3, <2>4
<1>8. valueOf[chain[p]] = values[1]
    BY <1>3, <1>6 DEF Listing
<1> QED BY <1>3, <1>6, <1>7, <1>8

\* A new entry of the key comes first among its values.
LEMMA ListsPush ==
    ASSUME NEW chain \in Seq(Entry), NEW keyOf, NEW valueOf, NEW k,
           NEW values \in Seq(SmallInts), Lists(chain, keyOf, valueOf, k, values),
           NEW e \in Entry, keyOf[e] = k, valueOf[e] \in SmallInts
    PROVE  Lists(<<e>> \o chain, keyOf, valueOf, k, <<valueOf[e]>> \o values)
<1> DEFINE new == <<e>> \o chain
           all == <<valueOf[e]>> \o values
<1>1. PICK f : Listing(f, chain, keyOf, valueOf, k, values)
    BY ListsByListing
<1>2. /\ new \in Seq(Entry) /\ Len(new) = Len(chain) + 1 /\ new[1] = e
      /\ \A i \in 1 .. Len(chain) : new[i + 1] = chain[i]
      /\ \A i \in 2 .. Len(chain) + 1 : new[i] = chain[i - 1]
    BY PushElement
<1>3. /\ all \in Seq(SmallInts) /\ Len(all) = Len(values) + 1 /\ all[1] = valueOf[e]
      /\ \A i \in 2 .. Len(values) + 1 : all[i] = values[i - 1]
    BY PushElement
<1>4. /\ Len(chain) \in Nat /\ DOMAIN chain = 1 .. Len(chain)
      /\ Len(values) \in Nat /\ DOMAIN new = 1 .. Len(chain) + 1
    BY <1>2
<1> HIDE DEF new, all
<1> DEFINE g == [i \in 1 .. Len(all) |-> IF i = 1 THEN 1 ELSE f[i - 1] + 1]
<1>5. \A i \in 1 .. Len(values) : f[i] \in 1 .. Len(chain)
    BY <1>1, <1>4 DEF Listing
<1>6. \A i \in 1 .. Len(all) : i # 1 => i - 1 \in 1 .. Len(values) /\ f[i - 1] \in 1 .. Len(chain)
    BY <1>3, <1>4, <1>5
<1>7. g \in [1 .. Len(all) -> DOMAIN new]
    BY <1>3, <1>4, <1>6
<1>8. ASSUME NEW i \in 1 .. Len(all), NEW j \in 1 .. Len(all), i < j
      PROVE  g[i] < g[j]
  <2>1. j # 1 /\ g[j] = f[j - 1] + 1 /\ f[j - 1] \in 1 .. Len(chain)
      BY <1>3, <1>4, <1>6, <1>8
  <2>2. CASE i = 1
      BY <1>4, <2>1, <2>2
  <2>3. CASE i # 1
    <3>1. /\ i - 1 \in 1 .. Len(values) /\ j - 1 \in 1 .. Len(values) /\ i - 1 < j - 1
          /\ f[i - 1] \in 1 .. Len(chain) /\ g[i] = f[i - 1] + 1
        BY <1>3, <1>4, <1>6, <1>8, <2>1, <2>3
    <3>2. f[i - 1] < f[j - 1]
        BY <1>1, <3>1 DEF Listing
    <3> QED BY <1>4, <2>1, <3>1, <3>2
  <2> QED BY <2>2, <2>3
<1>9. ASSUME NEW p \in DOMAIN new
      PROVE  keyOf[new[p]] = k <=> \E i \in 1 .. Len(all) : g[i] = p
  <2>1. CASE p = 1
    <3>1. 1 \in 1 .. Len(all) /\ g[1] = 1
        BY <1>3, <1>4
    <3> QED BY <1>2, <2>1, <3>1
  <2>2. CASE p # 1
    <3>1. p - 1 \in 1 .. Len(chain) /\ new[p] = chain[p - 1]
        BY <1>2, <1>4, <2>2
    <3>2. keyOf[new[p]] = k <=> \E i \in 1 .. Len(values) : f[i] = p - 1
        BY <1>1, <1>4, <3>1 DEF Listing
    <3>3. ASSUME NEW i \in 1 .. Len(values), f[i] = p - 1
          PROVE  \E j \in 1 .. Len(all) : g[j] = p
      <4>1. i + 1 \in 1 .. Len(all) /\ i + 1 # 1 /\ (i + 1) - 1 = i
          BY <1>3, <1>4
      <4>2. g[i + 1] = f[i] + 1
          BY <4>1
      <4>3. f[i] + 1 = p
          BY <1>4, <3>3
      <4> QED BY <4>1, <4>2, <4>3
    <3>4. ASSUME NEW i \in 1 .. Len(all), g[i] = p
          PROVE  \E j \in 1 .. Len(values) : f[j] = p - 1
      <4>1. i # 1 /\ g[i] = f[i - 1] + 1
          BY <2>2, <3>4
      <4> QED BY <1>4, <1>6, <3>4, <4>1
    <3> QED BY <3>2, <3>3, <3>4
  <2> QED BY <2>1, <2>2
<1>10. ASSUME NEW i \in 1 .. Len(all)
       PROVE  valueOf[new[g[i]]] = all[i]
  <2>1. CASE i = 1
      BY <1>2, <1>3, <2>1
  <2>2. CASE i # 1
    <3>1. i - 1 \in 1 .. Len(values) /\ f[i - 1] \in 1 .. Len(chain) /\ g[i] = f[i - 1] + 1
        BY <1>6, <2>2
    <3>2. new[g[i]] = chain[f[i - 1]]
        BY <1>2, <3>1
    <3>3. valueOf[chain[f[i - 1]]] = values[i - 1]
        BY <1>1, <3>1 DEF Listing
    <3>4. all[i] = values[i - 1]
        BY <1>3, <1>4, <2>2
    <3> QED BY <3>2, <3>3, <3>4
  <2> QED BY <2>1, <2>2
<1> HIDE DEF g
<1>11. Listing(g, new, keyOf, valueOf, k, all)
    BY <1>7, <1>8, <1>9, <1>10 DEF Listing
<1> QED BY <1>11, ListsByListing DEF new, all

\* A new entry of another key changes nothing for this one.
LEMMA ListsPushOther ==
    ASSUME NEW chain \in Seq(Entry), NEW keyOf, NEW valueOf, NEW k,
           NEW values \in Seq(SmallInts), Lists(chain, keyOf, valueOf, k, values),
           NEW e \in Entry, keyOf[e] # k
    PROVE  Lists(<<e>> \o chain, keyOf, valueOf, k, values)
<1> DEFINE new == <<e>> \o chain
<1>1. PICK f : Listing(f, chain, keyOf, valueOf, k, values)
    BY ListsByListing
<1>2. /\ new \in Seq(Entry) /\ Len(new) = Len(chain) + 1 /\ new[1] = e
      /\ \A i \in 1 .. Len(chain) : new[i + 1] = chain[i]
      /\ \A i \in 2 .. Len(chain) + 1 : new[i] = chain[i - 1]
    BY PushElement
<1>3. /\ Len(chain) \in Nat /\ DOMAIN chain = 1 .. Len(chain)
      /\ Len(values) \in Nat /\ DOMAIN new = 1 .. Len(chain) + 1
    BY <1>2
<1> HIDE DEF new
<1> DEFINE g == [i \in 1 .. Len(values) |-> f[i] + 1]
<1>4. \A i \in 1 .. Len(values) : f[i] \in 1 .. Len(chain)
    BY <1>1, <1>3 DEF Listing
<1>5. g \in [1 .. Len(values) -> DOMAIN new]
    BY <1>3, <1>4
<1>6. ASSUME NEW i \in 1 .. Len(values), NEW j \in 1 .. Len(values), i < j
      PROVE  g[i] < g[j]
  <2>1. f[i] < f[j]
      BY <1>1, <1>6 DEF Listing
  <2> QED BY <1>3, <1>4, <2>1
<1>7. ASSUME NEW p \in DOMAIN new
      PROVE  keyOf[new[p]] = k <=> \E i \in 1 .. Len(values) : g[i] = p
  <2>1. CASE p = 1
    <3>1. \A i \in 1 .. Len(values) : g[i] # 1
        BY <1>3, <1>4
    <3> QED BY <1>2, <2>1, <3>1
  <2>2. CASE p # 1
    <3>1. p - 1 \in 1 .. Len(chain) /\ new[p] = chain[p - 1]
        BY <1>2, <1>3, <2>2
    <3>2. keyOf[new[p]] = k <=> \E i \in 1 .. Len(values) : f[i] = p - 1
        BY <1>1, <1>3, <3>1 DEF Listing
    <3>3. \A i \in 1 .. Len(values) : f[i] = p - 1 <=> g[i] = p
        BY <1>3, <1>4
    <3> QED BY <3>2, <3>3
  <2> QED BY <2>1, <2>2
<1>8. ASSUME NEW i \in 1 .. Len(values)
      PROVE  valueOf[new[g[i]]] = values[i]
  <2>1. new[g[i]] = chain[f[i]]
      BY <1>2, <1>4
  <2> QED BY <1>1, <2>1 DEF Listing
<1> HIDE DEF g
<1>9. Listing(g, new, keyOf, valueOf, k, values)
    BY <1>5, <1>6, <1>7, <1>8 DEF Listing
<1> QED BY <1>9, ListsByListing DEF new

\* Deleting the first entry of the key deletes the first of its values.
LEMMA ListsDrop ==
    ASSUME NEW chain \in Seq(Entry), NEW keyOf, NEW valueOf, NEW k,
           NEW values \in Seq(SmallInts), Lists(chain, keyOf, valueOf, k, values),
           NEW p, IsFirst(p, chain, keyOf, k)
    PROVE  Lists(Drop(chain, p), keyOf, valueOf, k, Tail(values))
<1> DEFINE rest == Drop(chain, p)
<1>1. PICK f : Listing(f, chain, keyOf, valueOf, k, values)
    BY ListsByListing
<1>2. /\ Len(values) \in Nat \ {0}
      /\ f[1] = p
      /\ valueOf[chain[p]] = values[1]
      /\ \A i \in 2 .. Len(values) : f[i] > p
    BY <1>1, ListsFirst, Zenon
<1>3. /\ Len(chain) \in Nat /\ DOMAIN chain = 1 .. Len(chain) /\ p \in 1 .. Len(chain)
      /\ \A q \in DOMAIN chain : keyOf[chain[q]] = k => p <= q
    BY DEF IsFirst
<1>4. /\ rest \in Seq(Entry) /\ Len(rest) = Len(chain) - 1
      /\ \A j \in 1 .. Len(chain) - 1 : rest[j] = IF j < p THEN chain[j] ELSE chain[j + 1]
    BY <1>3, DropFacts
<1>5. /\ Len(Tail(values)) = Len(values) - 1
      /\ \A i \in 1 .. Len(values) - 1 : Tail(values)[i] = values[i + 1]
    BY <1>2
<1>6. DOMAIN rest = 1 .. Len(chain) - 1
    BY <1>4
<1> HIDE DEF rest
<1> DEFINE n == Len(values) - 1
           g == [i \in 1 .. n |-> f[i + 1] - 1]
<1>7. \A i \in 1 .. n : /\ i + 1 \in 2 .. Len(values) /\ i + 1 \in 1 .. Len(values)
                        /\ f[i + 1] \in 1 .. Len(chain) /\ f[i + 1] > p
  <2>1. \A i \in 1 .. n : i + 1 \in 2 .. Len(values) /\ i + 1 \in 1 .. Len(values)
      BY <1>2
  <2>2. \A i \in 1 .. Len(values) : f[i] \in 1 .. Len(chain)
      BY <1>1, <1>3 DEF Listing
  <2> QED BY <1>2, <2>1, <2>2
<1>8. \A i \in 1 .. n : f[i + 1] - 1 \in 1 .. Len(chain) - 1 /\ ~(f[i + 1] - 1 < p)
  <2> SUFFICES ASSUME NEW i \in 1 .. n
               PROVE  f[i + 1] - 1 \in 1 .. Len(chain) - 1 /\ ~(f[i + 1] - 1 < p)
      OBVIOUS
  <2>1. f[i + 1] \in 1 .. Len(chain) /\ f[i + 1] > p
      BY <1>7
  <2> HIDE DEF n
  <2> QED BY <1>3, <2>1
<1>9. g \in [1 .. n -> DOMAIN rest]
    BY <1>6, <1>8
<1>10. ASSUME NEW i \in 1 .. n, NEW j \in 1 .. n, i < j
       PROVE  g[i] < g[j]
  <2>1. f[i + 1] < f[j + 1]
      BY <1>1, <1>7, <1>10 DEF Listing
  <2> QED BY <1>3, <1>7, <2>1
<1>11. ASSUME NEW i \in 1 .. n
       PROVE  /\ rest[g[i]] = chain[f[i + 1]]
              /\ valueOf[rest[g[i]]] = Tail(values)[i]
              /\ keyOf[rest[g[i]]] = k
  <2>1. g[i] = f[i + 1] - 1
      OBVIOUS
  <2>2. rest[g[i]] = chain[(f[i + 1] - 1) + 1]
      BY <1>4, <1>8, <2>1
  <2>3. (f[i + 1] - 1) + 1 = f[i + 1]
      BY <1>7
  <2>4. valueOf[chain[f[i + 1]]] = values[i + 1] /\ keyOf[chain[f[i + 1]]] = k
      BY <1>1, <1>3, <1>7 DEF Listing
  <2> QED BY <1>5, <2>2, <2>3, <2>4
<1>12. ASSUME NEW q \in DOMAIN rest, keyOf[rest[q]] = k
       PROVE  \E i \in 1 .. n : g[i] = q
  <2>1. ~(q < p)
      BY <1>3, <1>4, <1>6, <1>12
  <2>2. q + 1 \in 1 .. Len(chain) /\ rest[q] = chain[q + 1]
      BY <1>3, <1>4, <1>6, <2>1
  <2>3. PICK j \in 1 .. Len(values) : f[j] = q + 1
      BY <1>1, <1>3, <1>12, <2>2 DEF Listing
  <2>4. j # 1
      BY <1>2, <1>3, <1>6, <2>1, <2>3
  <2>5. j - 1 \in 1 .. n /\ (j - 1) + 1 = j
      BY <1>2, <2>4
  <2>6. g[j - 1] = q
      BY <1>6, <2>3, <2>5
  <2> QED BY <2>5, <2>6
<1>13. n = Len(Tail(values))
    BY <1>5
<1> HIDE DEF g, n
<1>14. Listing(g, rest, keyOf, valueOf, k, Tail(values))
    BY <1>9, <1>10, <1>11, <1>12, <1>13 DEF Listing
<1> QED BY <1>14, ListsByListing DEF rest

\* Deleting an entry of another key changes nothing for this one.
LEMMA ListsDropOther ==
    ASSUME NEW chain \in Seq(Entry), NEW keyOf, NEW valueOf, NEW k,
           NEW values \in Seq(SmallInts), Lists(chain, keyOf, valueOf, k, values),
           NEW p \in DOMAIN chain, keyOf[chain[p]] # k
    PROVE  Lists(Drop(chain, p), keyOf, valueOf, k, values)
<1> DEFINE rest == Drop(chain, p)
<1>1. PICK f : Listing(f, chain, keyOf, valueOf, k, values)
    BY ListsByListing
<1>2. /\ Len(chain) \in Nat /\ DOMAIN chain = 1 .. Len(chain) /\ p \in 1 .. Len(chain)
      /\ Len(values) \in Nat
    OBVIOUS
<1>3. /\ rest \in Seq(Entry) /\ Len(rest) = Len(chain) - 1
      /\ \A j \in 1 .. Len(chain) - 1 : rest[j] = IF j < p THEN chain[j] ELSE chain[j + 1]
    BY <1>2, DropFacts
<1>4. DOMAIN rest = 1 .. Len(chain) - 1
    BY <1>3
<1> HIDE DEF rest
<1> DEFINE g == [i \in 1 .. Len(values) |-> IF f[i] < p THEN f[i] ELSE f[i] - 1]
<1>5. \A i \in 1 .. Len(values) : f[i] \in 1 .. Len(chain) /\ f[i] # p
  <2>1. \A i \in 1 .. Len(values) : f[i] \in 1 .. Len(chain) /\ keyOf[chain[f[i]]] = k
      BY <1>1, <1>2 DEF Listing
  <2> QED BY <2>1
<1>6. \A i \in 1 .. Len(values) : /\ g[i] \in 1 .. Len(chain) - 1
                                  /\ rest[g[i]] = chain[f[i]]
  <2> SUFFICES ASSUME NEW i \in 1 .. Len(values)
               PROVE  g[i] \in 1 .. Len(chain) - 1 /\ rest[g[i]] = chain[f[i]]
      OBVIOUS
  <2>1. CASE f[i] < p
    <3>1. g[i] = f[i] /\ f[i] \in 1 .. Len(chain) - 1
        BY <1>2, <1>5, <2>1
    <3> QED BY <1>3, <2>1, <3>1
  <2>2. CASE ~(f[i] < p)
    <3>1. /\ g[i] = f[i] - 1 /\ f[i] - 1 \in 1 .. Len(chain) - 1
          /\ ~(f[i] - 1 < p) /\ (f[i] - 1) + 1 = f[i]
        BY <1>2, <1>5, <2>2
    <3>2. rest[f[i] - 1] = chain[(f[i] - 1) + 1]
        BY <1>3, <3>1
    <3> QED BY <3>1, <3>2
  <2> QED BY <2>1, <2>2
<1>7. ASSUME NEW i \in 1 .. Len(values), NEW j \in 1 .. Len(values), i < j
      PROVE  g[i] < g[j]
  <2>1. f[i] < f[j]
      BY <1>1, <1>7 DEF Listing
  <2> QED BY <1>2, <1>5, <2>1
<1>8. ASSUME NEW i \in 1 .. Len(values)
      PROVE  valueOf[rest[g[i]]] = values[i] /\ keyOf[rest[g[i]]] = k
  <2>1. valueOf[chain[f[i]]] = values[i] /\ keyOf[chain[f[i]]] = k
      BY <1>1, <1>2, <1>5 DEF Listing
  <2> QED BY <1>6, <2>1
<1>9. ASSUME NEW q \in DOMAIN rest, keyOf[rest[q]] = k
      PROVE  \E i \in 1 .. Len(values) : g[i] = q
  <2>1. CASE q < p
    <3>1. q \in DOMAIN chain /\ rest[q] = chain[q]
        BY <1>2, <1>3, <1>4, <2>1
    <3>2. PICK i \in 1 .. Len(values) : f[i] = q
        BY <1>1, <1>9, <3>1 DEF Listing
    <3>3. g[i] = q
        BY <2>1, <3>2
    <3> QED BY <3>3
  <2>2. CASE ~(q < p)
    <3>1. q + 1 \in DOMAIN chain /\ rest[q] = chain[q + 1]
        BY <1>2, <1>3, <1>4, <2>2
    <3>2. PICK i \in 1 .. Len(values) : f[i] = q + 1
        BY <1>1, <1>9, <3>1 DEF Listing
    <3>3. ~(f[i] < p) /\ f[i] - 1 = q
        BY <1>2, <1>4, <2>2, <3>2
    <3>4. g[i] = q
        BY <3>3
    <3> QED BY <3>4
  <2> QED BY <2>1, <2>2
<1>10. g \in [1 .. Len(values) -> DOMAIN rest]
    BY <1>4, <1>6
<1> HIDE DEF g
<1>11. Listing(g, rest, keyOf, valueOf, k, values)
    BY <1>7, <1>8, <1>9, <1>10 DEF Listing
<1> QED BY <1>11, ListsByListing DEF rest

\* Storing into the first entry of the key replaces the first of its values.
LEMMA ListsStore ==
    ASSUME NEW chain \in Seq(Entry), NEW keyOf, NEW valueOf \in [Entry -> SmallInts],
           NEW k, NEW values \in Seq(SmallInts), Lists(chain, keyOf, valueOf, k, values),
           NEW p, IsFirst(p, chain, keyOf, k), NEW v \in SmallInts,
           \A i, j \in 1 .. Len(chain) : chain[i] = chain[j] => i = j
    PROVE  Lists(chain, keyOf, [valueOf EXCEPT ![chain[p]] = v], k, <<v>> \o Tail(values))
<1> DEFINE all == <<v>> \o Tail(values)
           stored == [valueOf EXCEPT ![chain[p]] = v]
<1>1. PICK f : Listing(f, chain, keyOf, valueOf, k, values)
    BY ListsByListing
<1>2. /\ Len(values) \in Nat \ {0}
      /\ f[1] = p
      /\ valueOf[chain[p]] = values[1]
      /\ \A i \in 2 .. Len(values) : f[i] > p
    BY <1>1, ListsFirst, Zenon
<1>3. /\ Tail(values) \in Seq(SmallInts) /\ Len(Tail(values)) = Len(values) - 1
      /\ \A i \in 1 .. Len(values) - 1 : Tail(values)[i] = values[i + 1]
    BY <1>2
<1>4. /\ Len(all) = Len(values) /\ all[1] = v
      /\ \A i \in 2 .. Len(values) : all[i] = values[i]
  <2>1. /\ Len(all) = Len(Tail(values)) + 1 /\ all[1] = v
        /\ \A i \in 2 .. Len(Tail(values)) + 1 : all[i] = Tail(values)[i - 1]
      BY <1>3, PushElement
  <2>2. \A i \in 2 .. Len(values) : i - 1 \in 1 .. Len(values) - 1 /\ (i - 1) + 1 = i
      BY <1>2
  <2> HIDE DEF all
  <2> QED BY <1>2, <1>3, <2>1, <2>2
<1> HIDE DEF all
<1>5. ASSUME NEW i \in 1 .. Len(values)
      PROVE  stored[chain[f[i]]] = all[i]
  <2>1. f[i] \in 1 .. Len(chain) /\ chain[f[i]] \in Entry
      BY <1>1 DEF Listing
  <2>2. p \in 1 .. Len(chain)
      BY DEF IsFirst
  <2>3. CASE i = 1
      BY <1>2, <1>4, <2>1, <2>3
  <2>4. CASE i # 1
    <3>1. i \in 2 .. Len(values)
        BY <1>2, <2>4
    <3>2. f[i] # p
        BY <1>2, <2>1, <2>2, <3>1
    <3>3. chain[f[i]] # chain[p]
        BY <2>1, <2>2, <3>2
    <3> QED BY <1>1, <1>4, <2>1, <3>1, <3>3 DEF Listing
  <2> QED BY <2>3, <2>4
<1>6. Listing(f, chain, keyOf, stored, k, all)
    BY <1>1, <1>4, <1>5 DEF Listing
<1> QED BY <1>6, ListsByListing DEF all

-----------------------------------------------------------------------------
(***************************************************************************)
(* The invariant.  Chains are paths of allocated entries, each in the      *)
(* bucket of its key.  An entry that is being inserted is in no chain, is  *)
(* nobody else's, and nothing has happened that would forbid it; an entry  *)
(* that was found is still the first of its key.  What the table lists for *)
(* a key is the history of the operations on it.                           *)
(***************************************************************************)
ChainsArePaths == \A b \in Bucket : IsPath(buckets[b], next, Chain(b))

EntriesInPlace ==
    \A b \in Bucket : \A i \in DOMAIN Chain(b) :
        /\ Chain(b)[i] \in allocated
        /\ key[Chain(b)[i]] \in Key
        /\ BucketOf(key[Chain(b)[i]]) = b

NotChained(e) == \A b \in Bucket : \A i \in DOMAIN Chain(b) : Chain(b)[i] # e

HasNew(c) == pc[c] \in {"load_head", "store_head"}

NewIsReady(c) ==
    /\ at[c] \in allocated
    /\ NotChained(at[c])
    /\ key[at[c]] = arg[c][1]
    /\ value[at[c]] = arg[c][2]
    /\ IsSet => PositionsOf(arg[c][1]) = {}
    /\ ~BagHolds(arg[c][1], arg[c][2])
    /\ pc[c] = "store_head" => next[at[c]] = buckets[BucketOf(arg[c][1])]

NewAgrees == \A c \in Client : HasNew(c) => NewIsReady(c)

NewDiffer == \A c, d \in Client : HasNew(c) /\ HasNew(d) /\ c # d => at[c] # at[d]

HasFound(c) == pc[c] \in {"store_value", "store_counter", "unlink"}

\* The entry before the first of a key.
PredOfKey(k) ==
    IF PosOfKey(k) = 1 THEN Null ELSE Chain(BucketOf(k))[PosOfKey(k) - 1]

FoundIsFirst(c) ==
    /\ PositionsOf(arg[c][1]) # {}
    /\ at[c] = EntryOfKey(arg[c][1])
    /\ pc[c] = "store_value" => IsSet
    /\ pc[c] = "store_counter" => tmp[c] = value[at[c]]
    /\ pc[c] = "unlink" => pred[c] = PredOfKey(arg[c][1])

FoundAgrees == \A c \in Client : HasFound(c) => FoundIsFirst(c)

RefIsListed ==
    /\ ref \in [Key -> Seq(SmallInts)]
    /\ \A k \in Key : Lists(Chain(BucketOf(k)), key, value, k, ref[k])
    /\ IsSet => \A k \in Key : Len(ref[k]) <= 1

EtsInv ==
    /\ TypeOK
    /\ AtAgrees
    /\ ChainsArePaths
    /\ EntriesInPlace
    /\ NewAgrees
    /\ NewDiffer
    /\ FoundAgrees
    /\ RefIsListed

\* While no two updates of the item count overlap, the one that has loaded it
\* has it, and it differs from the number of entries by those whose operation
\* has not counted them yet.
Counting == {"count_up", "count_down"}

Uncounted == {c \in Client : pc[c] \in {"load_head", "store_head", "count_up"}}

Overcounted == {c \in Client : pc[c] = "count_down"}

CountInv ==
    ~raced =>
        /\ \A c, d \in Client : pc[c] \in Counting /\ pc[d] \in Counting => c = d
        /\ \A c \in Client : pc[c] \in Counting => tmp[c] = item_count
        /\ item_count + Cardinality(Uncounted)
              = Cardinality(allocated) + Cardinality(Overcounted)

-----------------------------------------------------------------------------
\* What a step leaves alone

LEMMA ChainFacts ==
    ASSUME ChainsArePaths, EntriesInPlace, NEW b \in Bucket
    PROVE  /\ Chain(b) \in Seq(Entry)
           /\ Len(Chain(b)) \in Nat /\ DOMAIN Chain(b) = 1 .. Len(Chain(b))
           /\ \A i \in DOMAIN Chain(b) : Chain(b)[i] \in Entry
           /\ \A i, j \in DOMAIN Chain(b) : Chain(b)[i] = Chain(b)[j] => i = j
           /\ \A x \in Bucket, i \in DOMAIN Chain(b) : x # b =>
                \A j \in DOMAIN Chain(x) : Chain(x)[j] # Chain(b)[i]
<1>1. /\ Chain(b) \in Seq(Entry)
      /\ \A i, j \in 1 .. Len(Chain(b)) : Chain(b)[i] = Chain(b)[j] => i = j
    BY DEF ChainsArePaths, IsPath
<1>2. /\ Len(Chain(b)) \in Nat /\ DOMAIN Chain(b) = 1 .. Len(Chain(b))
      /\ \A i \in DOMAIN Chain(b) : Chain(b)[i] \in Entry
    BY <1>1
<1>3. ASSUME NEW x \in Bucket, NEW i \in DOMAIN Chain(b), x # b,
             NEW j \in DOMAIN Chain(x), Chain(x)[j] = Chain(b)[i]
      PROVE  FALSE
    BY <1>3 DEF EntriesInPlace
<1> QED BY <1>1, <1>2, <1>3

\* A chain none of whose links a step changes is the same after it.
LEMMA ChainFrame ==
    ASSUME ChainsArePaths, NEW b \in Bucket, buckets'[b] = buckets[b],
           \A i \in DOMAIN Chain(b) : next'[Chain(b)[i]] = next[Chain(b)[i]]
    PROVE  /\ Chain(b)' = Chain(b)
           /\ IsPath(buckets'[b], next', Chain(b))
<1>1. IsPath(buckets[b], next, Chain(b))
    BY DEF ChainsArePaths
<1>2. DOMAIN Chain(b) = 1 .. Len(Chain(b))
    BY <1>1 DEF IsPath
<1>3. IsPath(buckets'[b], next', Chain(b))
    BY <1>1, <1>2, PathFrame
<1>4. ChainFrom(buckets'[b], next') = Chain(b)
    BY <1>3, ChainOfPath
<1> QED BY <1>3, <1>4 DEF Chain

\* A step leaves a chain as it is, and the fields of its entries.
SameChain(b) ==
    /\ buckets'[b] = buckets[b]
    /\ Chain(b)' = Chain(b)
    /\ \A i \in DOMAIN Chain(b) : /\ key'[Chain(b)[i]] = key[Chain(b)[i]]
                                  /\ value'[Chain(b)[i]] = value[Chain(b)[i]]

\* A search finds the same in a chain whose keys are the same.
LEMMA SearchFrame ==
    ASSUME NEW k, Chain(BucketOf(k))' = Chain(BucketOf(k)),
           \A i \in DOMAIN Chain(BucketOf(k)) :
              key'[Chain(BucketOf(k))[i]] = key[Chain(BucketOf(k))[i]]
    PROVE  /\ PositionsOf(k)' = PositionsOf(k)
           /\ PosOfKey(k)' = PosOfKey(k)
           /\ EntryOfKey(k)' = EntryOfKey(k)
           /\ PredOfKey(k)' = PredOfKey(k)
<1>1. PositionsOf(k)' = PositionsOf(k)
    BY DEF PositionsOf
<1>2. PosOfKey(k)' = PosOfKey(k)
    BY <1>1 DEF PosOfKey
<1> QED BY <1>1, <1>2 DEF EntryOfKey, PredOfKey

\* What a search found is the first place of the key.
LEMMA FoundFirst ==
    ASSUME TypeOK, ChainsArePaths, EntriesInPlace, NEW k \in Key, PositionsOf(k) # {}
    PROVE  /\ IsFirst(PosOfKey(k), Chain(BucketOf(k)), key, k)
           /\ EntryOfKey(k) = Chain(BucketOf(k))[PosOfKey(k)]
           /\ EntryOfKey(k) \in allocated
           /\ key[EntryOfKey(k)] = k
<1>1. /\ PosOfKey(k) \in PositionsOf(k)
      /\ \A j \in PositionsOf(k) : PosOfKey(k) <= j
    BY FirstPlace
<1>2. BucketOf(k) \in Bucket
    BY EtsAssumption
<1>3. IsFirst(PosOfKey(k), Chain(BucketOf(k)), key, k)
    BY <1>1 DEF IsFirst, PositionsOf
<1> QED BY <1>2, <1>3 DEF EntryOfKey, IsFirst, EntriesInPlace

\* The clients other than c stay where they are.
OthersKeep(c) ==
    \A d \in Client \ {c} :
        /\ pc'[d] = pc[d] /\ arg'[d] = arg[d] /\ at'[d] = at[d]
        /\ pred'[d] = pred[d] /\ tmp'[d] = tmp[d]

\* A step of c outside the buckets of the others, and away from the entries that
\* they are about to insert, leaves them what they have found.
LEMMA OthersAgree ==
    ASSUME OwnBuckets, EtsInv, NEW c \in Client, NEW k \in KeysOf(c), OthersKeep(c),
           type' = type,
           \A x \in Bucket \ {BucketOf(k)} : SameChain(x),
           \A d \in Client \ {c} : HasNew(d) =>
              /\ at[d] \in allocated'
              /\ key'[at[d]] = key[at[d]]
              /\ value'[at[d]] = value[at[d]]
              /\ next'[at[d]] = next[at[d]]
              /\ \A i \in DOMAIN Chain(BucketOf(k))' : Chain(BucketOf(k))'[i] # at[d]
    PROVE  \A d \in Client \ {c} : /\ HasNew(d)' => NewIsReady(d)'
                                   /\ HasFound(d)' => FoundIsFirst(d)'
<1> SUFFICES ASSUME NEW d \in Client \ {c}, pc[d] # "idle"
             PROVE  /\ HasNew(d)' => NewIsReady(d)'
                    /\ HasFound(d)' => FoundIsFirst(d)'
    BY DEF OthersKeep, HasNew, HasFound
<1>0. PICK l, v : l = arg[d][1] /\ v = arg[d][2]
    OBVIOUS
<1>1. l \in KeysOf(d) /\ l \in Key /\ BucketOf(l) \in Bucket
    BY <1>0, EtsAssumption DEF EtsInv, AtAgrees
<1>2. BucketOf(l) # BucketOf(k)
    BY <1>1 DEF OwnBuckets
<1>3. SameChain(BucketOf(l))
    BY <1>1, <1>2
<1>4. /\ pc'[d] = pc[d] /\ arg'[d] = arg[d] /\ at'[d] = at[d]
      /\ pred'[d] = pred[d] /\ tmp'[d] = tmp[d]
    BY DEF OthersKeep
<1>5. /\ PositionsOf(l)' = PositionsOf(l)
      /\ PosOfKey(l)' = PosOfKey(l)
      /\ EntryOfKey(l)' = EntryOfKey(l)
      /\ PredOfKey(l)' = PredOfKey(l)
    BY <1>3, SearchFrame DEF SameChain
<1>6. IsSet' = IsSet
    BY DEF IsSet
<1>7. ASSUME HasNew(d)'
      PROVE  NewIsReady(d)'
  <2>1. HasNew(d) /\ NewIsReady(d)
      BY <1>4, <1>7 DEF HasNew, EtsInv, NewAgrees
  <2>2. /\ at[d] \in allocated' /\ key'[at[d]] = key[at[d]] /\ value'[at[d]] = value[at[d]]
        /\ next'[at[d]] = next[at[d]]
        /\ \A i \in DOMAIN Chain(BucketOf(k))' : Chain(BucketOf(k))'[i] # at[d]
      BY <2>1
  <2>3. NotChained(at[d])'
    <3> SUFFICES ASSUME NEW x \in Bucket, NEW i \in DOMAIN Chain(x)'
                 PROVE  Chain(x)'[i] # at[d]
        BY <1>4 DEF NotChained
    <3>1. CASE x = BucketOf(k)
        BY <2>2, <3>1
    <3>2. CASE x # BucketOf(k)
        BY <2>1, <3>2 DEF SameChain, NewIsReady, NotChained
    <3> QED BY <3>1, <3>2
  <2>4. ~BagHolds(l, v)'
    <3>1. PositionsOf(l) \subseteq DOMAIN Chain(BucketOf(l))
        BY DEF PositionsOf
    <3>2. ~BagHolds(l, v)
        BY <1>0, <2>1 DEF NewIsReady
    <3> QED BY <1>3, <1>5, <3>1, <3>2 DEF BagHolds, SameChain
  <2>5. pc[d] = "store_head" => next'[at[d]] = buckets'[BucketOf(l)]
      BY <1>0, <1>3, <2>1, <2>2 DEF NewIsReady, SameChain
  <2> QED BY <1>0, <1>4, <1>5, <1>6, <2>1, <2>2, <2>3, <2>4, <2>5 DEF NewIsReady
<1>8. ASSUME HasFound(d)'
      PROVE  FoundIsFirst(d)'
  <2>1. HasFound(d) /\ FoundIsFirst(d)
      BY <1>4, <1>8 DEF HasFound, EtsInv, FoundAgrees
  <2>2. at[d] = EntryOfKey(l) /\ PositionsOf(l) # {}
      BY <1>0, <2>1 DEF FoundIsFirst
  <2>3. at[d] = Chain(BucketOf(l))[PosOfKey(l)] /\ PosOfKey(l) \in DOMAIN Chain(BucketOf(l))
      BY <1>1, <2>2, FoundFirst DEF EtsInv, IsFirst
  <2>4. value'[at[d]] = value[at[d]]
      BY <1>3, <2>3 DEF SameChain
  <2> QED BY <1>0, <1>4, <1>5, <1>6, <2>1, <2>4 DEF FoundIsFirst
<1> QED BY <1>7, <1>8

\* The parts of the invariant that a step keeps which leaves all chains and what
\* is known of them alone.
LEMMA QuietStep ==
    ASSUME EtsInv, type' = type, ref' = ref, UNCHANGED buckets,
           \A b \in Bucket : \A i \in DOMAIN Chain(b) :
              /\ next'[Chain(b)[i]] = next[Chain(b)[i]]
              /\ key'[Chain(b)[i]] = key[Chain(b)[i]]
              /\ value'[Chain(b)[i]] = value[Chain(b)[i]]
              /\ Chain(b)[i] \in allocated'
    PROVE  /\ ChainsArePaths' /\ EntriesInPlace' /\ RefIsListed'
           /\ \A b \in Bucket : SameChain(b)
<1>1. \A b \in Bucket : Chain(b)' = Chain(b) /\ IsPath(buckets'[b], next', Chain(b))
    BY ChainFrame DEF EtsInv
<1>2. ChainsArePaths'
    BY <1>1 DEF ChainsArePaths
<1>3. EntriesInPlace'
    BY <1>1 DEF EtsInv, EntriesInPlace
<1>4. \A b \in Bucket : SameChain(b)
    BY <1>1 DEF SameChain
<1>5. ASSUME NEW k \in Key
      PROVE  Lists(Chain(BucketOf(k))', key', value', k, ref'[k])
  <2>1. BucketOf(k) \in Bucket
      BY EtsAssumption
  <2>2. Lists(Chain(BucketOf(k)), key, value, k, ref[k])
      BY DEF EtsInv, RefIsListed
  <2>3. Lists(Chain(BucketOf(k)), key', value', k, ref[k])
      BY <2>1, <2>2, ListsFrame
  <2> QED BY <1>1, <2>1, <2>3
<1>6. RefIsListed'
    BY <1>5 DEF EtsInv, RefIsListed, IsSet
<1> QED BY <1>2, <1>3, <1>4, <1>6

-----------------------------------------------------------------------------
\* The steps

\* The invariant after a step of c, from what the step must show: that the table
\* is in order, and c's own place in its operation.
LEMMA Assemble ==
    ASSUME OwnBuckets, EtsInv, [Next]_vars, NEW c \in Client, NEW k \in KeysOf(c),
           OthersKeep(c), type' = type,
           ChainsArePaths', EntriesInPlace', RefIsListed',
           \A x \in Bucket \ {BucketOf(k)} : SameChain(x),
           \A d \in Client \ {c} : HasNew(d) =>
              /\ at[d] \in allocated'
              /\ key'[at[d]] = key[at[d]]
              /\ value'[at[d]] = value[at[d]]
              /\ next'[at[d]] = next[at[d]]
              /\ \A i \in DOMAIN Chain(BucketOf(k))' : Chain(BucketOf(k))'[i] # at[d]
              /\ HasNew(c)' => at'[c] # at[d],
           HasNew(c)' => NewIsReady(c)',
           HasFound(c)' => FoundIsFirst(c)'
    PROVE  EtsInv'
<1>1. TypeOK' /\ AtAgrees'
    BY TypeStep DEF EtsInv
<1>2. \A d \in Client \ {c} : /\ HasNew(d)' => NewIsReady(d)'
                              /\ HasFound(d)' => FoundIsFirst(d)'
    BY OthersAgree
<1>3. NewAgrees' /\ FoundAgrees'
    BY <1>2 DEF NewAgrees, FoundAgrees
<1>4. NewDiffer'
  <2>1. \A d \in Client \ {c} : (HasNew(d)' <=> HasNew(d)) /\ at'[d] = at[d]
      BY DEF OthersKeep, HasNew
  <2> SUFFICES ASSUME NEW d \in Client, NEW e \in Client, HasNew(d)', HasNew(e)', d # e
               PROVE  at'[d] # at'[e]
      BY DEF NewDiffer
  <2>2. CASE d # c /\ e # c
      BY <2>1, <2>2 DEF EtsInv, NewDiffer
  <2>3. CASE d = c \/ e = c
      BY <2>1, <2>3
  <2> QED BY <2>2, <2>3
<1> QED BY <1>1, <1>3, <1>4 DEF EtsInv

LEMMA BeginEffect ==
    ASSUME TypeOK, NEW c \in Client, NEW label, NEW k, NEW v, Begin(c, label, k, v)
    PROVE  /\ pc'[c] = label /\ arg'[c] = <<k, v>>
           /\ arg'[c][1] = k /\ arg'[c][2] = v
           /\ \A d \in Client \ {c} : pc'[d] = pc[d] /\ arg'[d] = arg[d]
<1>1. pc' = [pc EXCEPT ![c] = label] /\ arg' = [arg EXCEPT ![c] = <<k, v>>]
    BY DEF Begin
<1>2. arg'[c] = <<k, v>> /\ pc'[c] = label
    BY <1>1 DEF TypeOK
<1>3. \A d \in Client \ {c} : pc'[d] = pc[d] /\ arg'[d] = arg[d]
    BY <1>1 DEF TypeOK
<1> QED BY <1>2, <1>3

LEMMA EndEffect ==
    ASSUME TypeOK, NEW c \in Client, End(c)
    PROVE  /\ ~HasNew(c)' /\ ~HasFound(c)'
           /\ OthersKeep(c)
<1>1. pc'[c] = "idle"
    BY DEF End, TypeOK
<1>2. OthersKeep(c)
    BY DEF End, TypeOK, OthersKeep
<1> QED BY <1>1, <1>2 DEF HasNew, HasFound

\* A step that changes nothing in the table, by a client that is left with what
\* it has found, or with nothing.
LEMMA SearchStep ==
    ASSUME OwnBuckets, EtsInv, [Next]_vars, NEW c \in Client, NEW k \in KeysOf(c),
           OthersKeep(c), ~HasNew(c)', UNCHANGED <<type, buckets, key, value, next,
                                                   allocated, ref>>,
           HasFound(c)' =>
              /\ arg'[c][1] = k /\ PositionsOf(k) # {} /\ at'[c] = EntryOfKey(k)
              /\ pc'[c] = "store_value" => IsSet
              /\ pc'[c] = "store_counter" => tmp'[c] = value[EntryOfKey(k)]
              /\ pc'[c] = "unlink" => pred'[c] = PredOfKey(k)
    PROVE  EtsInv'
<1>1. \A b \in Bucket : \A i \in DOMAIN Chain(b) : Chain(b)[i] \in allocated
    BY DEF EtsInv, EntriesInPlace
<1>2. /\ ChainsArePaths' /\ EntriesInPlace' /\ RefIsListed'
      /\ \A b \in Bucket : SameChain(b)
    BY <1>1, QuietStep
<1>3. BucketOf(k) \in Bucket
    BY EtsAssumption
<1>4. ASSUME NEW d \in Client \ {c}, HasNew(d)
      PROVE  /\ at[d] \in allocated
             /\ \A i \in DOMAIN Chain(BucketOf(k))' : Chain(BucketOf(k))'[i] # at[d]
  <2>1. NewIsReady(d)
      BY <1>4 DEF EtsInv, NewAgrees
  <2> QED BY <1>2, <1>3, <2>1 DEF NewIsReady, NotChained, SameChain
<1>5. ASSUME HasFound(c)'
      PROVE  FoundIsFirst(c)'
  <2>1. /\ PositionsOf(k)' = PositionsOf(k)
        /\ PosOfKey(k)' = PosOfKey(k)
        /\ EntryOfKey(k)' = EntryOfKey(k)
        /\ PredOfKey(k)' = PredOfKey(k)
      BY <1>2, <1>3, SearchFrame DEF SameChain
  <2>2. IsSet' = IsSet
      BY DEF IsSet
  <2> QED BY <1>5, <2>1, <2>2 DEF FoundIsFirst
<1> QED BY <1>2, <1>4, <1>5, Assemble

LEMMA SearchActions ==
    ASSUME OwnBuckets, EtsInv, [Next]_vars, NEW c \in Client, NEW k \in KeysOf(c),
           \/ \E v \in Value : InsertFindsKey(c, k, v)
           \/ DeleteFinds(c, k)
           \/ CounterLoads(c, k)
    PROVE  EtsInv'
<1>0. TypeOK
    BY DEF EtsInv
<1>1. CASE \E v \in Value : InsertFindsKey(c, k, v)
  <2>1. PICK v \in Value : InsertFindsKey(c, k, v)
      BY <1>1
  <2>2. /\ IsSet /\ PositionsOf(k) # {}
        /\ at' = [at EXCEPT ![c] = EntryOfKey(k)]
        /\ Begin(c, "store_value", k, v)
        /\ UNCHANGED <<tableVars, pred, tmp, ref, raced>>
      BY <2>1 DEF InsertFindsKey
  <2>3. /\ pc'[c] = "store_value" /\ arg'[c][1] = k
        /\ \A d \in Client \ {c} : pc'[d] = pc[d] /\ arg'[d] = arg[d]
      BY <1>0, <2>2, BeginEffect
  <2>4. at'[c] = EntryOfKey(k)
      BY <1>0, <2>2 DEF TypeOK
  <2>5. OthersKeep(c)
      BY <1>0, <2>2, <2>3 DEF OthersKeep, TypeOK
  <2>6. ~HasNew(c)'
      BY <2>3 DEF HasNew
  <2>7. UNCHANGED <<type, buckets, key, value, next, allocated, ref>>
      BY <2>2 DEF tableVars
  <2> QED BY <2>2, <2>3, <2>4, <2>5, <2>6, <2>7, SearchStep
<1>2. CASE DeleteFinds(c, k)
  <2>2. /\ PositionsOf(k) # {}
        /\ at' = [at EXCEPT ![c] = EntryOfKey(k)]
        /\ pred' = [pred EXCEPT ![c] = PredOfKey(k)]
        /\ Begin(c, "unlink", k, 0)
        /\ UNCHANGED <<tableVars, tmp, ref, raced>>
      BY <1>2 DEF DeleteFinds, PredOfKey
  <2>3. /\ pc'[c] = "unlink" /\ arg'[c][1] = k
        /\ \A d \in Client \ {c} : pc'[d] = pc[d] /\ arg'[d] = arg[d]
      BY <1>0, <2>2, BeginEffect
  <2>4. at'[c] = EntryOfKey(k) /\ pred'[c] = PredOfKey(k)
      BY <1>0, <2>2 DEF TypeOK
  <2>5. OthersKeep(c)
      BY <1>0, <2>2, <2>3 DEF OthersKeep, TypeOK
  <2>6. ~HasNew(c)'
      BY <2>3 DEF HasNew
  <2>7. UNCHANGED <<type, buckets, key, value, next, allocated, ref>>
      BY <2>2 DEF tableVars
  <2> QED BY <2>2, <2>3, <2>4, <2>5, <2>6, <2>7, SearchStep
<1>3. CASE CounterLoads(c, k)
  <2>2. /\ PositionsOf(k) # {}
        /\ at' = [at EXCEPT ![c] = EntryOfKey(k)]
        /\ tmp' = [tmp EXCEPT ![c] = value[EntryOfKey(k)]]
        /\ Begin(c, "store_counter", k, 0)
        /\ UNCHANGED <<tableVars, pred, ref, raced>>
      BY <1>3 DEF CounterLoads
  <2>3. /\ pc'[c] = "store_counter" /\ arg'[c][1] = k
        /\ \A d \in Client \ {c} : pc'[d] = pc[d] /\ arg'[d] = arg[d]
      BY <1>0, <2>2, BeginEffect
  <2>4. at'[c] = EntryOfKey(k) /\ tmp'[c] = value[EntryOfKey(k)]
      BY <1>0, <2>2 DEF TypeOK
  <2>5. OthersKeep(c)
      BY <1>0, <2>2, <2>3 DEF OthersKeep, TypeOK
  <2>6. ~HasNew(c)'
      BY <2>3 DEF HasNew
  <2>7. UNCHANGED <<type, buckets, key, value, next, allocated, ref>>
      BY <2>2 DEF tableVars
  <2> QED BY <2>2, <2>3, <2>4, <2>5, <2>6, <2>7, SearchStep
<1> QED BY <1>1, <1>2, <1>3

\* The stores of the item count touch no entry.
LEMMA CountActions ==
    ASSUME OwnBuckets, EtsInv, [Next]_vars, NEW c \in Client,
           InsertStoreCount(c) \/ DeleteStoreCount(c)
    PROVE  EtsInv'
<1>0. TypeOK /\ AtAgrees
    BY DEF EtsInv
<1>1. /\ pc[c] # "idle" /\ End(c)
      /\ UNCHANGED <<type, buckets, key, value, next, allocated, ref>>
    BY DEF InsertStoreCount, DeleteStoreCount
<1>2. arg[c][1] \in KeysOf(c)
    BY <1>0, <1>1 DEF AtAgrees
<1>3. ~HasNew(c)' /\ ~HasFound(c)' /\ OthersKeep(c)
    BY <1>0, <1>1, EndEffect
<1> QED BY <1>1, <1>2, <1>3, SearchStep

\* A fresh entry is in no chain and nobody else's.
LEMMA InsertNewAction ==
    ASSUME OwnBuckets, EtsInv, [Next]_vars, NEW c \in Client, NEW k \in KeysOf(c),
           NEW v \in Value, InsertNew(c, k, v)
    PROVE  EtsInv'
<1>0. TypeOK /\ k \in Key /\ BucketOf(k) \in Bucket
    BY EtsAssumption DEF EtsInv
<1>1. PICK e \in Entry \ allocated :
        /\ allocated' = allocated \cup {e}
        /\ key' = [key EXCEPT ![e] = k]
        /\ value' = [value EXCEPT ![e] = v]
        /\ at' = [at EXCEPT ![c] = e]
    BY DEF InsertNew
<1>2. /\ IsSet => PositionsOf(k) = {}
      /\ ~BagHolds(k, v)
      /\ Begin(c, "load_head", k, v)
      /\ UNCHANGED <<type, buckets, next, item_count, pred, tmp, ref, raced>>
    BY DEF InsertNew
<1>3. /\ pc'[c] = "load_head" /\ arg'[c][1] = k /\ arg'[c][2] = v
      /\ \A d \in Client \ {c} : pc'[d] = pc[d] /\ arg'[d] = arg[d]
    BY <1>0, <1>2, BeginEffect
<1>4. OthersKeep(c) /\ at'[c] = e
    BY <1>0, <1>1, <1>2, <1>3 DEF OthersKeep, TypeOK
<1>5. \A a \in Entry : a # e => key'[a] = key[a] /\ value'[a] = value[a]
    BY <1>0, <1>1 DEF TypeOK
<1>6. \A b \in Bucket : \A i \in DOMAIN Chain(b) :
        /\ Chain(b)[i] \in allocated /\ Chain(b)[i] \in Entry /\ Chain(b)[i] # e
    BY <1>0, <1>1 DEF EtsInv, EntriesInPlace, TypeOK
<1>7. /\ ChainsArePaths' /\ EntriesInPlace' /\ RefIsListed'
      /\ \A b \in Bucket : SameChain(b)
  <2>1. \A b \in Bucket : \A i \in DOMAIN Chain(b) :
          /\ next'[Chain(b)[i]] = next[Chain(b)[i]]
          /\ key'[Chain(b)[i]] = key[Chain(b)[i]]
          /\ value'[Chain(b)[i]] = value[Chain(b)[i]]
          /\ Chain(b)[i] \in allocated'
      BY <1>1, <1>2, <1>5, <1>6
  <2> QED BY <1>2, <2>1, QuietStep
<1>8. ASSUME NEW d \in Client \ {c}, HasNew(d)
      PROVE  /\ at[d] \in allocated' /\ key'[at[d]] = key[at[d]]
             /\ value'[at[d]] = value[at[d]]
             /\ at'[c] # at[d]
             /\ \A i \in DOMAIN Chain(BucketOf(k))' : Chain(BucketOf(k))'[i] # at[d]
  <2>1. NewIsReady(d)
      BY <1>8 DEF EtsInv, NewAgrees
  <2>2. at[d] \in allocated /\ at[d] \in Entry /\ at[d] # e
      BY <1>0, <1>1, <2>1 DEF NewIsReady, TypeOK
  <2> QED BY <1>0, <1>1, <1>4, <1>5, <1>7, <2>1, <2>2 DEF NewIsReady, NotChained, SameChain
<1>9. NewIsReady(c)'
  <2>1. PositionsOf(k)' = PositionsOf(k)
      BY <1>0, <1>7, SearchFrame DEF SameChain
  <2>2. PositionsOf(k) \subseteq DOMAIN Chain(BucketOf(k))
      BY DEF PositionsOf
  <2>3. ~BagHolds(k, v)'
      BY <1>0, <1>2, <1>7, <2>1, <2>2 DEF BagHolds, SameChain
  <2>4. IsSet' = IsSet
      BY <1>2 DEF IsSet
  <2>5. NotChained(e)'
      BY <1>6, <1>7 DEF NotChained, SameChain
  <2>6. key'[e] = k /\ value'[e] = v /\ e \in allocated'
      BY <1>0, <1>1 DEF TypeOK
  <2> QED BY <1>2, <1>3, <1>4, <2>1, <2>3, <2>4, <2>5, <2>6 DEF NewIsReady
<1>10. ~HasFound(c)'
    BY <1>3 DEF HasFound
<1>11. UNCHANGED <<type, next>>
    BY <1>2
<1> QED BY <1>4, <1>7, <1>8, <1>9, <1>10, <1>11, Assemble

\* The link of an entry that is in no chain.
LEMMA LoadHeadAction ==
    ASSUME OwnBuckets, EtsInv, [Next]_vars, NEW c \in Client, InsertLoadHead(c)
    PROVE  EtsInv'
<1>0. TypeOK /\ AtAgrees
    BY DEF EtsInv
<1>1. PICK k, v : k = arg[c][1] /\ v = arg[c][2]
    OBVIOUS
<1>2. /\ pc[c] = "load_head"
      /\ next' = [next EXCEPT ![at[c]] = buckets[BucketOf(k)]]
      /\ pc' = [pc EXCEPT ![c] = "store_head"]
      /\ UNCHANGED <<type, buckets, key, value, allocated, item_count, arg, at,
                     pred, tmp, ref, raced>>
    BY <1>1 DEF InsertLoadHead
<1>3. k \in KeysOf(c) /\ k \in Key /\ BucketOf(k) \in Bucket /\ at[c] \in Entry
    BY <1>0, <1>1, <1>2, EtsAssumption DEF AtAgrees
<1>4. HasNew(c) /\ NewIsReady(c)
    BY <1>2 DEF EtsInv, NewAgrees, HasNew
<1>5. \A a \in Entry : a # at[c] => next'[a] = next[a]
    BY <1>0, <1>2 DEF TypeOK
<1>6. \A b \in Bucket : \A i \in DOMAIN Chain(b) :
        /\ Chain(b)[i] \in allocated /\ Chain(b)[i] \in Entry /\ Chain(b)[i] # at[c]
    BY <1>0, <1>4 DEF EtsInv, EntriesInPlace, TypeOK, NewIsReady, NotChained
<1>7. /\ ChainsArePaths' /\ EntriesInPlace' /\ RefIsListed'
      /\ \A b \in Bucket : SameChain(b)
  <2>1. \A b \in Bucket : \A i \in DOMAIN Chain(b) :
          /\ next'[Chain(b)[i]] = next[Chain(b)[i]]
          /\ key'[Chain(b)[i]] = key[Chain(b)[i]]
          /\ value'[Chain(b)[i]] = value[Chain(b)[i]]
          /\ Chain(b)[i] \in allocated'
      BY <1>2, <1>5, <1>6
  <2> QED BY <1>2, <2>1, QuietStep
<1>8. OthersKeep(c) /\ pc'[c] = "store_head"
    BY <1>0, <1>2 DEF OthersKeep, TypeOK
<1>9. ASSUME NEW d \in Client \ {c}, HasNew(d)
      PROVE  /\ at[d] \in allocated' /\ next'[at[d]] = next[at[d]]
             /\ at'[c] # at[d]
             /\ \A i \in DOMAIN Chain(BucketOf(k))' : Chain(BucketOf(k))'[i] # at[d]
  <2>1. NewIsReady(d) /\ at[d] # at[c]
      BY <1>4, <1>9 DEF EtsInv, NewAgrees, NewDiffer
  <2>2. at[d] \in allocated /\ at[d] \in Entry
      BY <1>0, <2>1 DEF NewIsReady, TypeOK
  <2> QED BY <1>2, <1>3, <1>5, <1>7, <2>1, <2>2 DEF NewIsReady, NotChained, SameChain
<1>10. NewIsReady(c)'
  <2>1. PositionsOf(k)' = PositionsOf(k)
      BY <1>3, <1>7, SearchFrame DEF SameChain
  <2>2. PositionsOf(k) \subseteq DOMAIN Chain(BucketOf(k))
      BY DEF PositionsOf
  <2>3. ~BagHolds(k, v)'
      BY <1>1, <1>2, <1>3, <1>4, <1>7, <2>1, <2>2 DEF BagHolds, SameChain, NewIsReady
  <2>4. IsSet' = IsSet
      BY <1>2 DEF IsSet
  <2>5. NotChained(at[c])'
      BY <1>2, <1>6, <1>7 DEF NotChained, SameChain
  <2>6. next'[at[c]] = buckets'[BucketOf(k)]
      BY <1>0, <1>2, <1>3 DEF TypeOK
  <2> QED BY <1>1, <1>2, <1>4, <2>1, <2>3, <2>4, <2>5, <2>6 DEF NewIsReady
<1>11. ~HasFound(c)'
    BY <1>8 DEF HasFound
<1>12. UNCHANGED <<type, key, value>>
    BY <1>2
<1> QED BY <1>3, <1>7, <1>8, <1>9, <1>10, <1>11, <1>12, Assemble

\* What an insertion that found nothing in its way makes of the key's values.
LEMMA InsertPushes ==
    ASSUME EtsInv, NEW k \in Key, NEW v, IsSet => PositionsOf(k) = {}, ~BagHolds(k, v)
    PROVE  /\ RefInsert(ref[k], v) = <<v>> \o ref[k]
           /\ IsSet => ref[k] = << >>
<1>1. ref[k] \in Seq(SmallInts) /\ Lists(Chain(BucketOf(k)), key, value, k, ref[k])
    BY DEF EtsInv, RefIsListed
<1>2. ASSUME IsSet
      PROVE  ref[k] = << >>
  <2>1. \A p \in DOMAIN Chain(BucketOf(k)) : key[Chain(BucketOf(k))[p]] # k
      BY <1>2 DEF PositionsOf
  <2> QED BY <1>1, <2>1, ListsEmpty
<1>3. ASSUME type = "BAG", NEW i \in 1 .. Len(ref[k])
      PROVE  ref[k][i] # v
  <2>1. PICK f : Listing(f, Chain(BucketOf(k)), key, value, k, ref[k])
      BY <1>1, ListsByListing
  <2>2. /\ f[i] \in DOMAIN Chain(BucketOf(k))
        /\ key[Chain(BucketOf(k))[f[i]]] = k
        /\ value[Chain(BucketOf(k))[f[i]]] = ref[k][i]
      BY <2>1 DEF Listing
  <2>3. f[i] \in PositionsOf(k)
      BY <2>2 DEF PositionsOf
  <2> QED BY <1>3, <2>2, <2>3 DEF BagHolds
<1>4. CASE IsSet
  <2>1. RefInsert(ref[k], v) = <<v>>
      BY <1>4 DEF RefInsert, IsSet
  <2>2. <<v>> \o << >> = <<v>>
      OBVIOUS
  <2> QED BY <1>2, <1>4, <2>1, <2>2
<1>5. CASE type = "BAG"
  <2>1. ~IsSet
      BY <1>5 DEF IsSet
  <2>2. ~\E i \in 1 .. Len(ref[k]) : ref[k][i] = v
      BY <1>3, <1>5
  <2> QED BY <1>5, <2>1, <2>2 DEF RefInsert
<1>6. CASE type = "DUPLICATE_BAG"
  <2>1. ~IsSet
      BY <1>6 DEF IsSet
  <2> QED BY <1>6, <2>1 DEF RefInsert
<1> QED BY <1>4, <1>5, <1>6 DEF EtsInv, TypeOK, TableTypes, IsSet

\* The entry comes before those of its bucket, the others keep their chains.
LEMMA StoreHeadAction ==
    ASSUME OwnBuckets, EtsInv, [Next]_vars, NEW c \in Client, InsertStoreHead(c)
    PROVE  EtsInv'
<1>0. TypeOK /\ AtAgrees /\ ChainsArePaths /\ EntriesInPlace
    BY DEF EtsInv
<1>1. PICK k, v, e : k = arg[c][1] /\ v = arg[c][2] /\ e = at[c]
    OBVIOUS
<1>2. /\ pc[c] = "store_head"
      /\ buckets' = [buckets EXCEPT ![BucketOf(k)] = e]
      /\ LoadCount(c)
      /\ ref' = [ref EXCEPT ![k] = RefInsert(@, v)]
      /\ pc' = [pc EXCEPT ![c] = "count_up"]
      /\ UNCHANGED <<type, key, value, next, allocated, item_count, arg, at, pred>>
    BY <1>1 DEF InsertStoreHead
<1>3. k \in KeysOf(c) /\ k \in Key /\ BucketOf(k) \in Bucket /\ e \in Entry
    BY <1>0, <1>1, <1>2, EtsAssumption DEF AtAgrees
<1>4. HasNew(c) /\ NewIsReady(c)
    BY <1>2 DEF EtsInv, NewAgrees, HasNew
<1>5. /\ e \in allocated /\ NotChained(e) /\ key[e] = k /\ value[e] = v
      /\ IsSet => PositionsOf(k) = {}
      /\ ~BagHolds(k, v)
      /\ next[e] = buckets[BucketOf(k)]
    BY <1>1, <1>2, <1>4 DEF NewIsReady
<1>6. PICK b, old : b = BucketOf(k) /\ old = Chain(b)
    OBVIOUS
<1>7. /\ old \in Seq(Entry) /\ DOMAIN old = 1 .. Len(old)
      /\ b \in Bucket /\ buckets'[b] = e
      /\ \A i \in 1 .. Len(old) : old[i] # e
      /\ IsPath(buckets[b], next, old)
  <2>1. old \in Seq(Entry) /\ DOMAIN old = 1 .. Len(old) /\ IsPath(buckets[b], next, old)
      BY <1>0, <1>3, <1>6, ChainFacts DEF ChainsArePaths
  <2>2. buckets'[b] = e
      BY <1>0, <1>2, <1>3, <1>6 DEF TypeOK
  <2> QED BY <1>3, <1>5, <1>6, <2>1, <2>2 DEF NotChained
<1>8. IsPath(e, next, <<e>> \o old)
    BY <1>3, <1>5, <1>6, <1>7, PathPush
<1>9. Chain(b)' = <<e>> \o old
    BY <1>2, <1>7, <1>8, ChainOfPath DEF Chain
<1>10. ASSUME NEW x \in Bucket, x # b
       PROVE  SameChain(x) /\ IsPath(buckets'[x], next', Chain(x))
  <2>1. buckets'[x] = buckets[x]
      BY <1>0, <1>2, <1>6, <1>10 DEF TypeOK
  <2>2. Chain(x)' = Chain(x) /\ IsPath(buckets'[x], next', Chain(x))
      BY <1>0, <1>2, <2>1, ChainFrame
  <2> QED BY <1>2, <2>1, <2>2 DEF SameChain
<1>11. ChainsArePaths'
  <2> SUFFICES ASSUME NEW x \in Bucket
               PROVE  IsPath(buckets'[x], next', Chain(x)')
      BY DEF ChainsArePaths
  <2>1. CASE x = b
      BY <1>2, <1>7, <1>8, <1>9, <2>1
  <2>2. CASE x # b
      BY <1>10, <2>2 DEF SameChain
  <2> QED BY <2>1, <2>2
<1>12. /\ DOMAIN (<<e>> \o old) = 1 .. Len(old) + 1
       /\ (<<e>> \o old)[1] = e
       /\ \A i \in 2 .. Len(old) + 1 :
             (<<e>> \o old)[i] = old[i - 1] /\ i - 1 \in DOMAIN old
    BY <1>3, <1>7, PushElement
<1>13. EntriesInPlace'
  <2> SUFFICES ASSUME NEW x \in Bucket, NEW i \in DOMAIN Chain(x)'
               PROVE  /\ Chain(x)'[i] \in allocated
                      /\ key[Chain(x)'[i]] \in Key
                      /\ BucketOf(key[Chain(x)'[i]]) = x
      BY <1>2 DEF EntriesInPlace
  <2>1. CASE x # b
      BY <1>0, <1>10, <2>1 DEF SameChain, EntriesInPlace
  <2>2. CASE x = b /\ i = 1
      BY <1>3, <1>5, <1>6, <1>9, <1>12, <2>2
  <2>3. CASE x = b /\ i # 1
    <3>1. i \in 2 .. Len(old) + 1
        BY <1>7, <1>9, <1>12, <2>3
    <3>2. Chain(x)'[i] = Chain(b)[i - 1] /\ i - 1 \in DOMAIN Chain(b)
        BY <1>6, <1>9, <1>12, <2>3, <3>1
    <3> QED BY <1>0, <1>7, <2>3, <3>2 DEF EntriesInPlace
  <2> QED BY <2>1, <2>2, <2>3
<1>14. /\ ref \in [Key -> Seq(SmallInts)] /\ v \in SmallInts
       /\ ref'[k] = <<v>> \o ref[k]
       /\ \A l \in Key : l # k => ref'[l] = ref[l]
       /\ IsSet => ref[k] = << >>
  <2>1. ref \in [Key -> Seq(SmallInts)]
      BY DEF EtsInv, RefIsListed
  <2>2. v \in SmallInts
      BY <1>0, <1>3, <1>5 DEF TypeOK
  <2>3. RefInsert(ref[k], v) = <<v>> \o ref[k] /\ (IsSet => ref[k] = << >>)
      BY <1>3, <1>5, InsertPushes
  <2> QED BY <1>2, <1>3, <2>1, <2>2, <2>3
<1>15. RefIsListed'
  <2>1. ref' \in [Key -> Seq(SmallInts)]
    <3>1. <<v>> \o ref[k] \in Seq(SmallInts)
        BY <1>3, <1>14, PushElement
    <3>2. ref' = [ref EXCEPT ![k] = <<v>> \o ref[k]]
        BY <1>2, <1>3, <1>5, InsertPushes
    <3> QED BY <1>14, <3>1, <3>2
  <2>2. ASSUME NEW l \in Key
        PROVE  Lists(Chain(BucketOf(l))', key, value, l, ref'[l])
    <3>1. ref[l] \in Seq(SmallInts) /\ Lists(Chain(BucketOf(l)), key, value, l, ref[l])
        BY DEF EtsInv, RefIsListed
    <3>2. BucketOf(l) \in Bucket
        BY EtsAssumption
    <3>3. CASE l = k
      <4>1. Lists(<<e>> \o old, key, value, k, <<value[e]>> \o ref[k])
          BY <1>3, <1>5, <1>6, <1>7, <1>14, <3>1, <3>3, ListsPush
      <4> QED BY <1>5, <1>6, <1>9, <1>14, <3>3, <4>1
    <3>4. CASE l # k /\ BucketOf(l) = b
      <4>1. Lists(<<e>> \o old, key, value, l, ref[l])
          BY <1>3, <1>5, <1>6, <1>7, <3>1, <3>4, ListsPushOther
      <4> QED BY <1>9, <1>14, <3>4, <4>1
    <3>5. CASE BucketOf(l) # b
        BY <1>6, <1>10, <1>14, <3>1, <3>2, <3>5 DEF SameChain
    <3> QED BY <3>3, <3>4, <3>5
  <2>3. ASSUME IsSet, NEW l \in Key
        PROVE  Len(ref'[l]) <= 1
    <3>1. Len(<<v>> \o << >>) = 1
        OBVIOUS
    <3>2. l # k => Len(ref[l]) <= 1
        BY <2>3 DEF EtsInv, RefIsListed
    <3> QED BY <1>14, <2>3, <3>1, <3>2
  <2>4. IsSet' = IsSet /\ key' = key /\ value' = value
      BY <1>2 DEF IsSet
  <2> QED BY <2>1, <2>2, <2>3, <2>4 DEF RefIsListed
<1>16. OthersKeep(c) /\ pc'[c] = "count_up"
    BY <1>0, <1>2 DEF OthersKeep, TypeOK, LoadCount
<1>17. ~HasNew(c)' /\ ~HasFound(c)'
    BY <1>16 DEF HasNew, HasFound
<1>18. ASSUME NEW d \in Client \ {c}, HasNew(d)
       PROVE  /\ at[d] \in allocated
              /\ \A i \in DOMAIN Chain(BucketOf(k))' : Chain(BucketOf(k))'[i] # at[d]
  <2>1. NewIsReady(d) /\ at[d] # e
      BY <1>1, <1>4, <1>18 DEF EtsInv, NewAgrees, NewDiffer
  <2>2. \A i \in DOMAIN old : old[i] # at[d]
      BY <1>6, <1>7, <2>1 DEF NewIsReady, NotChained
  <2>3. ASSUME NEW i \in DOMAIN Chain(b)'
        PROVE  Chain(b)'[i] # at[d]
    <3>1. i = 1 \/ i \in 2 .. Len(old) + 1
        BY <1>7, <1>9, <1>12
    <3> QED BY <1>9, <1>12, <2>1, <2>2, <3>1
  <2> QED BY <1>6, <2>1, <2>3 DEF NewIsReady
<1> QED BY <1>2, <1>3, <1>6, <1>10, <1>11, <1>13, <1>15, <1>16, <1>17, <1>18, Assemble

LEMMA ReplaceOnly ==
    ASSUME NEW seq \in Seq(SmallInts), Len(seq) = 1, NEW v
    PROVE  <<v>> \o Tail(seq) = <<v>>
<1>1. Tail(seq) = << >>
  <2>1. seq # << >>
      OBVIOUS
  <2>2. Tail(seq) \in Seq(SmallInts) /\ Len(Tail(seq)) = Len(seq) - 1
      BY <2>1, HeadTailProperties
  <2>3. Len(Tail(seq)) = 0
      BY <2>2
  <2> QED BY <2>2, <2>3, EmptySeq
<1>2. <<v>> \o << >> = <<v>>
    OBVIOUS
<1> QED BY <1>1, <1>2

\* The store of a new value at the first entry of the key.
LEMMA StoreStep ==
    ASSUME OwnBuckets, EtsInv, [Next]_vars, NEW c \in Client, NEW k \in KeysOf(c),
           HasFound(c), k = arg[c][1], NEW v \in SmallInts,
           value' = [value EXCEPT ![at[c]] = v],
           ref' = [ref EXCEPT ![k] = <<v>> \o Tail(ref[k])],
           End(c), UNCHANGED <<type, buckets, key, next, allocated>>
    PROVE  EtsInv'
<1>0. TypeOK /\ AtAgrees /\ ChainsArePaths /\ EntriesInPlace
    BY DEF EtsInv
<1>1. k \in Key /\ BucketOf(k) \in Bucket
    BY EtsAssumption
<1>2. FoundIsFirst(c)
    BY DEF EtsInv, FoundAgrees
<1>3. PICK p, b, e : p = PosOfKey(k) /\ b = BucketOf(k) /\ e = at[c]
    OBVIOUS
<1>4. /\ IsFirst(p, Chain(b), key, k) /\ p \in DOMAIN Chain(b)
      /\ e = Chain(b)[p] /\ e \in Entry /\ key[e] = k /\ e \in allocated
    BY <1>0, <1>1, <1>2, <1>3, FoundFirst DEF FoundIsFirst, IsFirst, TypeOK
<1>5. value' = [value EXCEPT ![e] = v] /\ \A a \in Entry : a # e => value'[a] = value[a]
    BY <1>0, <1>3 DEF TypeOK
<1>6. \A x \in Bucket : /\ Chain(x)' = Chain(x)
                        /\ IsPath(buckets'[x], next', Chain(x))
    BY <1>0, ChainFrame
<1>7. ChainsArePaths'
    BY <1>6 DEF ChainsArePaths
<1>8. EntriesInPlace'
    BY <1>0, <1>6 DEF EntriesInPlace
<1>9. \A x \in Bucket \ {BucketOf(k)} : SameChain(x)
  <2> SUFFICES ASSUME NEW x \in Bucket, x # b
               PROVE  SameChain(x)
      BY <1>3
  <2>1. \A i \in DOMAIN Chain(x) : Chain(x)[i] \in Entry /\ Chain(x)[i] # e
      BY <1>0, <1>1, <1>3, <1>4, ChainFacts
  <2> QED BY <1>5, <1>6, <2>1 DEF SameChain
<1>10. RefIsListed'
  <2>1. /\ ref \in [Key -> Seq(SmallInts)]
        /\ Lists(Chain(b), key, value, k, ref[k])
      BY <1>1, <1>3 DEF EtsInv, RefIsListed
  <2>2. PICK f : Listing(f, Chain(b), key, value, k, ref[k])
      BY <2>1, ListsByListing
  <2>3. /\ Chain(b) \in Seq(Entry)
        /\ \A i, j \in 1 .. Len(Chain(b)) : Chain(b)[i] = Chain(b)[j] => i = j
      BY <1>0, <1>1, <1>3, ChainFacts
  <2>4. /\ Len(ref[k]) \in Nat \ {0}
        /\ f[1] = p
        /\ value[Chain(b)[p]] = ref[k][1]
        /\ \A i \in 2 .. Len(ref[k]) : f[i] > p
    <3>1. ref[k] \in Seq(SmallInts)
        BY <1>1, <2>1
    <3> QED BY <1>4, <2>2, <2>3, <3>1, ListsFirst, Zenon
  <2>5. /\ <<v>> \o Tail(ref[k]) \in Seq(SmallInts)
        /\ Len(<<v>> \o Tail(ref[k])) = Len(ref[k])
    <3>1. Tail(ref[k]) \in Seq(SmallInts) /\ Len(Tail(ref[k])) = Len(ref[k]) - 1
        BY <1>1, <2>1, <2>4
    <3>2. Len(Tail(ref[k])) + 1 = Len(ref[k])
        BY <2>4, <3>1
    <3> QED BY <3>1, <3>2, PushElement
  <2>6. ref' \in [Key -> Seq(SmallInts)] /\ ref'[k] = <<v>> \o Tail(ref[k])
      BY <1>1, <2>1, <2>5
  <2>7. \A l \in Key : l # k => ref'[l] = ref[l]
      BY <2>1
  <2>8. ASSUME NEW l \in Key
        PROVE  Lists(Chain(BucketOf(l))', key', value', l, ref'[l])
    <3>1. CASE l = k
      <4>1. value \in [Entry -> SmallInts] /\ ref[k] \in Seq(SmallInts)
          BY <1>0, <1>1, <2>1 DEF TypeOK
      <4>2. Lists(Chain(b), key, [value EXCEPT ![Chain(b)[p]] = v], k,
                  <<v>> \o Tail(ref[k]))
          BY <1>4, <2>1, <2>3, <4>1, ListsStore
      <4> QED BY <1>1, <1>3, <1>4, <1>5, <1>6, <2>6, <3>1, <4>2
    <3>2. CASE l # k
      <4>1. Lists(Chain(BucketOf(l)), key, value, l, ref[l]) /\ BucketOf(l) \in Bucket
          BY EtsAssumption DEF EtsInv, RefIsListed
      <4>2. \A i \in DOMAIN Chain(BucketOf(l)) :
              /\ Chain(BucketOf(l))[i] \in Entry
              /\ key[Chain(BucketOf(l))[i]] = l =>
                    value'[Chain(BucketOf(l))[i]] = value[Chain(BucketOf(l))[i]]
          BY <1>0, <1>4, <1>5, <3>2, <4>1, ChainFacts
      <4>3. PICK f2 : Listing(f2, Chain(BucketOf(l)), key, value, l, ref[l])
          BY <4>1, ListsByListing
      <4>4. Listing(f2, Chain(BucketOf(l)), key, value', l, ref[l])
          BY <4>2, <4>3 DEF Listing
      <4>5. Lists(Chain(BucketOf(l)), key, value', l, ref[l])
          BY <4>4, ListsByListing
      <4> QED BY <1>6, <2>7, <3>2, <4>1, <4>5
    <3> QED BY <3>1, <3>2
  <2>9. ASSUME IsSet, NEW l \in Key
        PROVE  Len(ref'[l]) <= 1
    <3>1. Len(ref[l]) <= 1
        BY <2>9 DEF EtsInv, RefIsListed
    <3> QED BY <2>5, <2>6, <2>7, <3>1
  <2>10. IsSet' = IsSet
      BY DEF IsSet
  <2> QED BY <2>6, <2>8, <2>9, <2>10 DEF RefIsListed
<1>11. ~HasNew(c)' /\ ~HasFound(c)' /\ OthersKeep(c)
    BY <1>0, EndEffect
<1>12. ASSUME NEW d \in Client \ {c}, HasNew(d)
       PROVE  /\ at[d] \in allocated /\ value'[at[d]] = value[at[d]]
              /\ \A i \in DOMAIN Chain(BucketOf(k))' : Chain(BucketOf(k))'[i] # at[d]
  <2>1. at[d] \in allocated /\ NotChained(at[d])
      BY <1>12 DEF EtsInv, NewAgrees, NewIsReady
  <2>2. at[d] # e /\ at[d] \in Entry
      BY <1>0, <1>1, <1>3, <1>4, <2>1 DEF NotChained, TypeOK
  <2> QED BY <1>1, <1>5, <1>6, <2>1, <2>2 DEF NotChained
<1> QED BY <1>7, <1>8, <1>9, <1>10, <1>11, <1>12, Assemble

\* A replaced value and an updated counter.
LEMMA StoreActions ==
    ASSUME OwnBuckets, EtsInv, [Next]_vars, NEW c \in Client,
           InsertStoreValue(c) \/ CounterStores(c)
    PROVE  EtsInv'
<1>0. TypeOK /\ AtAgrees /\ ChainsArePaths /\ EntriesInPlace
    BY DEF EtsInv
<1>1. HasFound(c) /\ pc[c] # "idle"
    BY DEF InsertStoreValue, CounterStores, HasFound
<1>2. FoundIsFirst(c)
    BY <1>1 DEF EtsInv, FoundAgrees
<1>3. PICK k, v : k = arg[c][1] /\ v = arg[c][2]
    OBVIOUS
<1>4. k \in KeysOf(c) /\ k \in Key /\ BucketOf(k) \in Bucket
    BY <1>0, <1>1, <1>3, EtsAssumption DEF AtAgrees
<1>5. /\ ref \in [Key -> Seq(SmallInts)] /\ ref[k] \in Seq(SmallInts)
      /\ Lists(Chain(BucketOf(k)), key, value, k, ref[k])
    BY <1>4 DEF EtsInv, RefIsListed
<1>6. /\ Len(ref[k]) \in Nat \ {0}
      /\ value[at[c]] = ref[k][1]
  <2>1. PICK f : Listing(f, Chain(BucketOf(k)), key, value, k, ref[k])
      BY <1>5, ListsByListing
  <2>2. Chain(BucketOf(k)) \in Seq(Entry)
      BY <1>0, <1>4, ChainFacts
  <2>3. /\ IsFirst(PosOfKey(k), Chain(BucketOf(k)), key, k)
        /\ at[c] = Chain(BucketOf(k))[PosOfKey(k)]
      BY <1>0, <1>2, <1>3, <1>4, FoundFirst DEF FoundIsFirst
  <2>4. /\ Len(ref[k]) \in Nat \ {0}
        /\ f[1] = PosOfKey(k)
        /\ value[Chain(BucketOf(k))[PosOfKey(k)]] = ref[k][1]
        /\ \A i \in 2 .. Len(ref[k]) : f[i] > PosOfKey(k)
      BY <1>5, <2>1, <2>2, <2>3, ListsFirst, Zenon
  <2> QED BY <2>3, <2>4
<1>7. CASE InsertStoreValue(c)
  <2>1. /\ pc[c] = "store_value"
        /\ value' = [value EXCEPT ![at[c]] = v]
        /\ ref' = [ref EXCEPT ![k] = RefInsert(ref[k], v)]
        /\ End(c)
        /\ UNCHANGED <<type, buckets, key, next, allocated, item_count, raced>>
      BY <1>3, <1>4, <1>5, <1>7 DEF InsertStoreValue
  <2>2. IsSet
      BY <1>2, <2>1 DEF FoundIsFirst
  <2>3. Len(ref[k]) = 1
    <3>1. Len(ref[k]) <= 1
        BY <1>4, <2>2 DEF EtsInv, RefIsListed
    <3>2. Len(ref[k]) \in Nat \ {0}
        BY <1>6
    <3>3. \A n \in Nat \ {0} : n <= 1 => n = 1
        OBVIOUS
    <3> QED BY <3>1, <3>2, <3>3, Zenon
  <2>4. <<v>> \o Tail(ref[k]) = <<v>>
      BY <1>5, <2>3, ReplaceOnly
  <2>5. RefInsert(ref[k], v) = <<v>>
      BY <2>2 DEF RefInsert, IsSet
  <2>6. v \in SmallInts
    <3>1. arg[c] \in (Key \cup {Null}) \X SmallInts
        BY <1>0 DEF TypeOK
    <3> QED BY <1>3, <3>1
  <2> QED BY <1>1, <1>3, <1>4, <2>1, <2>4, <2>5, <2>6, StoreStep
<1>8. CASE CounterStores(c)
  <2>1. /\ pc[c] = "store_counter"
        /\ value' = [value EXCEPT ![at[c]] = SmallInt(tmp[c] + 1)]
        /\ ref' = [ref EXCEPT ![k] = <<SmallInt(Head(ref[k]) + 1)>> \o Tail(ref[k])]
        /\ End(c)
        /\ UNCHANGED <<type, buckets, key, next, allocated, item_count, raced>>
      BY <1>3, <1>4, <1>5, <1>8 DEF CounterStores
  <2>2. tmp[c] = Head(ref[k])
      BY <1>2, <1>5, <1>6, <2>1 DEF FoundIsFirst
  <2>3. tmp[c] \in Int
      BY <1>0 DEF TypeOK
  <2>4. SmallInt(tmp[c] + 1) \in SmallInts
      BY <2>3, SmallIntType
  <2> QED BY <1>1, <1>3, <1>4, <2>1, <2>2, <2>4, StoreStep
<1> QED BY <1>7, <1>8

\* What an unlinking does to the links: those of other chains stay.
LEMMA UnlinkLinks ==
    ASSUME EtsInv, NEW c \in Client, DeleteUnlink(c), NEW k \in Key, k = arg[c][1],
           NEW b \in Bucket, b = BucketOf(k), NEW p, p = PosOfKey(k)
    PROVE  /\ IsFirst(p, Chain(b), key, k) /\ p \in 1 .. Len(Chain(b))
           /\ at[c] = Chain(b)[p] /\ at[c] \in Entry
           /\ IsPath(buckets'[b], next', Drop(Chain(b), p))
           /\ Chain(b)' = Drop(Chain(b), p)
           /\ \A x \in Bucket : x # b => buckets'[x] = buckets[x]
           /\ \A a \in Entry : (\A i \in DOMAIN Chain(b) : Chain(b)[i] # a)
                                  => next'[a] = next[a]
<1>0. TypeOK /\ AtAgrees /\ ChainsArePaths /\ EntriesInPlace
    BY DEF EtsInv
<1>1. HasFound(c) /\ pc[c] = "unlink"
    BY DEF DeleteUnlink, HasFound
<1>2. FoundIsFirst(c)
    BY <1>1 DEF EtsInv, FoundAgrees
<1>3. /\ IsFirst(p, Chain(b), key, k)
      /\ at[c] = Chain(b)[p]
      /\ pred[c] = IF p = 1 THEN Null ELSE Chain(b)[p - 1]
    BY <1>0, <1>1, <1>2, FoundFirst DEF FoundIsFirst, PredOfKey
<1>4. /\ Chain(b) \in Seq(Entry) /\ DOMAIN Chain(b) = 1 .. Len(Chain(b))
      /\ Len(Chain(b)) \in Nat
      /\ \A i \in DOMAIN Chain(b) : Chain(b)[i] \in Entry
      /\ IsPath(buckets[b], next, Chain(b))
    BY <1>0, ChainFacts DEF ChainsArePaths
<1>5. p \in 1 .. Len(Chain(b)) /\ at[c] \in Entry
    BY <1>3, <1>4 DEF IsFirst
<1>6. next \in [Entry -> Entry \cup {Null}] /\ buckets \in [Bucket -> Entry \cup {Null}]
    BY <1>0 DEF TypeOK
<1>7. CASE p = 1
  <2>1. /\ buckets' = [buckets EXCEPT ![b] = next[at[c]]]
        /\ next' = [next EXCEPT ![at[c]] = Null]
      BY <1>3, <1>7 DEF DeleteUnlink
  <2>2. Unlinks(buckets[b], next, Chain(b), p, buckets'[b], next')
      BY <1>3, <1>6, <1>7, <2>1 DEF Unlinks
  <2>3. IsPath(buckets'[b], next', Drop(Chain(b), p))
      BY <1>4, <1>5, <1>6, <2>2, PathDrop
  <2>4. Chain(b)' = Drop(Chain(b), p)
      BY <2>3, ChainOfPath DEF Chain
  <2>5. \A x \in Bucket : x # b => buckets'[x] = buckets[x]
      BY <1>6, <2>1
  <2>6. \A a \in Entry : a # at[c] => next'[a] = next[a]
      BY <1>6, <2>1
  <2> QED BY <1>3, <1>4, <1>5, <2>3, <2>4, <2>5, <2>6
<1>8. CASE p # 1
  <2>0. p - 1 \in DOMAIN Chain(b) /\ Chain(b)[p - 1] \in Entry
      BY <1>4, <1>5, <1>8
  <2>1. pred[c] # Null /\ pred[c] = Chain(b)[p - 1]
      BY <1>3, <1>8, <2>0, EtsAssumption
  <2>2. /\ buckets' = buckets
        /\ next' = [next EXCEPT ![Chain(b)[p - 1]] = next[Chain(b)[p]],
                                ![Chain(b)[p]] = Null]
      BY <1>3, <2>1 DEF DeleteUnlink
  <2>7. Unlinks(buckets[b], next, Chain(b), p, buckets'[b], next')
      BY <1>8, <2>2, Zenon DEF Unlinks
  <2>3. IsPath(buckets'[b], next', Drop(Chain(b), p))
      BY <1>4, <1>5, <1>6, <2>7, PathDrop
  <2>4. Chain(b)' = Drop(Chain(b), p)
      BY <2>3, ChainOfPath DEF Chain
  <2>5. \A a \in Entry : a # Chain(b)[p - 1] /\ a # Chain(b)[p] => next'[a] = next[a]
      BY <1>6, <2>2
  <2> QED BY <1>3, <1>4, <1>5, <2>0, <2>2, <2>3, <2>4, <2>5
<1> QED BY <1>7, <1>8

\* An entry leaves its chain and is freed.
LEMMA UnlinkAction ==
    ASSUME OwnBuckets, EtsInv, [Next]_vars, NEW c \in Client, DeleteUnlink(c)
    PROVE  EtsInv'
<1>0. TypeOK /\ AtAgrees /\ ChainsArePaths /\ EntriesInPlace
    BY DEF EtsInv
<1>1. PICK k, b, p, e : k = arg[c][1] /\ b = BucketOf(k) /\ p = PosOfKey(k) /\ e = at[c]
    OBVIOUS
<1>2. /\ pc[c] = "unlink"
      /\ allocated' = allocated \ {e}
      /\ key' = [key EXCEPT ![e] = Null]
      /\ value' = [value EXCEPT ![e] = 0]
      /\ ref' = [ref EXCEPT ![k] = Tail(@)]
      /\ LoadCount(c)
      /\ pc' = [pc EXCEPT ![c] = "count_down"]
      /\ UNCHANGED <<type, item_count, arg, at, pred>>
    BY <1>1 DEF DeleteUnlink, FreeEntry
<1>3. k \in KeysOf(c) /\ k \in Key /\ b \in Bucket
    BY <1>0, <1>1, <1>2, EtsAssumption DEF AtAgrees
<1>4. /\ IsFirst(p, Chain(b), key, k) /\ p \in 1 .. Len(Chain(b))
      /\ e = Chain(b)[p] /\ e \in Entry
      /\ IsPath(buckets'[b], next', Drop(Chain(b), p))
      /\ Chain(b)' = Drop(Chain(b), p)
      /\ \A x \in Bucket : x # b => buckets'[x] = buckets[x]
      /\ \A a \in Entry : (\A i \in DOMAIN Chain(b) : Chain(b)[i] # a)
                             => next'[a] = next[a]
    BY <1>1, <1>3, UnlinkLinks
<1>5. /\ Chain(b) \in Seq(Entry) /\ DOMAIN Chain(b) = 1 .. Len(Chain(b))
      /\ Len(Chain(b)) \in Nat
      /\ \A i, j \in DOMAIN Chain(b) : Chain(b)[i] = Chain(b)[j] => i = j
      /\ \A i \in DOMAIN Chain(b) : Chain(b)[i] \in Entry
    BY <1>0, <1>3, ChainFacts
<1>6. \A a \in Entry : a # e => key'[a] = key[a] /\ value'[a] = value[a]
    BY <1>0, <1>2 DEF TypeOK
<1>7. ASSUME NEW x \in Bucket, x # b
      PROVE  /\ SameChain(x) /\ IsPath(buckets'[x], next', Chain(x))
             /\ \A i \in DOMAIN Chain(x) : Chain(x)[i] \in Entry /\ Chain(x)[i] # e
  <2>1. \A i \in DOMAIN Chain(x) :
          /\ Chain(x)[i] \in Entry
          /\ \A j \in DOMAIN Chain(b) : Chain(b)[j] # Chain(x)[i]
      BY <1>0, <1>3, <1>7, ChainFacts
  <2>2. \A i \in DOMAIN Chain(x) :
          next'[Chain(x)[i]] = next[Chain(x)[i]] /\ Chain(x)[i] # e
      BY <1>4, <1>5, <2>1
  <2>3. buckets'[x] = buckets[x]
      BY <1>4, <1>7
  <2>4. Chain(x)' = Chain(x) /\ IsPath(buckets'[x], next', Chain(x))
      BY <1>0, <2>2, <2>3, ChainFrame
  <2> QED BY <1>6, <2>1, <2>2, <2>3, <2>4 DEF SameChain
<1>8. \A i \in DOMAIN Chain(b)' :
        \E j \in DOMAIN Chain(b) : j # p /\ Chain(b)'[i] = Chain(b)[j]
  <2>1. /\ Drop(Chain(b), p) \in Seq(Entry)
        /\ Len(Drop(Chain(b), p)) = Len(Chain(b)) - 1
        /\ \A j \in 1 .. Len(Chain(b)) - 1 :
              Drop(Chain(b), p)[j] = IF j < p THEN Chain(b)[j] ELSE Chain(b)[j + 1]
      BY <1>4, <1>5, DropFacts, Zenon
  <2>2. DOMAIN Drop(Chain(b), p) = 1 .. Len(Chain(b)) - 1
      BY <2>1
  <2> SUFFICES ASSUME NEW i \in 1 .. Len(Chain(b)) - 1
               PROVE  \E j \in DOMAIN Chain(b) : j # p /\ Chain(b)'[i] = Chain(b)[j]
      BY <1>4, <2>2
  <2>3. Chain(b)'[i] = IF i < p THEN Chain(b)[i] ELSE Chain(b)[i + 1]
      BY <1>4, <2>1
  <2>4. CASE i < p
    <3>1. i \in DOMAIN Chain(b) /\ i # p
        BY <1>4, <1>5, <2>4
    <3> QED BY <2>3, <2>4, <3>1
  <2>5. CASE ~(i < p)
    <3>1. i + 1 \in DOMAIN Chain(b) /\ i + 1 # p
        BY <1>4, <1>5, <2>5
    <3> QED BY <2>3, <2>5, <3>1
  <2> QED BY <2>4, <2>5
<1>9. \A i \in DOMAIN Chain(b)' : Chain(b)'[i] # e /\ Chain(b)'[i] \in Entry
    BY <1>4, <1>5, <1>8
<1>10. ChainsArePaths'
  <2> SUFFICES ASSUME NEW x \in Bucket
               PROVE  IsPath(buckets'[x], next', Chain(x)')
      BY DEF ChainsArePaths
  <2> QED BY <1>4, <1>7 DEF SameChain
<1>11. EntriesInPlace'
  <2> SUFFICES ASSUME NEW x \in Bucket, NEW i \in DOMAIN Chain(x)'
               PROVE  /\ Chain(x)'[i] \in allocated'
                      /\ key'[Chain(x)'[i]] \in Key
                      /\ BucketOf(key'[Chain(x)'[i]]) = x
      BY DEF EntriesInPlace
  <2>1. PICK j \in DOMAIN Chain(x) : Chain(x)'[i] = Chain(x)[j]
      BY <1>7, <1>8 DEF SameChain
  <2>2. Chain(x)'[i] # e /\ Chain(x)'[i] \in Entry
      BY <1>7, <1>9 DEF SameChain
  <2>3. /\ Chain(x)[j] \in allocated /\ key[Chain(x)[j]] \in Key
        /\ BucketOf(key[Chain(x)[j]]) = x
      BY <1>0 DEF EntriesInPlace
  <2> QED BY <1>2, <1>6, <2>1, <2>2, <2>3
<1>12. /\ ref \in [Key -> Seq(SmallInts)] /\ ref'[k] = Tail(ref[k])
       /\ \A l \in Key : l # k => ref'[l] = ref[l]
       /\ \A l \in Key : ref[l] \in Seq(SmallInts)
    BY <1>2, <1>3 DEF EtsInv, RefIsListed
<1>13. /\ Tail(ref[k]) \in Seq(SmallInts)
       /\ Len(Tail(ref[k])) = Len(ref[k]) - 1
       /\ Len(ref[k]) \in Nat
  <2>1. Lists(Chain(b), key, value, k, ref[k]) /\ ref[k] \in Seq(SmallInts)
      BY <1>1, <1>3, <1>12 DEF EtsInv, RefIsListed
  <2>2. ref[k] # << >>
      BY <1>4, <2>1, ListsEmpty DEF IsFirst
  <2> QED BY <2>1, <2>2, HeadTailProperties, EmptySeq
<1>14. RefIsListed'
  <2>1. ref' \in [Key -> Seq(SmallInts)]
      BY <1>2, <1>3, <1>12, <1>13
  <2>2. ASSUME NEW l \in Key
        PROVE  Lists(Chain(BucketOf(l))', key', value', l, ref'[l])
    <3>1. Lists(Chain(BucketOf(l)), key, value, l, ref[l]) /\ ref[l] \in Seq(SmallInts)
        BY <1>12 DEF EtsInv, RefIsListed
    <3>2. BucketOf(l) \in Bucket
        BY EtsAssumption
    <3>3. Lists(Chain(BucketOf(l))', key, value, l, ref'[l])
      <4>1. CASE l = k
          BY <1>1, <1>4, <1>5, <1>12, <3>1, <4>1, ListsDrop
      <4>2. CASE l # k /\ BucketOf(l) = b
        <5>1. p \in DOMAIN Chain(b) /\ key[Chain(b)[p]] # l
            BY <1>4, <4>2 DEF IsFirst
        <5>2. Lists(Drop(Chain(b), p), key, value, l, ref[l])
            BY <1>5, <3>1, <4>2, <5>1, ListsDropOther
        <5> QED BY <1>4, <1>12, <4>2, <5>2
      <4>3. CASE BucketOf(l) # b
          BY <1>1, <1>7, <1>12, <3>1, <3>2, <4>3 DEF SameChain
      <4> QED BY <4>1, <4>2, <4>3
    <3>4. \A i \in DOMAIN Chain(BucketOf(l))' :
            /\ Chain(BucketOf(l))'[i] \in Entry
            /\ Chain(BucketOf(l))'[i] # e
        BY <1>7, <1>9, <3>2 DEF SameChain
    <3>5. \A i \in DOMAIN Chain(BucketOf(l))' :
            /\ key'[Chain(BucketOf(l))'[i]] = key[Chain(BucketOf(l))'[i]]
            /\ value'[Chain(BucketOf(l))'[i]] = value[Chain(BucketOf(l))'[i]]
        BY <1>6, <3>4
    <3> QED BY <3>3, <3>5, ListsFrame
  <2>3. ASSUME IsSet, NEW l \in Key
        PROVE  Len(ref'[l]) <= 1
    <3>1. Len(ref[l]) <= 1
        BY <2>3 DEF EtsInv, RefIsListed
    <3>2. CASE l = k
        BY <1>12, <1>13, <3>1, <3>2
    <3>3. CASE l # k
        BY <1>12, <3>1, <3>3
    <3> QED BY <3>2, <3>3
  <2>4. IsSet' = IsSet
      BY <1>2 DEF IsSet
  <2> QED BY <2>1, <2>2, <2>3, <2>4 DEF RefIsListed
<1>15. OthersKeep(c) /\ pc'[c] = "count_down"
    BY <1>0, <1>2 DEF OthersKeep, TypeOK, LoadCount
<1>16. ~HasNew(c)' /\ ~HasFound(c)'
    BY <1>15 DEF HasNew, HasFound
<1>17. ASSUME NEW d \in Client \ {c}, HasNew(d)
       PROVE  /\ at[d] \in allocated' /\ key'[at[d]] = key[at[d]]
              /\ value'[at[d]] = value[at[d]] /\ next'[at[d]] = next[at[d]]
              /\ \A i \in DOMAIN Chain(BucketOf(k))' : Chain(BucketOf(k))'[i] # at[d]
  <2>1. at[d] \in allocated /\ NotChained(at[d])
      BY <1>17 DEF EtsInv, NewAgrees, NewIsReady
  <2>2. at[d] \in Entry /\ \A i \in DOMAIN Chain(b) : Chain(b)[i] # at[d]
      BY <1>0, <1>3, <2>1 DEF NotChained, TypeOK
  <2>3. at[d] # e
      BY <1>4, <1>5, <2>2
  <2> QED BY <1>1, <1>2, <1>4, <1>6, <1>8, <2>1, <2>2, <2>3
<1>18. type' = type
    BY <1>2
<1> QED BY <1>1, <1>3, <1>7, <1>10, <1>11, <1>14, <1>15, <1>16, <1>17, <1>18, Assemble

LEMMA EtsInit == Init => EtsInv
<1> SUFFICES ASSUME Init
             PROVE  EtsInv
    OBVIOUS
<1>1. TypeOK /\ AtAgrees
    BY TypeInit
<1>2. NewAgrees /\ NewDiffer /\ FoundAgrees
    BY DEF Init, NewAgrees, NewDiffer, FoundAgrees, HasNew, HasFound
<1>3. ASSUME NEW b \in Bucket
      PROVE  IsPath(buckets[b], next, << >>) /\ Chain(b) = << >>
  <2>1. IsPath(buckets[b], next, << >>)
      BY DEF Init, IsPath
  <2> QED BY <2>1, ChainOfPath DEF Chain
<1>4. ChainsArePaths /\ EntriesInPlace
    BY <1>3 DEF ChainsArePaths, EntriesInPlace
<1>5. RefIsListed
  <2>1. ref \in [Key -> Seq(SmallInts)] /\ \A k \in Key : ref[k] = << >>
      BY DEF Init
  <2>2. ASSUME NEW k \in Key
        PROVE  Lists(Chain(BucketOf(k)), key, value, k, << >>)
    <3>1. Chain(BucketOf(k)) = << >>
        BY <1>3, EtsAssumption
    <3>2. << >> \in [1 .. Len(<< >>) -> DOMAIN << >>]
        OBVIOUS
    <3>3. Listing(<< >>, << >>, key, value, k, << >>)
        BY <3>2 DEF Listing
    <3> QED BY <3>1, <3>3, ListsByListing
  <2> QED BY <2>1, <2>2 DEF RefIsListed
<1> QED BY <1>1, <1>2, <1>4, <1>5 DEF EtsInv

\* Whatever step is taken, chains, entries and values stay in step.
LEMMA EtsStep ==
    ASSUME OwnBuckets
    PROVE  EtsInv /\ [Next]_vars => EtsInv'
<1> SUFFICES ASSUME EtsInv, [Next]_vars
             PROVE  EtsInv'
    OBVIOUS
<1>1. CASE UNCHANGED vars
  <2>1. UNCHANGED <<type, buckets, key, value, next, allocated, item_count, pc, arg,
                    at, pred, tmp, ref, raced>>
      BY <1>1 DEF vars, tableVars
  <2>2. \A b : Chain(b)' = Chain(b)
      BY <2>1 DEF Chain
  <2>3. \A k : /\ PositionsOf(k)' = PositionsOf(k) /\ PosOfKey(k)' = PosOfKey(k)
               /\ EntryOfKey(k)' = EntryOfKey(k) /\ PredOfKey(k)' = PredOfKey(k)
      BY <2>1, <2>2, SearchFrame
  <2>4. TypeOK' /\ AtAgrees' /\ IsSet' = IsSet
      BY <2>1, TypeStep DEF EtsInv, IsSet
  <2>5. ChainsArePaths' /\ EntriesInPlace'
      BY <2>1, <2>2 DEF EtsInv, ChainsArePaths, EntriesInPlace
  <2>6. NewAgrees' /\ NewDiffer'
      BY <2>1, <2>2, <2>3, <2>4 DEF EtsInv, NewAgrees, NewDiffer, HasNew, NewIsReady,
                                   NotChained, BagHolds
  <2>7. FoundAgrees'
      BY <2>1, <2>3, <2>4 DEF EtsInv, FoundAgrees, HasFound, FoundIsFirst
  <2>8. RefIsListed'
      BY <2>1, <2>2, <2>4 DEF EtsInv, RefIsListed
  <2> QED BY <2>4, <2>5, <2>6, <2>7, <2>8 DEF EtsInv
<1>2. ASSUME NEW c \in Client, Operate(c)
      PROVE  EtsInv'
    BY <1>2, SearchActions, InsertNewAction DEF Operate
<1>3. ASSUME NEW c \in Client, Continue(c)
      PROVE  EtsInv'
    BY <1>3, StoreActions, LoadHeadAction, StoreHeadAction, CountActions, UnlinkAction
       DEF Continue
<1> QED BY <1>1, <1>2, <1>3 DEF Next

LEMMA EtsAlways ==
    ASSUME OwnBuckets
    PROVE  Spec => []EtsInv
BY EtsInit, EtsStep, PTL DEF Spec

\* Clients that share no bucket: the table holds for every key exactly the values
\* that the operations left, and a lookup returns the newest (ContentsRight;
\* ets.c:61-164), after every step of every interleaving.
THEOREM ContentsCorrect ==
    ASSUME OwnBuckets
    PROVE  Spec => []ContentsRight
<1>1. EtsInv => ContentsRight
  <2> SUFFICES ASSUME EtsInv, NEW k \in Key
               PROVE  /\ Lists(Chain(BucketOf(k)), key, value, k, ref[k])
                      /\ beam_ets_lookup(k) = IF ref[k] = << >> THEN Null ELSE ref[k][1]
      BY DEF ContentsRight
  <2>1. /\ Lists(Chain(BucketOf(k)), key, value, k, ref[k])
        /\ ref[k] \in Seq(SmallInts) /\ BucketOf(k) \in Bucket
      BY EtsAssumption DEF EtsInv, RefIsListed
  <2>2. ref[k] = << >> <=> PositionsOf(k) = {}
      BY <2>1, ListsEmpty DEF PositionsOf
  <2>3. ASSUME PositionsOf(k) # {}
        PROVE  value[EntryOfKey(k)] = ref[k][1]
    <3>1. PICK f : Listing(f, Chain(BucketOf(k)), key, value, k, ref[k])
        BY <2>1, ListsByListing
    <3>2. Chain(BucketOf(k)) \in Seq(Entry)
        BY <2>1, ChainFacts DEF EtsInv
    <3>3. /\ IsFirst(PosOfKey(k), Chain(BucketOf(k)), key, k)
          /\ EntryOfKey(k) = Chain(BucketOf(k))[PosOfKey(k)]
        BY <2>3, FoundFirst DEF EtsInv
    <3>4. /\ Len(ref[k]) \in Nat \ {0}
          /\ f[1] = PosOfKey(k)
          /\ value[Chain(BucketOf(k))[PosOfKey(k)]] = ref[k][1]
          /\ \A i \in 2 .. Len(ref[k]) : f[i] > PosOfKey(k)
        BY <2>1, <3>1, <3>2, <3>3, ListsFirst, Zenon
    <3> QED BY <3>3, <3>4
  <2> QED BY <2>1, <2>2, <2>3 DEF beam_ets_lookup
<1> QED BY <1>1, EtsAlways, PTL

\* Clients that share no bucket walk through no entry that another has freed
\* (NoFreedEntryLinked; ets.c:119-137).
THEOREM NoDangling ==
    ASSUME OwnBuckets
    PROVE  Spec => []NoFreedEntryLinked
<1>1. EtsInv => NoFreedEntryLinked
    BY DEF EtsInv, EntriesInPlace, NoFreedEntryLinked
<1> QED BY <1>1, EtsAlways, PTL

-----------------------------------------------------------------------------
\* The item count

LEMMA CountsAreNat ==
    ASSUME EtsInv
    PROVE  /\ IsFiniteSet(Uncounted) /\ Cardinality(Uncounted) \in Nat
           /\ IsFiniteSet(Overcounted) /\ Cardinality(Overcounted) \in Nat
           /\ IsFiniteSet(allocated) /\ Cardinality(allocated) \in Nat
           /\ Cardinality(allocated) <= Size
           /\ item_count \in Nat
<1>1. Uncounted \in SUBSET Client /\ Overcounted \in SUBSET Client
    BY DEF Uncounted, Overcounted
<1>2. allocated \in SUBSET Entry
    BY DEF EtsInv, TypeOK
<1>3. IsFiniteSet(Uncounted) /\ IsFiniteSet(Overcounted)
    BY <1>1, CountAssumption, FS_Subset
<1>4. IsFiniteSet(allocated) /\ Cardinality(allocated) <= Size
    BY <1>2, CountAssumption, FS_Subset DEF Size
<1>5. item_count \in Nat
    BY CountRange DEF EtsInv, TypeOK
<1> QED BY <1>3, <1>4, <1>5, FS_CardinalityType

LEMMA OneMore ==
    ASSUME NEW S, IsFiniteSet(S), NEW x, x \notin S
    PROVE  Cardinality(S \cup {x}) = Cardinality(S) + 1
BY FS_AddElement

LEMMA OneLess ==
    ASSUME NEW S, IsFiniteSet(S), NEW x, x \in S
    PROVE  Cardinality(S \ {x}) = Cardinality(S) - 1
BY FS_RemoveElement

\* Whom a step of c adds to the clients with an uncounted or overcounted entry.
LEMMA StageSets ==
    ASSUME TypeOK, NEW c \in Client, OthersKeep(c)
    PROVE  /\ pc'[c] \in {"load_head", "store_head", "count_up"}
                => Uncounted' = Uncounted \cup {c}
           /\ pc'[c] \notin {"load_head", "store_head", "count_up"}
                => Uncounted' = Uncounted \ {c}
           /\ pc'[c] = "count_down" => Overcounted' = Overcounted \cup {c}
           /\ pc'[c] # "count_down" => Overcounted' = Overcounted \ {c}
BY DEF Uncounted, Overcounted, OthersKeep

\* A step that leaves counts and entries alone.
LEMMA CountFrame ==
    ASSUME EtsInv, CountInv, NEW c \in Client, OthersKeep(c),
           pc[c] \notin Counting, pc'[c] \notin Counting,
           HasNew(c) <=> HasNew(c)',
           UNCHANGED <<allocated, item_count, raced>>
    PROVE  CountInv'
<1>1. Uncounted' = Uncounted /\ Overcounted' = Overcounted
    BY DEF Uncounted, Overcounted, OthersKeep, Counting, HasNew
<1> QED BY <1>1 DEF CountInv, OthersKeep

\* The load of the count by c, after which c is the only one who has loaded it
\* or two updates overlap.
LEMMA CountLoads ==
    ASSUME EtsInv, CountInv, NEW c \in Client, OthersKeep(c), LoadCount(c),
           pc[c] \notin Counting, item_count' = item_count, ~raced'
    PROVE  /\ ~raced
           /\ \A d, e \in Client : pc'[d] \in Counting /\ pc'[e] \in Counting => d = e
           /\ \A d \in Client : pc'[d] \in Counting => tmp'[d] = item_count'
<1>1. ~raced /\ \A d \in Client \ {c} : pc[d] \notin Counting
    BY DEF LoadCount, Counting
<1>2. tmp'[c] = item_count
    BY DEF LoadCount, EtsInv, TypeOK
<1>3. \A d \in Client \ {c} : pc'[d] \notin Counting
    BY <1>1 DEF OthersKeep
<1> QED BY <1>1, <1>2, <1>3

\* Entries that are not linked yet are allocated, each for one client.
LEMMA NewAreAllocated ==
    ASSUME EtsInv, \A c \in Client : pc[c] # "count_up"
    PROVE  Cardinality(Uncounted) <= Cardinality(allocated)
<1>1. \A c \in Uncounted : c \in Client /\ HasNew(c) /\ at[c] \in allocated
    BY DEF Uncounted, HasNew, EtsInv, NewAgrees, NewIsReady
<1>2. \A c, d \in Uncounted : at[c] = at[d] => c = d
    BY <1>1 DEF EtsInv, NewDiffer
<1>3. [c \in Uncounted |-> at[c]] \in Injection(Uncounted, allocated)
    BY <1>1, <1>2 DEF Injection, IsInjective
<1> QED BY <1>3, CountsAreNat, FS_Injection

LEMMA CountInsertNew ==
    ASSUME EtsInv, CountInv, NEW c \in Client, NEW k \in KeysOf(c), NEW v \in Value,
           InsertNew(c, k, v)
    PROVE  CountInv'
<1>0. TypeOK
    BY DEF EtsInv
<1>1. PICK e \in Entry \ allocated :
        allocated' = allocated \cup {e} /\ at' = [at EXCEPT ![c] = e]
    BY DEF InsertNew
<1>2. /\ pc[c] = "idle" /\ Begin(c, "load_head", k, v)
      /\ UNCHANGED <<item_count, pred, tmp, raced>>
    BY DEF InsertNew, MayBegin
<1>3. /\ pc'[c] = "load_head"
      /\ \A d \in Client \ {c} : pc'[d] = pc[d] /\ arg'[d] = arg[d]
    BY <1>0, <1>2, BeginEffect
<1>4. OthersKeep(c)
    BY <1>0, <1>1, <1>2, <1>3 DEF OthersKeep, TypeOK
<1>5. Uncounted' = Uncounted \cup {c} /\ Overcounted' = Overcounted \ {c}
    BY <1>0, <1>3, <1>4, StageSets
<1>6. c \notin Uncounted /\ c \notin Overcounted
    BY <1>2 DEF Uncounted, Overcounted
<1>7. /\ Cardinality(Uncounted') = Cardinality(Uncounted) + 1
      /\ Cardinality(allocated') = Cardinality(allocated) + 1
      /\ Overcounted' = Overcounted
  <2>1. IsFiniteSet(Uncounted) /\ IsFiniteSet(allocated) /\ e \notin allocated
      BY <1>1, CountsAreNat
  <2>2. Cardinality(Uncounted \cup {c}) = Cardinality(Uncounted) + 1
      BY <1>6, <2>1, OneMore
  <2>3. Cardinality(allocated \cup {e}) = Cardinality(allocated) + 1
      BY <2>1, OneMore
  <2> QED BY <1>1, <1>5, <1>6, <2>2, <2>3
<1> SUFFICES ASSUME ~raced'
             PROVE  /\ \A a, d \in Client :
                          pc'[a] \in Counting /\ pc'[d] \in Counting => a = d
                    /\ \A d \in Client : pc'[d] \in Counting => tmp'[d] = item_count'
                    /\ item_count' + Cardinality(Uncounted')
                          = Cardinality(allocated') + Cardinality(Overcounted')
    BY DEF CountInv
<1>8. ~raced
    BY <1>2
<1>9. item_count + Cardinality(Uncounted) = Cardinality(allocated) + Cardinality(Overcounted)
    BY <1>8 DEF CountInv
<1>10. item_count' + Cardinality(Uncounted')
          = Cardinality(allocated') + Cardinality(Overcounted')
    BY <1>2, <1>7, <1>9, CountsAreNat
<1>11. /\ \A a, d \in Client : pc'[a] \in Counting /\ pc'[d] \in Counting => a = d
       /\ \A d \in Client : pc'[d] \in Counting => tmp'[d] = item_count'
    BY <1>2, <1>3, <1>8 DEF CountInv, Counting
<1> QED BY <1>10, <1>11

LEMMA CountStoreHead ==
    ASSUME EtsInv, CountInv, NEW c \in Client, InsertStoreHead(c)
    PROVE  CountInv'
<1>0. TypeOK
    BY DEF EtsInv
<1>1. /\ pc[c] = "store_head" /\ LoadCount(c) /\ pc' = [pc EXCEPT ![c] = "count_up"]
      /\ UNCHANGED <<allocated, item_count, arg, at, pred>>
    BY DEF InsertStoreHead
<1>2. OthersKeep(c) /\ pc'[c] = "count_up"
    BY <1>0, <1>1 DEF OthersKeep, TypeOK, LoadCount
<1>3. Uncounted' = Uncounted \cup {c} /\ Overcounted' = Overcounted \ {c}
    BY <1>0, <1>2, StageSets
<1>4. c \in Uncounted /\ c \notin Overcounted
    BY <1>1 DEF Uncounted, Overcounted
<1>5. Uncounted' = Uncounted /\ Overcounted' = Overcounted
    BY <1>3, <1>4
<1>6. ASSUME ~raced'
      PROVE  /\ ~raced
             /\ \A d, e \in Client : pc'[d] \in Counting /\ pc'[e] \in Counting => d = e
             /\ \A d \in Client : pc'[d] \in Counting => tmp'[d] = item_count'
    BY <1>1, <1>2, <1>6, CountLoads DEF Counting
<1> QED BY <1>1, <1>5, <1>6 DEF CountInv

LEMMA CountUnlink ==
    ASSUME EtsInv, CountInv, NEW c \in Client, DeleteUnlink(c)
    PROVE  CountInv'
<1>0. TypeOK /\ AtAgrees /\ ChainsArePaths /\ EntriesInPlace
    BY DEF EtsInv
<1>1. /\ pc[c] = "unlink" /\ LoadCount(c) /\ pc' = [pc EXCEPT ![c] = "count_down"]
      /\ allocated' = allocated \ {at[c]}
      /\ UNCHANGED <<item_count, arg, at, pred>>
    BY DEF DeleteUnlink, FreeEntry
<1>2. OthersKeep(c) /\ pc'[c] = "count_down"
    BY <1>0, <1>1 DEF OthersKeep, TypeOK, LoadCount
<1>3. Uncounted' = Uncounted \ {c} /\ Overcounted' = Overcounted \cup {c}
    BY <1>0, <1>2, StageSets
<1>4. c \notin Uncounted /\ c \notin Overcounted
    BY <1>1 DEF Uncounted, Overcounted
<1>5. at[c] \in allocated
  <2>1. FoundIsFirst(c) /\ arg[c][1] \in Key
      BY <1>0, <1>1, EtsAssumption DEF EtsInv, FoundAgrees, HasFound, AtAgrees
  <2> QED BY <1>0, <2>1, FoundFirst DEF FoundIsFirst
<1>6. /\ Uncounted' = Uncounted
      /\ Cardinality(Overcounted') = Cardinality(Overcounted) + 1
      /\ Cardinality(allocated') = Cardinality(allocated) - 1
  <2>1. IsFiniteSet(Overcounted) /\ IsFiniteSet(allocated)
      BY CountsAreNat
  <2>2. Cardinality(Overcounted \cup {c}) = Cardinality(Overcounted) + 1
      BY <1>4, <2>1, OneMore
  <2>3. Cardinality(allocated \ {at[c]}) = Cardinality(allocated) - 1
      BY <1>5, <2>1, OneLess
  <2> QED BY <1>1, <1>3, <1>4, <2>2, <2>3
<1>7. ASSUME ~raced'
      PROVE  /\ ~raced
             /\ \A d, e \in Client : pc'[d] \in Counting /\ pc'[e] \in Counting => d = e
             /\ \A d \in Client : pc'[d] \in Counting => tmp'[d] = item_count'
    BY <1>1, <1>2, <1>7, CountLoads DEF Counting
<1>8. ASSUME ~raced'
      PROVE  item_count' + Cardinality(Uncounted')
                = Cardinality(allocated') + Cardinality(Overcounted')
  <2>1. item_count + Cardinality(Uncounted)
          = Cardinality(allocated) + Cardinality(Overcounted)
      BY <1>7, <1>8 DEF CountInv
  <2> QED BY <1>1, <1>6, <2>1, CountsAreNat
<1> QED BY <1>7, <1>8 DEF CountInv

\* A number below the modulus is its own remainder.
LEMMA SmallRemainder ==
    ASSUME NEW modulus \in Nat, NEW n \in 0 .. modulus - 1
    PROVE  n % modulus = n
BY SMT

\* The store of the count by the only client that has loaded it.
LEMMA CountStores ==
    ASSUME EtsInv, CountInv, NEW c \in Client, InsertStoreCount(c) \/ DeleteStoreCount(c)
    PROVE  CountInv'
<1>0. TypeOK
    BY DEF EtsInv
<1>1. /\ pc[c] \in Counting /\ End(c) /\ UNCHANGED <<allocated, raced>>
      /\ pc[c] = "count_up" => item_count' = (tmp[c] + 1) % 2 ^ CountBits
      /\ pc[c] = "count_down" => item_count' = (tmp[c] - 1) % 2 ^ CountBits
    BY DEF InsertStoreCount, DeleteStoreCount, Counting
<1>2. OthersKeep(c) /\ pc'[c] = "idle"
    BY <1>0, <1>1, EndEffect DEF End, TypeOK
<1>3. Uncounted' = Uncounted \ {c} /\ Overcounted' = Overcounted \ {c}
    BY <1>0, <1>2, StageSets
<1> SUFFICES ASSUME ~raced'
             PROVE  /\ \A d \in Client : pc'[d] \notin Counting
                    /\ item_count' + Cardinality(Uncounted')
                          = Cardinality(allocated') + Cardinality(Overcounted')
    BY DEF CountInv
<1>4. /\ \A d \in Client : pc[d] \in Counting => d = c
      /\ tmp[c] = item_count
      /\ item_count + Cardinality(Uncounted)
            = Cardinality(allocated) + Cardinality(Overcounted)
    BY <1>1 DEF CountInv
<1>5. \A d \in Client : pc'[d] \notin Counting
    BY <1>2, <1>4 DEF OthersKeep, Counting
<1>6. /\ item_count \in Nat /\ Size < 2 ^ CountBits /\ 2 ^ CountBits \in Nat
      /\ Cardinality(allocated) \in Nat /\ Cardinality(allocated) <= Size
      /\ Cardinality(Uncounted) \in Nat /\ Size \in Nat
    BY CountsAreNat, CountAssumption, CountRange, SizeIsNat DEF Size
<1>7. CASE pc[c] = "count_up"
  <2>1. c \in Uncounted /\ Overcounted = {} /\ Overcounted' = {}
      BY <1>3, <1>4, <1>7 DEF Uncounted, Overcounted, Counting
  <2>2. /\ Cardinality(Overcounted) = 0 /\ Cardinality(Overcounted') = 0
        /\ Cardinality(Uncounted') = Cardinality(Uncounted) - 1
      BY <1>3, <2>1, CountsAreNat, FS_EmptySet, FS_RemoveElement
  <2>3. Cardinality(Uncounted) # 0
      BY <2>1, CountsAreNat, FS_EmptySet
  <2>4. item_count + 1 \in 0 .. 2 ^ CountBits - 1
      BY <1>4, <1>6, <2>2, <2>3
  <2>5. item_count' = item_count + 1
    <3>1. (item_count + 1) % 2 ^ CountBits = item_count + 1
        BY <1>6, <2>4, SmallRemainder
    <3>2. item_count' = (tmp[c] + 1) % 2 ^ CountBits
        BY <1>1, <1>7, Zenon
    <3> QED BY <1>4, <3>1, <3>2, Zenon
  <2> QED BY <1>1, <1>4, <1>5, <1>6, <2>2, <2>5
<1>8. CASE pc[c] = "count_down"
  <2>1. /\ c \notin Uncounted /\ Overcounted = {c} /\ Overcounted' = {}
        /\ \A d \in Client : pc[d] # "count_up"
      BY <1>3, <1>4, <1>8 DEF Uncounted, Overcounted, Counting
  <2>2. /\ Cardinality(Overcounted) = 1 /\ Cardinality(Overcounted') = 0
        /\ Uncounted' = Uncounted
      BY <1>3, <2>1, FS_EmptySet, FS_Singleton
  <2>3. Cardinality(Uncounted) <= Cardinality(allocated)
      BY <2>1, NewAreAllocated
  <2>4. item_count - 1 \in 0 .. 2 ^ CountBits - 1
    <3>1. item_count \in 0 .. 2 ^ CountBits - 1
        BY <1>0 DEF TypeOK
    <3> QED BY <1>4, <1>6, <2>2, <2>3, <3>1
  <2>5. item_count' = item_count - 1
    <3>1. (item_count - 1) % 2 ^ CountBits = item_count - 1
        BY <1>6, <2>4, SmallRemainder
    <3>2. item_count' = (tmp[c] - 1) % 2 ^ CountBits
        BY <1>1, <1>8, Zenon
    <3> QED BY <1>4, <3>1, <3>2, Zenon
  <2> QED BY <1>1, <1>4, <1>5, <1>6, <2>2, <2>5
<1> QED BY <1>1, <1>7, <1>8 DEF Counting

LEMMA CountStep ==
    ASSUME EtsInv, CountInv, [Next]_vars
    PROVE  CountInv'
<1>0. TypeOK
    BY DEF EtsInv
<1>1. CASE UNCHANGED vars
    BY <1>1 DEF vars, tableVars, CountInv, Uncounted, Overcounted
<1>2. ASSUME NEW c \in Client, NEW k \in KeysOf(c),
             \/ \E v \in Value : InsertFindsKey(c, k, v)
             \/ DeleteFinds(c, k) \/ CounterLoads(c, k)
      PROVE  CountInv'
  <2>0. PICK label \in {"store_value", "unlink", "store_counter"} :
          \E v : Begin(c, label, k, v)
      BY <1>2 DEF InsertFindsKey, DeleteFinds, CounterLoads
  <2>1. PICK v : Begin(c, label, k, v)
      BY <2>0
  <2>2. /\ pc[c] = "idle" /\ UNCHANGED <<allocated, item_count, raced>>
        /\ \A d \in Client \ {c} : at'[d] = at[d] /\ pred'[d] = pred[d] /\ tmp'[d] = tmp[d]
      BY <1>0, <1>2 DEF InsertFindsKey, DeleteFinds, CounterLoads, MayBegin, tableVars, TypeOK
  <2>3. /\ pc'[c] = label
        /\ \A d \in Client \ {c} : pc'[d] = pc[d] /\ arg'[d] = arg[d]
      BY <1>0, <2>1, BeginEffect
  <2> QED BY <2>2, <2>3, CountFrame DEF OthersKeep, Counting, HasNew
<1>3. ASSUME NEW c \in Client, InsertLoadHead(c)
      PROVE  CountInv'
  <2>1. /\ pc[c] = "load_head" /\ pc' = [pc EXCEPT ![c] = "store_head"]
        /\ UNCHANGED <<allocated, item_count, arg, at, pred, tmp, raced>>
      BY <1>3 DEF InsertLoadHead
  <2>2. OthersKeep(c) /\ pc'[c] = "store_head"
      BY <1>0, <2>1 DEF OthersKeep, TypeOK
  <2> QED BY <2>1, <2>2, CountFrame DEF Counting, HasNew
<1>4. ASSUME NEW c \in Client, InsertStoreValue(c) \/ CounterStores(c)
      PROVE  CountInv'
  <2>1. /\ pc[c] \in {"store_value", "store_counter"} /\ End(c)
        /\ UNCHANGED <<allocated, item_count, raced>>
      BY <1>4 DEF InsertStoreValue, CounterStores
  <2>2. OthersKeep(c) /\ pc'[c] = "idle"
      BY <1>0, <2>1, EndEffect DEF End, TypeOK
  <2> QED BY <2>1, <2>2, CountFrame DEF Counting, HasNew
<1>5. ASSUME NEW c \in Client, Operate(c)
      PROVE  CountInv'
    BY <1>2, <1>5, CountInsertNew DEF Operate
<1>6. ASSUME NEW c \in Client, Continue(c)
      PROVE  CountInv'
    BY <1>3, <1>4, <1>6, CountStoreHead, CountUnlink, CountStores DEF Continue
<1> QED BY <1>1, <1>5, <1>6 DEF Next

\* Clients that share no bucket and whose updates of the count do not overlap
\* leave it at the number of entries (CountRight; ets.c:97, :132).
THEOREM CountCorrect ==
    ASSUME OwnBuckets
    PROVE  Spec => []CountRight
<1>1. Init => CountInv
  <2> SUFFICES ASSUME Init
               PROVE  CountInv
      OBVIOUS
  <2>1. Uncounted = {} /\ Overcounted = {} /\ allocated = {} /\ item_count = 0
      BY DEF Init, Uncounted, Overcounted
  <2>2. \A c \in Client : pc[c] \notin Counting
      BY DEF Init, Counting
  <2> QED BY <2>1, <2>2, FS_EmptySet DEF CountInv
<1>2. EtsInv /\ CountInv /\ [Next]_vars => CountInv'
    BY CountStep
<1>3. EtsInv /\ CountInv => CountRight
  <2> SUFFICES ASSUME EtsInv, CountInv, ~raced, \A c \in Client : pc[c] = "idle"
               PROVE  item_count = Cardinality(allocated)
      BY DEF CountRight
  <2>1. Uncounted = {} /\ Overcounted = {}
      BY DEF Uncounted, Overcounted
  <2>2. item_count + 0 = Cardinality(allocated) + 0
      BY <2>1, FS_EmptySet DEF CountInv
  <2> QED BY <2>2, CountsAreNat
<1> QED BY <1>1, <1>2, <1>3, EtsAlways, PTL DEF Spec
=============================================================================
