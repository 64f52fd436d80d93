--------------------------- MODULE AtomTableProofs ---------------------------
(***************************************************************************)
(* Proofs about the atom table, for any set of names, any number of        *)
(* callers, any hash function and any initial size of the index map.       *)
(***************************************************************************)
EXTENDS AtomTable, TLAPS

(***************************************************************************)
(* The inductive invariant, part by part.                                  *)
(***************************************************************************)

\* A caller has a name to intern exactly while it is in a call.
CallAgrees ==
    \A c \in Caller : /\ pc[c] \in {"read", "write"} => want[c] \in Name
                      /\ pc[c] = "idle" => want[c] = NoName

\* An entry is chained in the bucket of its name, and the map leads to it.
ChainsAreMapped ==
    \A b \in Bucket : \A e \in buckets[b] :
        /\ BucketOf(e.name) = b
        /\ e.index < count
        /\ index_map[e.index] = e

\* The map is written up to count, and what it holds is chained.
MapIsChained ==
    \A i \in 0 .. count - 1 :
        /\ index_map[i] \in Entry
        /\ index_map[i].index = i
        /\ index_map[i] \in buckets[BucketOf(index_map[i].name)]

\* No two atoms have the same name.
NamesDiffer ==
    \A i, j \in 0 .. count - 1 : index_map[i].name = index_map[j].name => i = j

\* A caller has only been given atoms of the table.
IssuedIsMapped ==
    \A pair \in issued :
        \E i \in 0 .. count - 1 : pair = <<index_map[i].name, atom_eterm(i)>>

IInv ==
    TypeOK /\ CallAgrees /\ ChainsAreMapped /\ MapIsChained /\ NamesDiffer /\ IssuedIsMapped

-----------------------------------------------------------------------------
(* The operators the table is built from. *)

\* The assumptions on the constants, one by one.
LEMMA ConstantFacts ==
    /\ NoName \notin Name
    /\ \A name \in Name : BucketOf(name) \in Bucket
    /\ InitialCapacity \in Nat /\ InitialCapacity > 0
  BY AtomAssumption

\* The fields of an entry, and the entry with given fields.
LEMMA EntryFacts ==
    /\ \A e \in Entry : e.name \in Name /\ e.index \in Nat
    /\ \A n \in Name, i \in Nat :
         LET e == [name |-> n, index |-> i]
         IN  e \in Entry /\ e.name = n /\ e.index = i
  BY DEF Entry

\* Making a term and taking it apart: the index survives, the tag is an atom's
\* and two indices never share a term.
LEMMA TermFacts ==
    /\ \A i \in Nat : /\ atom_eterm(i) \in Term
                      /\ atom_eterm(i) % 16 = TAG_IMMED1_ATOM
                      /\ atom_index(atom_eterm(i)) = i
    /\ \A i, j \in Nat : atom_eterm(i) = atom_eterm(j) => i = j
  <1>1. ASSUME NEW i \in Nat
        PROVE  (i * 16 + 11) % 16 = 11 /\ (i * 16 + 11) \div 16 = i
    OBVIOUS
  <1>2. \A i \in Nat : i * 16 + 11 \in Nat
    OBVIOUS
  <1>3. \A i \in Nat : /\ atom_eterm(i) \in Term
                       /\ atom_eterm(i) % 16 = TAG_IMMED1_ATOM
                       /\ atom_index(atom_eterm(i)) = i
    BY <1>1, <1>2 DEF atom_eterm, atom_index, Term, TAG_IMMED1_ATOM
  <1>4. \A i, j \in Nat : atom_eterm(i) = atom_eterm(j) => i = j
    BY <1>3
  <1> QED BY <1>3, <1>4

\* The types that the proofs use, one by one.
LEMMA TypeFacts ==
    ASSUME TypeOK
    PROVE  /\ count \in Nat /\ count <= index_map_capacity
           /\ index_map_capacity \in Nat /\ index_map_capacity > 0
           /\ index_map \in [0 .. index_map_capacity - 1 -> Entry \cup {Uninit}]
           /\ buckets \in [Bucket -> SUBSET Entry]
  BY DEF TypeOK

\* Growing the map makes room for one more atom and keeps those it has.
LEMMA GrowFacts ==
    ASSUME TypeOK
    PROVE  /\ GrownCapacity \in Nat /\ GrownCapacity > 0 /\ count < GrownCapacity
           /\ GrownMap \in [0 .. GrownCapacity - 1 -> Entry \cup {Uninit}]
           /\ \A i \in 0 .. count - 1 : GrownMap[i] = index_map[i]
  <1>1. CASE count >= index_map_capacity
    <2>1. count = index_map_capacity /\ GrownCapacity = 2 * index_map_capacity
      BY <1>1, TypeFacts DEF GrownCapacity
    <2>2. GrownMap = [i \in 0 .. 2 * index_map_capacity - 1 |->
                        IF i < index_map_capacity THEN index_map[i] ELSE Uninit]
      BY <1>1 DEF GrownMap
    <2>3. \A i \in 0 .. 2 * index_map_capacity - 1 :
            i < index_map_capacity => i \in 0 .. index_map_capacity - 1
      BY TypeFacts
    <2>4. GrownMap \in [0 .. 2 * index_map_capacity - 1 -> Entry \cup {Uninit}]
      BY <2>2, <2>3, TypeFacts
    <2>5. \A i \in 0 .. count - 1 : GrownMap[i] = index_map[i]
      BY <2>1, <2>2, TypeFacts
    <2> QED BY <2>1, <2>4, <2>5, TypeFacts
  <1>2. CASE ~(count >= index_map_capacity)
    BY <1>2, TypeFacts DEF GrownCapacity, GrownMap
  <1> QED BY <1>1, <1>2

-----------------------------------------------------------------------------
(* What the locked sections do to the table. *)

\* The structural part of the invariant: chains and map describe one another.
TableAgrees == ChainsAreMapped /\ MapIsChained /\ NamesDiffer

\* A found entry carries the name that was looked up, below count.
LEMMA FindFacts ==
    ASSUME TypeOK, ChainsAreMapped, NEW name \in Name,
           NEW e \in atom_table_find_entry(name)
    PROVE  /\ e \in Entry /\ e.name = name
           /\ e.index \in 0 .. count - 1 /\ index_map[e.index] = e
           /\ e \in buckets[BucketOf(name)] /\ BucketOf(name) \in Bucket
  <1>1. BucketOf(name) \in Bucket
    BY ConstantFacts
  <1>2. e \in buckets[BucketOf(name)] /\ e.name = name
    BY DEF atom_table_find_entry
  <1>3. e \in Entry
    BY <1>1, <1>2, TypeFacts
  <1>4. e.index \in Nat /\ e.index < count /\ index_map[e.index] = e
    BY <1>1, <1>2, <1>3, EntryFacts DEF ChainsAreMapped
  <1> QED BY <1>1, <1>2, <1>3, <1>4, TypeFacts

\* A name that is not found has no atom.
LEMMA MissFacts ==
    ASSUME TypeOK, TableAgrees, NEW name \in Name, atom_table_find_entry(name) = {}
    PROVE  /\ \A b \in Bucket : \A e \in buckets[b] : e.name # name
           /\ \A i \in 0 .. count - 1 : index_map[i].name # name
  <1>1. \A b \in Bucket : \A e \in buckets[b] : e.name # name
    BY DEF atom_table_find_entry, TableAgrees, ChainsAreMapped
  <1>2. \A i \in 0 .. count - 1 :
          /\ BucketOf(index_map[i].name) \in Bucket
          /\ index_map[i] \in buckets[BucketOf(index_map[i].name)]
    BY ConstantFacts, EntryFacts DEF TableAgrees, MapIsChained
  <1> QED BY <1>1, <1>2

\* A map that is moved but keeps its atoms is as good as the old one.
LEMMA MoveKeepsTable ==
    ASSUME TypeOK, TableAgrees, IssuedIsMapped,
           buckets' = buckets, count' = count, issued' = issued,
           \A i \in 0 .. count - 1 : index_map'[i] = index_map[i]
    PROVE  TableAgrees' /\ IssuedIsMapped'
  <1>1. ChainsAreMapped'
    <2> SUFFICES ASSUME NEW b \in Bucket, NEW e \in buckets[b]
                 PROVE  BucketOf(e.name) = b /\ e.index < count /\ index_map'[e.index] = e
      BY DEF ChainsAreMapped
    <2>1. e.index \in Nat
      BY TypeFacts, EntryFacts
    <2>2. BucketOf(e.name) = b /\ e.index < count /\ index_map[e.index] = e
      BY DEF TableAgrees, ChainsAreMapped
    <2>3. e.index \in 0 .. count - 1
      BY <2>1, <2>2, TypeFacts
    <2> QED BY <2>2, <2>3
  <1>2. MapIsChained'
    BY DEF TableAgrees, MapIsChained
  <1>3. NamesDiffer'
    BY DEF TableAgrees, NamesDiffer
  <1>4. IssuedIsMapped'
    BY DEF IssuedIsMapped
  <1> QED BY <1>1, <1>2, <1>3, <1>4 DEF TableAgrees

\* The insertion of a name that was not found.
LEMMA InsertFacts ==
    ASSUME TypeOK, TableAgrees,
           NEW e \in Entry, e.index = count,
           atom_table_find_entry(e.name) = {}, atom_table_insert(e)
    PROVE  /\ index_map_capacity' \in Nat /\ index_map_capacity' > 0
           /\ count' = count + 1 /\ count' <= index_map_capacity'
           /\ index_map' \in [0 .. index_map_capacity' - 1 -> Entry \cup {Uninit}]
           /\ buckets' \in [Bucket -> SUBSET Entry]
           /\ \A b \in Bucket :
                buckets'[b] = IF b = BucketOf(e.name) THEN buckets[b] \cup {e} ELSE buckets[b]
           /\ index_map'[count] = e
           /\ \A i \in 0 .. count - 1 : index_map'[i] = index_map[i]
           /\ BucketOf(e.name) \in Bucket
  <1>1. /\ GrownCapacity \in Nat /\ GrownCapacity > 0 /\ count < GrownCapacity
        /\ GrownMap \in [0 .. GrownCapacity - 1 -> Entry \cup {Uninit}]
        /\ \A i \in 0 .. count - 1 : GrownMap[i] = index_map[i]
    BY GrowFacts
  <1>2. count \in 0 .. GrownCapacity - 1 /\ count \in Nat
    BY <1>1, TypeFacts
  <1>3. /\ index_map_capacity' = GrownCapacity /\ count' = count + 1
        /\ index_map' = [GrownMap EXCEPT ![count] = e]
        /\ buckets' = [buckets EXCEPT ![BucketOf(e.name)] = @ \cup {e}]
    BY DEF atom_table_insert
  <1>4. BucketOf(e.name) \in Bucket
    BY ConstantFacts, EntryFacts
  <1>5. index_map' \in [0 .. GrownCapacity - 1 -> Entry \cup {Uninit}]
    BY <1>1, <1>2, <1>3
  <1>6. index_map'[count] = e /\ \A i \in 0 .. count - 1 : index_map'[i] = index_map[i]
    BY <1>1, <1>2, <1>3
  <1>7. /\ buckets' \in [Bucket -> SUBSET Entry]
        /\ \A b \in Bucket :
             buckets'[b] = IF b = BucketOf(e.name) THEN buckets[b] \cup {e} ELSE buckets[b]
    BY <1>3, <1>4, TypeFacts
  <1>8. index_map' \in [0 .. index_map_capacity' - 1 -> Entry \cup {Uninit}]
    BY <1>3, <1>5
  <1>9. /\ index_map_capacity' \in Nat /\ index_map_capacity' > 0
        /\ count' = count + 1 /\ count' <= index_map_capacity'
    BY <1>1, <1>2, <1>3
  <1> QED BY <1>4, <1>6, <1>7, <1>8, <1>9

\* After it chains and map still describe one another.
LEMMA InsertKeepsTable ==
    ASSUME TypeOK, TableAgrees,
           NEW e \in Entry, e.index = count,
           atom_table_find_entry(e.name) = {}, atom_table_insert(e)
    PROVE  TableAgrees'
  <1>1. /\ count' = count + 1 /\ index_map'[count] = e
        /\ \A i \in 0 .. count - 1 : index_map'[i] = index_map[i]
        /\ BucketOf(e.name) \in Bucket
        /\ \A b \in Bucket :
             buckets'[b] = IF b = BucketOf(e.name) THEN buckets[b] \cup {e} ELSE buckets[b]
    BY InsertFacts
  <1>2. count \in Nat /\ e.name \in Name
    BY TypeFacts, EntryFacts
  <1>3. /\ \A b \in Bucket : \A f \in buckets[b] : f.name # e.name
        /\ \A i \in 0 .. count - 1 : index_map[i].name # e.name
    BY <1>2, MissFacts
  <1>4. \A i \in 0 .. count' - 1 : i = count \/ i \in 0 .. count - 1
    BY <1>1, <1>2
  <1>5. ChainsAreMapped'
    <2> SUFFICES ASSUME NEW b \in Bucket, NEW f \in buckets'[b]
                 PROVE  BucketOf(f.name) = b /\ f.index < count' /\ index_map'[f.index] = f
      BY DEF ChainsAreMapped
    <2>1. CASE f = e /\ b = BucketOf(e.name)
      BY <1>1, <1>2, <2>1
    <2>2. CASE f \in buckets[b]
      <3>1. f.index \in Nat
        BY <2>2, TypeFacts, EntryFacts
      <3>2. BucketOf(f.name) = b /\ f.index < count /\ index_map[f.index] = f
        BY <2>2 DEF TableAgrees, ChainsAreMapped
      <3>3. f.index \in 0 .. count - 1 /\ f.index < count'
        BY <1>1, <1>2, <3>1, <3>2
      <3> QED BY <1>1, <3>2, <3>3
    <2>3. f \in buckets[b] \/ (f = e /\ b = BucketOf(e.name))
      <3>1. CASE b = BucketOf(e.name)
        <4>1. buckets'[b] = buckets[b] \cup {e}
          BY <1>1, <3>1
        <4> QED BY <3>1, <4>1
      <3>2. CASE b # BucketOf(e.name)
        BY <1>1, <3>2
      <3> QED BY <3>1, <3>2
    <2> QED BY <2>1, <2>2, <2>3
  <1>6. MapIsChained'
    <2> SUFFICES ASSUME NEW i \in 0 .. count' - 1
                 PROVE  /\ index_map'[i] \in Entry
                        /\ index_map'[i].index = i
                        /\ index_map'[i] \in buckets'[BucketOf(index_map'[i].name)]
      BY DEF MapIsChained
    <2>1. CASE i = count
      BY <1>1, <2>1
    <2>2. CASE i \in 0 .. count - 1
      <3>1. /\ index_map[i] \in Entry /\ index_map[i].index = i
            /\ index_map[i] \in buckets[BucketOf(index_map[i].name)]
        BY <2>2 DEF TableAgrees, MapIsChained
      <3>2. BucketOf(index_map[i].name) \in Bucket
        BY <3>1, EntryFacts, ConstantFacts
      <3> QED BY <1>1, <2>2, <3>1, <3>2
    <2> QED BY <1>4, <2>1, <2>2
  <1>7. NamesDiffer'
    <2> SUFFICES ASSUME NEW i \in 0 .. count' - 1, NEW j \in 0 .. count' - 1,
                        index_map'[i].name = index_map'[j].name
                 PROVE  i = j
      BY DEF NamesDiffer
    <2>1. CASE i = count
      BY <1>1, <1>3, <1>4, <2>1
    <2>2. CASE j = count
      BY <1>1, <1>3, <1>4, <2>2
    <2>3. CASE i \in 0 .. count - 1 /\ j \in 0 .. count - 1
      BY <1>1, <2>3 DEF TableAgrees, NamesDiffer
    <2> QED BY <1>4, <2>1, <2>2, <2>3
  <1> QED BY <1>5, <1>6, <1>7 DEF TableAgrees

-----------------------------------------------------------------------------
(* Every step preserves the invariant. *)

\* beam_atom_table_create leaves an empty table.
LEMMA InitInvariant == Init => IInv
  <1> SUFFICES ASSUME Init PROVE IInv
    OBVIOUS
  <1>1. TypeOK
    <2>1. index_map \in [0 .. index_map_capacity - 1 -> Entry \cup {Uninit}]
      BY DEF Init
    <2>2. index_map_capacity \in Nat \ {0} /\ count \in 0 .. index_map_capacity
      BY ConstantFacts DEF Init
    <2> QED BY <2>1, <2>2 DEF Init, TypeOK
  <1>2. 0 .. count - 1 = {}
    BY DEF Init
  <1>3. \A b \in Bucket : buckets[b] = {}
    BY DEF Init
  <1>4. CallAgrees /\ issued = {}
    BY DEF Init, CallAgrees
  <1> QED
    BY <1>1, <1>2, <1>3, <1>4
    DEF IInv, ChainsAreMapped, MapIsChained, NamesDiffer, IssuedIsMapped

\* The indices below a count are below any larger one.
LEMMA RangeGrows ==
    ASSUME NEW m \in Nat, NEW n \in Nat, m <= n
    PROVE  \A i \in 0 .. m - 1 : i \in 0 .. n - 1
  OBVIOUS

\* Returning an atom of the table: its name is the one that was asked for.
LEMMA ReturnKeeps ==
    ASSUME TypeOK, CallAgrees, TableAgrees', IssuedIsMapped,
           count' \in Nat, count <= count',
           \A i \in 0 .. count - 1 : index_map'[i] = index_map[i],
           NEW c \in Caller, pc[c] \in {"read", "write"},
           NEW k \in 0 .. count' - 1, index_map'[k].name = want[c],
           ReturnAtom(c, k)
    PROVE  /\ pc' \in [Caller -> {"idle", "read", "write"}]
           /\ want' \in [Caller -> Name \cup {NoName}]
           /\ got' \in [Caller -> Term \cup {NoTerm}]
           /\ issued' \subseteq Name \X Term
           /\ CallAgrees' /\ IssuedIsMapped'
  <1>1. k \in Nat /\ want[c] \in Name /\ count \in Nat
    BY TypeFacts DEF CallAgrees
  <1>2. atom_eterm(k) \in Term
    BY <1>1, TermFacts
  <1>3. /\ pc' = [pc EXCEPT ![c] = "idle"]
        /\ want' = [want EXCEPT ![c] = NoName]
        /\ got' = [got EXCEPT ![c] = atom_eterm(k)]
        /\ issued' = issued \cup {<<want[c], atom_eterm(k)>>}
    BY DEF ReturnAtom
  <1>4. /\ pc' \in [Caller -> {"idle", "read", "write"}]
        /\ want' \in [Caller -> Name \cup {NoName}]
        /\ got' \in [Caller -> Term \cup {NoTerm}]
        /\ issued' \subseteq Name \X Term
    BY <1>1, <1>2, <1>3 DEF TypeOK
  <1>5. CallAgrees'
    BY <1>3 DEF TypeOK, CallAgrees
  <1>6. \A i \in 0 .. count - 1 : i \in 0 .. count' - 1
    BY <1>1, RangeGrows
  <1>7. IssuedIsMapped'
    BY <1>3, <1>6 DEF IssuedIsMapped
  <1> QED BY <1>4, <1>5, <1>7

\* Every section, locked for reading or for writing, keeps the invariant.
LEMMA StepInvariant ==
    ASSUME IInv, [Next]_vars
    PROVE  IInv'
  <1> TypeOK /\ CallAgrees /\ TableAgrees /\ IssuedIsMapped
    BY DEF IInv, TableAgrees
  <1> SUFFICES TypeOK' /\ CallAgrees' /\ TableAgrees' /\ IssuedIsMapped'
    BY DEF IInv, TableAgrees
  <1>1. ASSUME UNCHANGED tableVars, issued' = issued
        PROVE  TableAgrees' /\ IssuedIsMapped'
    BY <1>1, MoveKeepsTable DEF tableVars
  <1>2. ASSUME NEW c \in Caller, NEW name \in Name, beam_atom_intern(c, name)
        PROVE  TypeOK' /\ CallAgrees' /\ TableAgrees' /\ IssuedIsMapped'
    <2>1. TypeOK'
      BY <1>2 DEF beam_atom_intern, TypeOK, tableVars
    <2>2. CallAgrees'
      BY <1>2 DEF beam_atom_intern, TypeOK, CallAgrees
    <2> QED BY <1>1, <1>2, <2>1, <2>2 DEF beam_atom_intern
  <1>3. ASSUME NEW c \in Caller, ReadFinds(c) \/ WriteFinds(c)
        PROVE  TypeOK' /\ CallAgrees' /\ TableAgrees' /\ IssuedIsMapped'
    <2>1. pc[c] \in {"read", "write"} /\ UNCHANGED tableVars
      BY <1>3 DEF ReadFinds, WriteFinds
    <2>2. want[c] \in Name
      BY <2>1 DEF CallAgrees
    <2>3. PICK e \in atom_table_find_entry(want[c]) : ReturnAtom(c, e.index)
      BY <1>3 DEF ReadFinds, WriteFinds
    <2>4. /\ e.name = want[c] /\ e.index \in 0 .. count - 1
          /\ index_map[e.index] = e
      BY <2>2, <2>3, FindFacts DEF TableAgrees
    <2>5. PICK k \in 0 .. count' - 1 : k = e.index
      BY <2>1, <2>4 DEF tableVars
    <2>6. index_map'[k].name = want[c] /\ ReturnAtom(c, k)
      BY <2>1, <2>3, <2>4, <2>5 DEF tableVars
    <2>7. TableAgrees'
      BY <2>1 DEF tableVars, TableAgrees, ChainsAreMapped, MapIsChained, NamesDiffer
    <2>8. /\ count' \in Nat /\ count <= count'
          /\ \A i \in 0 .. count - 1 : index_map'[i] = index_map[i]
      BY <2>1, TypeFacts DEF tableVars
    <2>9. /\ pc' \in [Caller -> {"idle", "read", "write"}]
          /\ want' \in [Caller -> Name \cup {NoName}]
          /\ got' \in [Caller -> Term \cup {NoTerm}]
          /\ issued' \subseteq Name \X Term
          /\ CallAgrees' /\ IssuedIsMapped'
      BY <2>1, <2>6, <2>7, <2>8, ReturnKeeps
    <2>10. TypeOK'
      BY <2>1, <2>9 DEF TypeOK, tableVars
    <2> QED BY <2>7, <2>9, <2>10
  <1>4. ASSUME NEW c \in Caller, ReadMisses(c)
        PROVE  TypeOK' /\ CallAgrees' /\ TableAgrees' /\ IssuedIsMapped'
    <2>1. TypeOK'
      BY <1>4 DEF ReadMisses, TypeOK, tableVars
    <2>2. CallAgrees'
      BY <1>4 DEF ReadMisses, TypeOK, CallAgrees
    <2> QED BY <1>1, <1>4, <2>1, <2>2 DEF ReadMisses
  <1>5. ASSUME NEW c \in Caller, WriteInserts(c)
        PROVE  TypeOK' /\ CallAgrees' /\ TableAgrees' /\ IssuedIsMapped'
    <2>1. pc[c] \in {"read", "write"} /\ want[c] \in Name /\ count \in Nat
      BY <1>5, TypeFacts DEF WriteInserts, CallAgrees
    <2>2. PICK e \in Entry : /\ e = [name |-> want[c], index |-> count]
                             /\ e.name = want[c] /\ e.index = count
      BY <2>1, EntryFacts
    <2>3. atom_table_find_entry(e.name) = {} /\ atom_table_insert(e) /\ ReturnAtom(c, count)
      BY <1>5, <2>2 DEF WriteInserts
    <2>4. TableAgrees'
      BY <2>2, <2>3, InsertKeepsTable
    <2>5. /\ index_map_capacity' \in Nat /\ index_map_capacity' > 0
          /\ count' = count + 1 /\ count' <= index_map_capacity'
          /\ index_map' \in [0 .. index_map_capacity' - 1 -> Entry \cup {Uninit}]
          /\ buckets' \in [Bucket -> SUBSET Entry]
          /\ index_map'[count] = e
          /\ \A i \in 0 .. count - 1 : index_map'[i] = index_map[i]
      BY <2>2, <2>3, InsertFacts
    <2>6. count' \in Nat /\ count <= count' /\ count \in 0 .. count' - 1
      BY <2>1, <2>5
    <2>7. /\ pc' \in [Caller -> {"idle", "read", "write"}]
          /\ want' \in [Caller -> Name \cup {NoName}]
          /\ got' \in [Caller -> Term \cup {NoTerm}]
          /\ issued' \subseteq Name \X Term
          /\ CallAgrees' /\ IssuedIsMapped'
      BY <2>1, <2>2, <2>3, <2>4, <2>5, <2>6, ReturnKeeps
    <2>8. index_map_capacity' \in Nat \ {0} /\ count' \in 0 .. index_map_capacity'
      BY <2>5, <2>6
    <2>9. TypeOK'
      BY <2>5, <2>7, <2>8 DEF TypeOK
    <2> QED BY <2>4, <2>7, <2>9
  <1>6. ASSUME NEW c \in Caller, WriteFails(c)
        PROVE  TypeOK' /\ CallAgrees' /\ TableAgrees' /\ IssuedIsMapped'
    <2>1. buckets' = buckets /\ count' = count /\ issued' = issued
      BY <1>6 DEF WriteFails
    <2>2. /\ index_map_capacity' \in Nat /\ index_map_capacity' > 0
          /\ count <= index_map_capacity'
          /\ index_map' \in [0 .. index_map_capacity' - 1 -> Entry \cup {Uninit}]
          /\ \A i \in 0 .. count - 1 : index_map'[i] = index_map[i]
      BY <1>6, GrowFacts, TypeFacts DEF WriteFails
    <2>3. TableAgrees' /\ IssuedIsMapped'
      BY <2>1, <2>2, MoveKeepsTable
    <2>4. /\ pc' \in [Caller -> {"idle", "read", "write"}]
          /\ want' \in [Caller -> Name \cup {NoName}]
          /\ got' \in [Caller -> Term \cup {NoTerm}]
      BY <1>6 DEF WriteFails, TypeOK
    <2>5. CallAgrees'
      BY <1>6 DEF WriteFails, TypeOK, CallAgrees
    <2>6. index_map_capacity' \in Nat \ {0} /\ count' \in 0 .. index_map_capacity'
      BY <2>1, <2>2, TypeFacts
    <2>7. buckets' \in [Bucket -> SUBSET Entry] /\ issued' \subseteq Name \X Term
      BY <2>1 DEF TypeOK
    <2>8. TypeOK'
      BY <2>2, <2>4, <2>6, <2>7 DEF TypeOK
    <2> QED BY <2>3, <2>5, <2>8
  <1>7. CASE UNCHANGED vars
    <2>1. TypeOK' /\ CallAgrees'
      BY <1>7 DEF vars, tableVars, TypeOK, CallAgrees
    <2> QED BY <1>1, <1>7, <2>1 DEF vars
  <1> QED
    BY <1>2, <1>3, <1>4, <1>5, <1>6, <1>7 DEF Next

-----------------------------------------------------------------------------
\* The inductive invariant holds in every reachable state.
LEMMA Inductive == Spec => []IInv
  <1>1. IInv /\ [Next]_vars => IInv'
    BY StepInvariant
  <1> QED BY <1>1, InitInvariant, PTL DEF Spec

(***************************************************************************)
(* The table keeps its types: the count never passes the capacity of the   *)
(* index map, so no insertion writes past its end (atom_table.c:121-133).  *)
(***************************************************************************)
THEOREM TypeCorrect == Spec => []TypeOK
  <1>1. IInv => TypeOK
    BY DEF IInv
  <1> QED BY <1>1, Inductive, PTL

(***************************************************************************)
(* Callers that race to intern a name are all given the same atom, for any *)
(* number of callers and names and any collisions of the hash function     *)
(* (atom_table.c:157-204).                                                 *)
(***************************************************************************)
THEOREM OneAtom == Spec => []OneAtomPerName
  <1>1. IInv => OneAtomPerName
    <2> SUFFICES ASSUME IInv, NEW a \in issued, NEW b \in issued, a[1] = b[1]
                 PROVE  a[2] = b[2]
      BY DEF OneAtomPerName
    <2>1. PICK i \in 0 .. count - 1 : a = <<index_map[i].name, atom_eterm(i)>>
      BY DEF IInv, IssuedIsMapped
    <2>2. PICK j \in 0 .. count - 1 : b = <<index_map[j].name, atom_eterm(j)>>
      BY DEF IInv, IssuedIsMapped
    <2>3. i = j
      BY <2>1, <2>2 DEF IInv, NamesDiffer
    <2> QED BY <2>1, <2>2, <2>3
  <1> QED BY <1>1, Inductive, PTL

(***************************************************************************)
(* An atom keeps its name for ever, however often the index map is moved   *)
(* and whatever allocations fail after it was handed out                   *)
(* (atom_table.c:121-128, :206-223).                                       *)
(***************************************************************************)
THEOREM LookupCorrect == Spec => []LookupInvertsIntern
  <1>1. IInv => LookupInvertsIntern
    <2> SUFFICES ASSUME IInv, NEW pair \in issued
                 PROVE  beam_atom_lookup(pair[2]) = pair[1]
      BY DEF LookupInvertsIntern
    <2>1. PICK i \in 0 .. count - 1 : pair = <<index_map[i].name, atom_eterm(i)>>
      BY DEF IInv, IssuedIsMapped
    <2>2. count \in Nat
      BY TypeFacts DEF IInv
    <2>3. i \in Nat /\ i < count
      BY <2>2
    <2>4. atom_eterm(i) % 16 = TAG_IMMED1_ATOM /\ atom_index(atom_eterm(i)) = i
      BY <2>3, TermFacts
    <2> QED BY <2>1, <2>3, <2>4 DEF beam_atom_lookup
  <1> QED BY <1>1, Inductive, PTL

-----------------------------------------------------------------------------
(* The table implements the registry. *)

\* The registered pairs, entry by entry.
LEMMA ChainedFacts ==
    /\ \A b \in Bucket : \A e \in buckets[b] : <<e.name, atom_eterm(e.index)>> \in Chained
    /\ \A pair \in Chained : \E b \in Bucket : \E e \in buckets[b] :
         pair = <<e.name, atom_eterm(e.index)>>
  BY DEF Chained

\* A call starts: the registry sees the same call.
LEMMA CallRefines ==
    ASSUME IInv, NEW c \in Caller, NEW name \in Name, beam_atom_intern(c, name)
    PROVE  Registry!Call(c, name)
  <1>1. want[c] = NoName /\ Chained' = Chained
    BY DEF IInv, CallAgrees, beam_atom_intern, Chained, tableVars
  <1> QED BY <1>1 DEF beam_atom_intern, Registry!Call

\* A found entry is a pair the registry knows.
LEMMA FindRefines ==
    ASSUME IInv, NEW c \in Caller, ReadFinds(c) \/ WriteFinds(c)
    PROVE  Registry!ReturnKnown(c)
  <1> TypeOK /\ ChainsAreMapped
    BY DEF IInv
  <1>1. want[c] \in Name
    BY DEF IInv, CallAgrees, ReadFinds, WriteFinds
  <1>2. PICK e \in atom_table_find_entry(want[c]) : ReturnAtom(c, e.index)
    BY DEF ReadFinds, WriteFinds
  <1>3. e.name = want[c] /\ e \in buckets[BucketOf(want[c])] /\ BucketOf(want[c]) \in Bucket
    BY <1>1, <1>2, FindFacts
  <1>4. PICK pair \in Chained : pair = <<want[c], atom_eterm(e.index)>>
    BY <1>3, ChainedFacts
  <1>5. Chained' = Chained
    BY DEF ReadFinds, WriteFinds, Chained, tableVars
  <1>6. pair[1] = want[c] /\ Registry!Return(c, pair[2])
    BY <1>2, <1>4 DEF ReturnAtom, Registry!Return
  <1> QED BY <1>4, <1>5, <1>6 DEF Registry!ReturnKnown

\* A name that is not found is unknown to the registry.
LEMMA MissIsUnknown ==
    ASSUME IInv, NEW name \in Name, atom_table_find_entry(name) = {}
    PROVE  ~Registry!Known(name)
  <1>1. \A b \in Bucket : \A e \in buckets[b] : e.name # name
    BY MissFacts DEF IInv, TableAgrees
  <1>2. \A pair \in Chained : pair[1] # name
    BY <1>1, ChainedFacts
  <1> QED BY <1>2 DEF Registry!Known

\* The insertion gives the name an atom that no other name has.
LEMMA InsertRefines ==
    ASSUME IInv, NEW c \in Caller, WriteInserts(c)
    PROVE  Registry!ReturnNew(c)
  <1> TypeOK /\ TableAgrees
    BY DEF IInv, TableAgrees
  <1>1. want[c] \in Name /\ count \in Nat
    BY TypeFacts DEF IInv, CallAgrees, WriteInserts
  <1>2. PICK e \in Entry : /\ e = [name |-> want[c], index |-> count]
                           /\ e.name = want[c] /\ e.index = count
    BY <1>1, EntryFacts
  <1>3. atom_table_find_entry(e.name) = {} /\ atom_table_insert(e) /\ ReturnAtom(c, count)
    BY <1>2 DEF WriteInserts
  <1>4. ~Registry!Known(want[c]) /\ want[c] # NoName
    BY <1>1, <1>2, <1>3, MissIsUnknown, ConstantFacts
  <1>5. got'[c] = atom_eterm(count)
    BY <1>3 DEF ReturnAtom, TypeOK
  <1>6. atom_eterm(count) \in Term
    BY <1>1, TermFacts
  <1>7. \A pair \in Chained : pair[2] # atom_eterm(count)
    <2> SUFFICES ASSUME NEW pair \in Chained PROVE pair[2] # atom_eterm(count)
      OBVIOUS
    <2>1. PICK b \in Bucket : \E f \in buckets[b] : pair = <<f.name, atom_eterm(f.index)>>
      BY ChainedFacts
    <2>2. PICK f \in buckets[b] : pair = <<f.name, atom_eterm(f.index)>>
      BY <2>1
    <2>3. f.index \in Nat /\ f.index < count
      BY TypeFacts, EntryFacts DEF TableAgrees, ChainsAreMapped
    <2>4. f.index # count
      BY <1>1, <2>3
    <2> QED BY <1>1, <2>2, <2>3, <2>4, TermFacts
  <1>8. Chained' = Chained \cup {<<want[c], atom_eterm(count)>>}
    <2>1. /\ BucketOf(e.name) \in Bucket
          /\ \A b \in Bucket :
               buckets'[b] = IF b = BucketOf(e.name) THEN buckets[b] \cup {e} ELSE buckets[b]
      BY <1>2, <1>3, InsertFacts
    <2> DEFINE new == <<want[c], atom_eterm(count)>>
    <2>2. \A pair : pair \in Chained <=>
            \E b \in Bucket : \E f \in buckets[b] : pair = <<f.name, atom_eterm(f.index)>>
      BY DEF Chained
    <2>3. \A pair : pair \in Chained' <=>
            \E b \in Bucket : \E f \in buckets'[b] : pair = <<f.name, atom_eterm(f.index)>>
      BY DEF Chained
    <2>4. \A b \in Bucket : \A f \in buckets[b] : f \in buckets'[b]
      BY <2>1
    <2>5. e \in buckets'[BucketOf(e.name)]
      BY <2>1
    <2>6. \A b \in Bucket : \A f \in buckets'[b] : f = e \/ f \in buckets[b]
      BY <2>1
    <2>7. new = <<e.name, atom_eterm(e.index)>>
      BY <1>2
    <2>8. ASSUME NEW pair \in Chained' PROVE pair \in Chained \cup {new}
      <3>1. PICK b \in Bucket : \E f \in buckets'[b] : pair = <<f.name, atom_eterm(f.index)>>
        BY <2>3, <2>8
      <3>2. PICK f \in buckets'[b] : pair = <<f.name, atom_eterm(f.index)>>
        BY <3>1
      <3> QED BY <2>2, <2>6, <2>7, <3>2
    <2>9. ASSUME NEW pair \in Chained PROVE pair \in Chained'
      BY <2>2, <2>3, <2>4, <2>9
    <2>10. new \in Chained'
      BY <2>1, <2>3, <2>5, <2>7
    <2> QED BY <2>8, <2>9, <2>10
  <1>9. Registry!Return(c, got'[c])
    BY <1>3, <1>5 DEF ReturnAtom, Registry!Return
  <1> QED BY <1>4, <1>5, <1>6, <1>7, <1>8, <1>9 DEF Registry!ReturnNew

\* A failed insertion leaves the registry as it is.
LEMMA FailRefines ==
    ASSUME IInv, NEW c \in Caller, WriteFails(c)
    PROVE  Registry!ReturnFailure(c)
  <1>1. want[c] \in Name /\ atom_table_find_entry(want[c]) = {}
    BY DEF IInv, CallAgrees, WriteFails
  <1>2. ~Registry!Known(want[c]) /\ want[c] # NoName
    BY <1>1, MissIsUnknown, ConstantFacts
  <1>3. Chained' = Chained
    BY DEF WriteFails, Chained
  <1>4. Registry!Return(c, NoTerm)
    BY DEF WriteFails, Registry!Return
  <1> QED BY <1>2, <1>3, <1>4 DEF Registry!ReturnFailure

(***************************************************************************)
(* The two-phase lookup and insertion of beam_atom_intern implement the    *)
(* registry of AtomRegistry, in which a call returns its atom in one step: *)
(* releasing the read lock before the write lock is taken cannot be seen   *)
(* by any caller (atom_table.c:157-204).                                   *)
(***************************************************************************)
THEOREM Refinement == Spec => ImplementsRegistry
  <1>1. Init => Registry!Init
    BY DEF Init, Registry!Init, Chained
  <1>2. ASSUME IInv, [Next]_vars
        PROVE  [Registry!Next]_Registry!registryVars
    <2>1. ASSUME NEW c \in Caller, NEW name \in Name, beam_atom_intern(c, name)
          PROVE  Registry!Next
      BY <1>2, <2>1, CallRefines DEF Registry!Next
    <2>2. ASSUME NEW c \in Caller, ReadFinds(c) \/ WriteFinds(c)
          PROVE  Registry!Next
      BY <1>2, <2>2, FindRefines DEF Registry!Next
    <2>3. ASSUME NEW c \in Caller, ReadMisses(c)
          PROVE  UNCHANGED Registry!registryVars
      BY <2>3 DEF ReadMisses, tableVars, Chained, Registry!registryVars
    <2>4. ASSUME NEW c \in Caller, WriteInserts(c)
          PROVE  Registry!Next
      BY <1>2, <2>4, InsertRefines DEF Registry!Next
    <2>5. ASSUME NEW c \in Caller, WriteFails(c)
          PROVE  Registry!Next
      BY <1>2, <2>5, FailRefines DEF Registry!Next
    <2>6. CASE UNCHANGED vars
      BY <2>6 DEF vars, tableVars, Chained, Registry!registryVars
    <2> QED
      BY <1>2, <2>1, <2>2, <2>3, <2>4, <2>5, <2>6 DEF Next
  <1> QED
    BY <1>1, <1>2, Inductive, PTL DEF Spec, ImplementsRegistry, Registry!Spec
=============================================================================
