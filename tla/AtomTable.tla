------------------------------ MODULE AtomTable ------------------------------
(***************************************************************************)
(* The atom table of src/global/atom_table.c: hash buckets from names to   *)
(* entries, an index map from atoms to entries, and a read-write lock.     *)
(*                                                                         *)
(* beam_atom_intern looks a name up under the read lock, lets go of it,    *)
(* takes the write lock, looks again and inserts.  A locked section is one *)
(* step; between the two sections of a call other callers run.             *)
(*                                                                         *)
(* A bucket is the set of the entries chained on it: the order of a chain  *)
(* cannot be seen as long as its names are distinct.                       *)
(***************************************************************************)
EXTENDS Integers

CONSTANTS
    Name, NoName,
    Caller,           \* threads that intern atoms
    Bucket,           \* bucket numbers, 0 .. bucket_count - 1 in the code
    BucketOf(_),      \* hash_atom_name(name) % bucket_count
    InitialCapacity,  \* index_map_capacity at creation
    MayFail           \* an allocation may fail

ASSUME AtomAssumption ==
    /\ NoName \notin Name
    /\ \A name \in Name : BucketOf(name) \in Bucket
    /\ InitialCapacity \in Nat \ {0}
    /\ MayFail \in BOOLEAN

VARIABLES
    buckets,             \* the chains
    index_map,           \* the array of entries, by atom index
    index_map_capacity,
    count,               \* atoms in the table
    pc,                  \* which locked section a caller enters next
    want, got,           \* the call in progress and the last result
    issued               \* history: pairs <<name, atom>> handed to callers

tableVars == <<buckets, index_map, index_map_capacity, count>>
vars == <<tableVars, pc, want, got, issued>>

Entry == [name : Name, index : Nat]
Uninit == [name |-> NoName, index |-> 0]  \* a slot of the array not written yet

-----------------------------------------------------------------------------
TAG_IMMED1_ATOM == 11
Term == {term \in Nat : term % 16 = TAG_IMMED1_ATOM}
NoTerm == 0

\* The term of an atom, and back; fewer than 2^32 atoms, as in any 32-bit count.
atom_eterm(index) == index * 16 + TAG_IMMED1_ATOM
atom_index(term)  == term \div 16

\* atom_table_find_entry: the entries of the name in its bucket.
atom_table_find_entry(name) ==
    {entry \in buckets[BucketOf(name)] : entry.name = name}

\* beam_atom_lookup: NULL for a term that is not an atom of this table.
beam_atom_lookup(term) ==
    IF term % 16 = TAG_IMMED1_ATOM /\ atom_index(term) < count
    THEN index_map[atom_index(term)].name
    ELSE NoName

Init ==
    /\ buckets = [b \in Bucket |-> {}]
    /\ index_map = [i \in 0 .. InitialCapacity - 1 |-> Uninit]
    /\ index_map_capacity = InitialCapacity
    /\ count = 0
    /\ pc = [c \in Caller |-> "idle"]
    /\ want = [c \in Caller |-> NoName]
    /\ got = [c \in Caller |-> NoTerm]
    /\ issued = {}

-----------------------------------------------------------------------------
\* beam_atom_intern or beam_atom_intern_length is called.
beam_atom_intern(c, name) ==
    /\ pc[c] = "idle"
    /\ pc' = [pc EXCEPT ![c] = "read"]
    /\ want' = [want EXCEPT ![c] = name]
    /\ UNCHANGED <<tableVars, got, issued>>

\* The call returns the atom with this index.
ReturnAtom(c, index) ==
    /\ pc' = [pc EXCEPT ![c] = "idle"]
    /\ want' = [want EXCEPT ![c] = NoName]
    /\ got' = [got EXCEPT ![c] = atom_eterm(index)]
    /\ issued' = issued \cup {<<want[c], atom_eterm(index)>>}

\* The section under the read lock finds the name.
ReadFinds(c) ==
    /\ pc[c] = "read"
    /\ \E entry \in atom_table_find_entry(want[c]) : ReturnAtom(c, entry.index)
    /\ UNCHANGED tableVars

\* The section under the read lock does not: unlock, then take the write lock.
ReadMisses(c) ==
    /\ pc[c] = "read"
    /\ atom_table_find_entry(want[c]) = {}
    /\ pc' = [pc EXCEPT ![c] = "write"]
    /\ UNCHANGED <<tableVars, want, got, issued>>

\* The section under the write lock finds that another caller was faster.
WriteFinds(c) ==
    /\ pc[c] = "write"
    /\ \E entry \in atom_table_find_entry(want[c]) : ReturnAtom(c, entry.index)
    /\ UNCHANGED tableVars

\* Mutant of the next definition: the array grows and its size is forgotten.
CapacityForgotten == index_map_capacity

\* The insertion doubles the index map when it is full.
GrownCapacity ==
    IF count >= index_map_capacity THEN 2 * index_map_capacity
                                   ELSE index_map_capacity

\* Mutant of the next definition: the array is allocated anew, not grown.
GrownMapEmpty == [i \in 0 .. GrownCapacity - 1 |-> Uninit]

GrownMap ==
    IF count >= index_map_capacity
    THEN [i \in 0 .. 2 * index_map_capacity - 1 |->
            IF i < index_map_capacity THEN index_map[i] ELSE Uninit]
    ELSE index_map

\* atom_table_insert: chain the entry, store it in the map, count it.
atom_table_insert(entry) ==
    /\ index_map_capacity' = GrownCapacity
    /\ index_map' = [GrownMap EXCEPT ![count] = entry]
    /\ buckets' = [buckets EXCEPT ![BucketOf(entry.name)] = @ \cup {entry}]
    /\ count' = count + 1

\* Mutant of the next definition: the name is not looked up a second time.
WriteInsertsBlindly(c) ==
    /\ pc[c] = "write"
    /\ atom_table_insert([name |-> want[c], index |-> count])
    /\ ReturnAtom(c, count)

\* The section under the write lock inserts the name.
WriteInserts(c) ==
    /\ pc[c] = "write"
    /\ atom_table_find_entry(want[c]) = {}
    /\ atom_table_insert([name |-> want[c], index |-> count])
    /\ ReturnAtom(c, count)

\* The insertion fails: the map cannot grow, or, the map grown if it had to,
\* the entry or its name cannot be allocated.  The call returns 0.
WriteFails(c) ==
    /\ MayFail
    /\ pc[c] = "write"
    /\ atom_table_find_entry(want[c]) = {}
    /\ \/ count >= index_map_capacity /\ UNCHANGED <<index_map, index_map_capacity>>
       \/ index_map' = GrownMap /\ index_map_capacity' = GrownCapacity
    /\ pc' = [pc EXCEPT ![c] = "idle"]
    /\ want' = [want EXCEPT ![c] = NoName]
    /\ got' = [got EXCEPT ![c] = NoTerm]
    /\ UNCHANGED <<buckets, count, issued>>

Next ==
    \E c \in Caller :
        \/ \E name \in Name : beam_atom_intern(c, name)
        \/ ReadFinds(c) \/ ReadMisses(c)
        \/ WriteFinds(c) \/ WriteInserts(c) \/ WriteFails(c)

Spec == Init /\ [][Next]_vars

-----------------------------------------------------------------------------
TypeOK ==
    /\ buckets \in [Bucket -> SUBSET Entry]
    /\ index_map_capacity \in Nat \ {0}
    /\ index_map \in [0 .. index_map_capacity - 1 -> Entry \cup {Uninit}]
    /\ count \in 0 .. index_map_capacity
    /\ pc \in [Caller -> {"idle", "read", "write"}]
    /\ want \in [Caller -> Name \cup {NoName}]
    /\ got \in [Caller -> Term \cup {NoTerm}]
    /\ issued \subseteq Name \X Term

(***************************************************************************)
(* One atom per name: callers that race to intern a name, in any order of  *)
(* their read- and write-locked sections, are all given the same atom      *)
(* (atom_table.c:157-204).                                                 *)
(***************************************************************************)
OneAtomPerName ==
    \A a, b \in issued : a[1] = b[1] => a[2] = b[2]

(***************************************************************************)
(* An atom handed out keeps its name for ever: looking it up gives the     *)
(* name it was interned for, also after the index map has been moved by    *)
(* later insertions and after failed ones (atom_table.c:121-128, :206-223).*)
(***************************************************************************)
LookupInvertsIntern ==
    \A pair \in issued : beam_atom_lookup(pair[2]) = pair[1]

\* The names and atoms that the chains hold.
Chained == {<<e.name, atom_eterm(e.index)>> : e \in UNION {buckets[b] : b \in Bucket}}

(***************************************************************************)
(* The table implements the registry of names.                             *)
(***************************************************************************)
Registry == INSTANCE AtomRegistry WITH registered <- Chained
ImplementsRegistry == Registry!Spec
=============================================================================
