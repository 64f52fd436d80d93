---------------------------- MODULE AtomRegistry ----------------------------
(***************************************************************************)
(* What the atom table promises to its callers: a name has one atom, an    *)
(* atom has one name, and neither is ever taken back.  A call may fail     *)
(* only for a name that has no atom yet.  How the table finds a name, and  *)
(* what it locks, is left to AtomTable.                                    *)
(***************************************************************************)
CONSTANTS Name,    \* atom names
          NoName,  \* no call in progress
          Caller,  \* threads that intern
          Term     \* the values a call may return for an atom

CONSTANT NoTerm    \* the 0 that a failed call returns

VARIABLES registered,  \* the pairs <<name, atom>> that exist
          want,        \* the name each caller is interning
          got          \* what its last call returned

registryVars == <<registered, want, got>>

Init ==
    /\ registered = {}
    /\ want = [c \in Caller |-> NoName]
    /\ got = [c \in Caller |-> NoTerm]

Call(c, name) ==
    /\ want[c] = NoName
    /\ want' = [want EXCEPT ![c] = name]
    /\ UNCHANGED <<registered, got>>

Return(c, term) ==
    /\ want' = [want EXCEPT ![c] = NoName]
    /\ got' = [got EXCEPT ![c] = term]

Known(name) == \E pair \in registered : pair[1] = name

\* The name has an atom: the call returns it.
ReturnKnown(c) ==
    \E pair \in registered :
        /\ pair[1] = want[c]
        /\ Return(c, pair[2])
        /\ UNCHANGED registered

\* The name has none: it gets one that no other name has.
ReturnNew(c) ==
    /\ want[c] # NoName
    /\ ~Known(want[c])
    /\ got'[c] \in Term
    /\ \A pair \in registered : pair[2] # got'[c]
    /\ registered' = registered \cup {<<want[c], got'[c]>>}
    /\ Return(c, got'[c])

\* The name has none and memory is short.
ReturnFailure(c) ==
    /\ want[c] # NoName
    /\ ~Known(want[c])
    /\ Return(c, NoTerm)
    /\ UNCHANGED registered

Next ==
    \E c \in Caller :
        \/ \E name \in Name : Call(c, name)
        \/ ReturnKnown(c) \/ ReturnNew(c) \/ ReturnFailure(c)

Spec == Init /\ [][Next]_registryVars
=============================================================================
