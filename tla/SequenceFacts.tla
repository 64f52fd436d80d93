---------------------------- MODULE SequenceFacts ----------------------------
(***************************************************************************)
(* Facts about numbers and about taking one element out of a sequence,     *)
(* which the proofs need for the mailbox's list of nodes, the              *)
(* interpreter's sequence of messages and the chains of an ETS table.      *)
(***************************************************************************)
EXTENDS Integers, Sequences, SequenceTheorems, WellFoundedInduction, TLAPS

\* A set of naturals that is not empty has a least element.
LEMMA LeastElement ==
    ASSUME NEW S, S \subseteq Nat, S # {}
    PROVE  \E i \in S : \A j \in S : i <= j
  <1>1. PICK i \in S : \A j \in S : ~(<<j, i>> \in OpToRel(<, Nat))
    BY NatLessThanWellFounded, WFMin, Zenon
  <1>2. ASSUME NEW j \in S
        PROVE  i <= j
    <2>1. i \in Nat /\ j \in Nat
      OBVIOUS
    <2>2. <<j, i>> \in Nat \X Nat /\ <<j, i>>[1] = j /\ <<j, i>>[2] = i
      BY <2>1
    <2>3. ~(j < i)
      BY <1>1, <2>2, Zenon DEF OpToRel
    <2> QED BY <2>1, <2>3
  <1> QED BY <1>2

\* What holds of 0 and goes from each number to the next, up to n, holds up to n.
LEMMA StepByStep ==
    ASSUME NEW n \in Nat, NEW S, 0 \in S,
           \A i \in 0 .. n - 1 : i \in S => i + 1 \in S
    PROVE  \A i \in 0 .. n : i \in S
  <1> SUFFICES ASSUME (0 .. n) \ S # {}
               PROVE  FALSE
    OBVIOUS
  <1>1. PICK m \in (0 .. n) \ S : \A j \in (0 .. n) \ S : m <= j
    <2>1. (0 .. n) \ S \subseteq Nat
      OBVIOUS
    <2> QED BY <2>1, LeastElement
  <1>2. m # 0 /\ m - 1 \in 0 .. n - 1
    OBVIOUS
  <1>3. m - 1 \in S
    BY <1>1, <1>2
  <1> QED BY <1>2, <1>3

\* The element at k is taken out: the others keep their order, those after it
\* move up by one.
LEMMA DropElement ==
    ASSUME NEW S, NEW seq \in Seq(S), NEW k \in 1 .. Len(seq)
    PROVE  LET rest == SubSeq(seq, 1, k - 1) \o SubSeq(seq, k + 1, Len(seq))
           IN  /\ rest \in Seq(S)
               /\ Len(rest) = Len(seq) - 1
               /\ \A j \in 1 .. Len(seq) - 1 :
                     rest[j] = IF j < k THEN seq[j] ELSE seq[j + 1]
  <1> DEFINE front == SubSeq(seq, 1, k - 1)
             back  == SubSeq(seq, k + 1, Len(seq))
  <1>1. /\ front \in Seq(S) /\ Len(front) = k - 1
        /\ \A j \in 1 .. k - 1 : front[j] = seq[j]
    <2>1. \A i \in 1 .. k - 1 : seq[i] \in S
      OBVIOUS
    <2> QED BY <2>1, SubSeqProperties
  <1>2. /\ back \in Seq(S) /\ Len(back) = Len(seq) - k
        /\ \A j \in 1 .. Len(seq) - k : back[j] = seq[k + j]
    <2>1. \A i \in k + 1 .. Len(seq) : seq[i] \in S
      OBVIOUS
    <2> QED BY <2>1, SubSeqProperties
  <1> HIDE DEF front, back
  <1>3. front \o back \in Seq(S) /\ Len(front \o back) = Len(seq) - 1
    BY <1>1, <1>2
  <1>4. ASSUME NEW j \in 1 .. Len(seq) - 1
        PROVE  (front \o back)[j] = IF j < k THEN seq[j] ELSE seq[j + 1]
    <2>1. CASE j < k
      BY <1>1, <1>2, <2>1
    <2>2. CASE ~ (j < k)
      <3>1. j - (k - 1) \in 1 .. Len(seq) - k /\ k + (j - (k - 1)) = j + 1
        BY <2>2
      <3>2. (front \o back)[j] = back[j - (k - 1)]
        BY <1>1, <1>2, <2>2
      <3> QED BY <1>2, <2>2, <3>1, <3>2
    <2> QED BY <2>1, <2>2
  <1> QED BY <1>3, <1>4 DEF front, back

\* The positions of what is left, in the sequence it was taken from: every one
\* but k, in order.
LEMMA DropPositions ==
    ASSUME NEW n \in Nat, NEW k \in 1 .. n
    PROVE  LET old(j) == IF j < k THEN j ELSE j + 1
           IN  /\ \A j \in 1 .. n - 1 : old(j) \in 1 .. n /\ old(j) # k
               /\ \A i, j \in 1 .. n - 1 : i < j => old(i) < old(j)
               /\ \A m \in 1 .. n : m # k => \E j \in 1 .. n - 1 : old(j) = m
  <1> DEFINE old(j) == IF j < k THEN j ELSE j + 1
  <1>1. ASSUME NEW m \in 1 .. n, m # k
        PROVE  \E j \in 1 .. n - 1 : old(j) = m
    <2>1. CASE m < k
      <3>1. m \in 1 .. n - 1 /\ old(m) = m
        BY <2>1
      <3> QED BY <3>1
    <2>2. CASE m > k
      <3>1. m - 1 \in 1 .. n - 1 /\ old(m - 1) = m
        BY <2>2
      <3> QED BY <3>1
    <2> QED BY <1>1, <2>1, <2>2
  <1>2. \A j \in 1 .. n - 1 : old(j) \in 1 .. n /\ old(j) # k
    OBVIOUS
  <1>3. \A i, j \in 1 .. n - 1 : i < j => old(i) < old(j)
    OBVIOUS
  <1> QED BY <1>1, <1>2, <1>3

\* An element is put in front: the others move down by one.
LEMMA PushElement ==
    ASSUME NEW S, NEW seq \in Seq(S), NEW e \in S
    PROVE  /\ <<e>> \o seq \in Seq(S)
           /\ Len(<<e>> \o seq) = Len(seq) + 1
           /\ (<<e>> \o seq)[1] = e
           /\ \A i \in 1 .. Len(seq) : (<<e>> \o seq)[i + 1] = seq[i]
           /\ \A i \in 2 .. Len(seq) + 1 : (<<e>> \o seq)[i] = seq[i - 1]
OBVIOUS
=============================================================================
