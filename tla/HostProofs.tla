----------------------------- MODULE HostProofs -----------------------------
(***************************************************************************)
(* What the calls of one component of the host keep, for every value of    *)
(* the constants: the node table finds what was connected, the poller and  *)
(* its sockets account for descriptors and bytes, and the code server's    *)
(* modules have one owner.                                                 *)
(*                                                                         *)
(* NodesFound is inductive together with the type invariant; what it needs *)
(* besides is that the first entry of a name is one of its entries.  The   *)
(* sum of a sequence and the parser's pass over its chunks are recursive   *)
(* functions, of which induction over numbers gives what is needed.        *)
(***************************************************************************)
EXTENDS Vm, Io, NodeTable, SequenceFacts, FiniteSetTheorems

-----------------------------------------------------------------------------
\* The node table

\* The types of the table and of the record of what was connected are kept by
\* both branches of beam_node_table_connect_port.
LEMMA NodeTypeStep ==
    ASSUME NodeTypeOK, [NodeNext]_nodeVars
    PROVE  NodeTypeOK'
<1>1. CASE UNCHANGED nodeVars
    BY <1>1 DEF NodeTypeOK, nodeVars
<1>2. ASSUME NEW name \in Node, NEW port \in Port,
             beam_node_table_connect_port(name, port)
      PROVE  NodeTypeOK'
  <2>1. connected' \in [Node -> Port \cup {0}]
      BY <1>2 DEF NodeTypeOK, beam_node_table_connect_port
  <2>2. CASE EntriesOf(name) # {}
    <3>1. nodes' = [nodes EXCEPT ![FirstOf(name)] = [name |-> @.name, port |-> port]]
        BY <1>2, <2>2 DEF beam_node_table_connect_port
    <3>2. \A i \in 1 .. Len(nodes) :
            [name |-> nodes[i].name, port |-> port] \in NodeEntry
      <4> SUFFICES ASSUME NEW i \in 1 .. Len(nodes)
                   PROVE  nodes[i].name \in Node
          BY DEF NodeEntry
      <4>1. nodes[i] \in NodeEntry
          BY DEF NodeTypeOK
      <4> QED BY <4>1 DEF NodeEntry
    <3>3. nodes' \in [1 .. Len(nodes) -> NodeEntry]
      <4>1. nodes \in [1 .. Len(nodes) -> NodeEntry]
          BY DEF NodeTypeOK
      <4>2. nodes' = [i \in 1 .. Len(nodes) |->
                        IF i = FirstOf(name) THEN [name |-> nodes[i].name, port |-> port]
                        ELSE nodes[i]]
          BY <3>1, <4>1
      <4>3. \A i \in 1 .. Len(nodes) : nodes[i] \in NodeEntry
          BY <4>1
      <4> QED BY <3>2, <4>2, <4>3
    <3>4. nodes' \in Seq(NodeEntry) /\ Len(nodes') = Len(nodes)
        BY <3>3 DEF NodeTypeOK
    <3> QED BY <2>1, <3>4 DEF NodeTypeOK
  <2>3. CASE EntriesOf(name) = {}
    <3>1. /\ Len(nodes) < MAX_DIST_NODES
          /\ nodes' = Append(nodes, [name |-> Cut[name], port |-> port])
        BY <1>2, <2>3 DEF beam_node_table_connect_port
    <3>2. [name |-> Cut[name], port |-> port] \in NodeEntry
        BY NodeTableAssumption DEF NodeEntry
    <3> QED BY <2>1, <3>1, <3>2, NodeTableAssumption DEF NodeTypeOK
  <2> QED BY <2>2, <2>3
<1> QED BY <1>1, <1>2 DEF NodeNext

\* The index at which a known node's port is renewed is an entry of that node.
LEMMA FirstIsEntry ==
    ASSUME NodeTypeOK, NEW name, EntriesOf(name) # {}
    PROVE  FirstOf(name) \in EntriesOf(name)
<1>1. EntriesOf(name) \subseteq Nat
    BY DEF EntriesOf, NodeTypeOK
<1> QED BY <1>1, LeastElement DEF FirstOf

\* Renewing a port changes no name: every node keeps its entries.
LEMMA RenewKeepsEntries ==
    ASSUME NodeTypeOK, NEW i, NEW port,
           nodes' = [nodes EXCEPT ![i] = [name |-> @.name, port |-> port]],
           NEW x
    PROVE  EntriesOf(x)' = EntriesOf(x)
BY DEF NodeTypeOK, EntriesOf

\* A new entry is one more for the node whose name it stores, and the others
\* keep theirs.
LEMMA AppendAddsEntry ==
    ASSUME NodeTypeOK, NEW name \in Node, NEW port \in Port,
           nodes' = Append(nodes, [name |-> Cut[name], port |-> port]),
           NEW x
    PROVE  /\ EntriesOf(x)' = IF x = Cut[name] THEN EntriesOf(x) \cup {Len(nodes) + 1}
                              ELSE EntriesOf(x)
           /\ \A i \in EntriesOf(x) : nodes'[i] = nodes[i]
           /\ nodes'[Len(nodes) + 1].port = port
<1>1. /\ Len(nodes) \in Nat /\ DOMAIN nodes = 1 .. Len(nodes)
      /\ DOMAIN nodes' = 1 .. Len(nodes) + 1
      /\ \A i \in 1 .. Len(nodes) : nodes'[i] = nodes[i]
      /\ nodes'[Len(nodes) + 1] = [name |-> Cut[name], port |-> port]
    BY DEF NodeTypeOK
<1>2. /\ nodes'[Len(nodes) + 1].name = Cut[name]
      /\ nodes'[Len(nodes) + 1].port = port
    BY <1>1
<1> QED BY <1>1, <1>2 DEF EntriesOf

\* What is found, and that nodes which cannot be mistaken have one entry with
\* their last port, is kept by both branches of beam_node_table_connect_port.
LEMMA NodesFoundStep ==
    ASSUME NodeTypeOK, NodesFound, [NodeNext]_nodeVars
    PROVE  NodesFound'
<1>1. CASE UNCHANGED nodeVars
    BY <1>1 DEF NodesFound, beam_node_table_is_connected, EntriesOf, Unmistakable, nodeVars
<1>2. ASSUME NEW name \in Node, NEW port \in Port,
             beam_node_table_connect_port(name, port)
      PROVE  NodesFound'
  <2> SUFFICES ASSUME NEW x \in Node
               PROVE  /\ EntriesOf(x)' # {}
                             <=> \E n \in Node : Cut[n] = x /\ connected'[n] # 0
                      /\ Unmistakable(x) =>
                            /\ \A i, j \in EntriesOf(x)' : i = j
                            /\ \A i \in EntriesOf(x)' : nodes'[i].port = connected'[x]
      BY DEF NodesFound, beam_node_table_is_connected, Unmistakable
  <2>1. /\ connected' = [connected EXCEPT ![name] = port]
        /\ connected \in [Node -> Port \cup {0}]
        /\ port # 0
      BY <1>2, NodeTableAssumption DEF beam_node_table_connect_port, NodeTypeOK
  <2>2. /\ EntriesOf(x) # {} <=> \E n \in Node : Cut[n] = x /\ connected[n] # 0
        /\ Unmistakable(x) =>
              /\ \A i, j \in EntriesOf(x) : i = j
              /\ \A i \in EntriesOf(x) : nodes[i].port = connected[x]
      BY DEF NodesFound, beam_node_table_is_connected
  <2>3. CASE EntriesOf(name) # {}
    <3>1. nodes' = [nodes EXCEPT ![FirstOf(name)] = [name |-> @.name, port |-> port]]
        BY <1>2, <2>3 DEF beam_node_table_connect_port
    <3>2. EntriesOf(x)' = EntriesOf(x)
        BY <3>1, RenewKeepsEntries
    <3>3. Cut[name] = name
      <4>1. PICK n \in Node : Cut[n] = name
          BY <2>3 DEF NodesFound, beam_node_table_is_connected
      <4> QED BY <4>1, NodeTableAssumption
    <3>4. EntriesOf(x)' # {} <=> \E n \in Node : Cut[n] = x /\ connected'[n] # 0
        BY <2>1, <2>2, <2>3, <3>2, <3>3
    <3>5. FirstOf(name) \in EntriesOf(name)
        BY <2>3, FirstIsEntry
    <3>6. ASSUME Unmistakable(x), NEW i \in EntriesOf(x)
          PROVE  nodes'[i].port = connected'[x]
      <4>1. i \in DOMAIN nodes /\ nodes[i].name = x
          BY DEF EntriesOf
      <4>2. CASE x = name
        <5>1. i = FirstOf(name)
            BY <2>2, <3>5, <3>6, <4>2
        <5>2. nodes'[i].port = port
            BY <3>1, <4>1, <5>1
        <5> QED BY <2>1, <4>2, <5>2
      <4>3. CASE x # name
        <5>1. i # FirstOf(name)
            BY <3>5, <4>1, <4>3 DEF EntriesOf
        <5>2. nodes'[i] = nodes[i]
            BY <3>1, <4>1, <5>1
        <5> QED BY <2>1, <2>2, <3>6, <4>3, <5>2
      <4> QED BY <4>2, <4>3
    <3> QED BY <2>2, <3>2, <3>4, <3>6
  <2>4. CASE EntriesOf(name) = {}
    <3>1. nodes' = Append(nodes, [name |-> Cut[name], port |-> port])
        BY <1>2, <2>4 DEF beam_node_table_connect_port
    <3>2. /\ EntriesOf(x)' = IF x = Cut[name] THEN EntriesOf(x) \cup {Len(nodes) + 1}
                             ELSE EntriesOf(x)
          /\ \A i \in EntriesOf(x) : nodes'[i] = nodes[i]
          /\ nodes'[Len(nodes) + 1].port = port
        BY <3>1, AppendAddsEntry
    <3>3. EntriesOf(x)' # {} <=> \E n \in Node : Cut[n] = x /\ connected'[n] # 0
        BY <2>1, <2>2, <3>2
    <3>4. ASSUME Unmistakable(x)
          PROVE  /\ \A i, j \in EntriesOf(x)' : i = j
                 /\ \A i \in EntriesOf(x)' : nodes'[i].port = connected'[x]
      <4>1. CASE x = name
          BY <2>1, <2>4, <3>2, <4>1
      <4>2. CASE x # name
        <5>1. x # Cut[name]
            BY <3>4, <4>2 DEF Unmistakable
        <5> QED BY <2>1, <2>2, <3>2, <3>4, <4>2, <5>1
      <4> QED BY <4>1, <4>2
    <3> QED BY <3>3, <3>4
  <2> QED BY <2>3, <2>4
<1> QED BY <1>1, <1>2 DEF NodeNext

\* The table never holds more than MAX_DIST_NODES entries, each with a name and
\* a port (beam_node_table_connect_port).
THEOREM NodeTypeCorrect == NodeSpec => []NodeTypeOK
<1>1. NodeInit => NodeTypeOK
    BY NodeTableAssumption DEF NodeInit, NodeTypeOK
<1> QED BY <1>1, NodeTypeStep, PTL DEF NodeSpec

\* Whatever nodes were connected in whatever order, a node is found if and only
\* if one stored under its name was connected, and a node no other is mistaken
\* for has one entry, with its last port (beam_node_table_connect_port,
\* beam_node_table_is_connected).
THEOREM ConnectedNodesAreFound == NodeSpec => []NodesFound
<1>1. NodeInit => NodesFound
    BY DEF NodeInit, NodesFound, beam_node_table_is_connected, EntriesOf
<1> QED BY <1>1, NodeTypeCorrect, NodesFoundStep, PTL DEF NodeSpec

-----------------------------------------------------------------------------
\* Sums

\* upTo gives the sum of the first numbers, for every number of them.
Sums(upTo, numbers) ==
    /\ upTo = [i \in 0 .. Len(numbers) |-> upTo[i]]
    /\ upTo[0] = 0
    /\ \A i \in 1 .. Len(numbers) : upTo[i] = upTo[i - 1] + numbers[i]

\* As the recursive definition puts it.
LEMMA SumsEquation ==
    ASSUME NEW numbers \in Seq(Nat), NEW upTo
    PROVE  Sums(upTo, numbers) <=>
             upTo = [i \in 0 .. Len(numbers) |->
                       IF i = 0 THEN 0 ELSE upTo[i - 1] + numbers[i]]
<1>0. PICK N \in Nat : N = Len(numbers)
    OBVIOUS
<1>1. ASSUME upTo = [i \in 0 .. N |-> IF i = 0 THEN 0 ELSE upTo[i - 1] + numbers[i]]
      PROVE  Sums(upTo, numbers)
  <2>1. \A i \in 0 .. N : upTo[i] = IF i = 0 THEN 0 ELSE upTo[i - 1] + numbers[i]
      BY <1>1, Zenon
  <2>2. upTo[0] = 0
      BY <2>1
  <2>3. \A i \in 1 .. N : upTo[i] = upTo[i - 1] + numbers[i]
      BY <2>1
  <2>4. DOMAIN upTo = 0 .. N /\ upTo = [i \in DOMAIN upTo |-> upTo[i]]
      BY <1>1, Zenon
  <2> QED BY <1>0, <2>2, <2>3, <2>4 DEF Sums
<1>2. ASSUME Sums(upTo, numbers)
      PROVE  upTo = [i \in 0 .. N |-> IF i = 0 THEN 0 ELSE upTo[i - 1] + numbers[i]]
  <2>1. /\ upTo = [i \in 0 .. N |-> upTo[i]] /\ upTo[0] = 0
        /\ \A i \in 1 .. N : upTo[i] = upTo[i - 1] + numbers[i]
      BY <1>0, <1>2 DEF Sums
  <2>2. \A i \in 0 .. N : i = 0 \/ i \in 1 .. N
      OBVIOUS
  <2>3. \A i \in 0 .. N : upTo[i] = IF i = 0 THEN 0 ELSE upTo[i - 1] + numbers[i]
      BY <2>1, <2>2, Zenon
  <2>4. [i \in 0 .. N |-> upTo[i]] =
          [i \in 0 .. N |-> IF i = 0 THEN 0 ELSE upTo[i - 1] + numbers[i]]
      BY <2>3, Zenon
  <2> QED BY <2>1, <2>4
<1> QED BY <1>0, <1>1, <1>2

LEMMA SumsExist ==
    ASSUME NEW numbers \in Seq(Nat)
    PROVE  \E upTo : Sums(upTo, numbers)
<1>0. PICK N \in Nat : N = Len(numbers)
    OBVIOUS
<1> DEFINE First(upTo, n) ==
             /\ upTo = [i \in 0 .. N |-> upTo[i]]
             /\ upTo[0] = 0
             /\ \A i \in 1 .. n : upTo[i] = upTo[i - 1] + numbers[i]
           S == {n \in 0 .. N : \E upTo : First(upTo, n)}
<1>1. 0 \in S
  <2>1. First([i \in 0 .. N |-> 0], 0)
      BY <1>0
  <2> HIDE DEF First
  <2>2. \E upTo : First(upTo, 0)
      BY <2>1
  <2> QED BY <2>2
<1>2. ASSUME NEW n \in 0 .. N - 1, n \in S
      PROVE  n + 1 \in S
  <2>1. PICK upTo : First(upTo, n)
      BY <1>2
  <2> DEFINE longer == [i \in 0 .. N |->
                          IF i = n + 1 THEN upTo[n] + numbers[n + 1] ELSE upTo[i]]
  <2>2. ASSUME NEW i \in 1 .. n + 1
        PROVE  longer[i] = longer[i - 1] + numbers[i]
    <3>1. CASE i = n + 1
      <4>1. longer[i] = upTo[n] + numbers[n + 1] /\ longer[n] = upTo[n]
          BY <1>0, <3>1
      <4> QED BY <3>1, <4>1
    <3>2. CASE i # n + 1
      <4>1. i \in 1 .. n /\ longer[i] = upTo[i] /\ longer[i - 1] = upTo[i - 1]
          BY <1>0, <3>2
      <4> QED BY <2>1, <4>1
    <3> QED BY <3>1, <3>2
  <2>3. longer[0] = 0 /\ longer = [i \in 0 .. N |-> longer[i]]
      BY <2>1
  <2>4. First(longer, n + 1)
      BY <2>2, <2>3
  <2> HIDE DEF First
  <2>5. n + 1 \in 0 .. N /\ \E f : First(f, n + 1)
      BY <1>0, <2>4
  <2> QED BY <2>5
<1> HIDE DEF S
<1>3. \A n \in 0 .. N : n \in S
    BY <1>1, <1>2, StepByStep
<1>4. PICK upTo : First(upTo, N)
    BY <1>3 DEF S
<1>5. Sums(upTo, numbers)
    BY <1>0, <1>4 DEF Sums
<1> QED BY <1>5

\* Two functions that give the sums agree on the last.
LEMMA SumsAgree ==
    ASSUME NEW numbers \in Seq(Nat), NEW f, NEW g, Sums(f, numbers), Sums(g, numbers)
    PROVE  f[Len(numbers)] = g[Len(numbers)]
<1>0. PICK N \in Nat : N = Len(numbers)
    OBVIOUS
<1> DEFINE S == {n \in 0 .. N : f[n] = g[n]}
<1>1. /\ f[0] = 0 /\ \A i \in 1 .. N : f[i] = f[i - 1] + numbers[i]
      /\ g[0] = 0 /\ \A i \in 1 .. N : g[i] = g[i - 1] + numbers[i]
    BY <1>0 DEF Sums
<1>2. 0 \in S
    BY <1>1
<1>3. ASSUME NEW n \in 0 .. N - 1, n \in S
      PROVE  n + 1 \in S
  <2>1. n + 1 \in 1 .. N /\ n + 1 \in 0 .. N /\ (n + 1) - 1 = n
      OBVIOUS
  <2>2. f[n + 1] = f[n] + numbers[n + 1] /\ g[n + 1] = g[n] + numbers[n + 1]
      BY <1>1, <2>1
  <2> QED BY <1>3, <2>1, <2>2
<1> HIDE DEF S
<1>4. \A n \in 0 .. N : n \in S
    BY <1>2, <1>3, StepByStep
<1> QED BY <1>0, <1>4 DEF S

\* The sums are naturals.
LEMMA SumsType ==
    ASSUME NEW numbers \in Seq(Nat), NEW f, Sums(f, numbers)
    PROVE  f \in [0 .. Len(numbers) -> Nat]
<1>0. PICK N \in Nat : N = Len(numbers)
    OBVIOUS
<1> DEFINE S == {n \in 0 .. N : f[n] \in Nat}
<1>1. /\ f[0] = 0 /\ \A i \in 1 .. N : f[i] = f[i - 1] + numbers[i]
      /\ f = [i \in 0 .. N |-> f[i]]
    BY <1>0 DEF Sums
<1>2. 0 \in S
    BY <1>1
<1>3. ASSUME NEW n \in 0 .. N - 1, n \in S
      PROVE  n + 1 \in S
  <2>1. /\ n + 1 \in 1 .. N /\ n + 1 \in 0 .. N /\ (n + 1) - 1 = n
        /\ numbers[n + 1] \in Nat
      BY <1>0
  <2>2. f[n] \in Nat
      BY <1>3
  <2>3. f[n + 1] = f[n] + numbers[n + 1]
      BY <1>1, <2>1
  <2>4. f[n + 1] \in Nat
      BY <2>1, <2>2, <2>3
  <2> QED BY <2>1, <2>4
<1> HIDE DEF S
<1>4. \A n \in 0 .. N : n \in S
    BY <1>2, <1>3, StepByStep
<1> QED BY <1>0, <1>1, <1>4 DEF S

LEMMA TotalBySums ==
    ASSUME NEW numbers \in Seq(Nat)
    PROVE  \E f : /\ Sums(f, numbers) /\ f \in [0 .. Len(numbers) -> Nat]
                  /\ Total(numbers) = f[Len(numbers)]
<1> DEFINE f == CHOOSE upTo : upTo = [i \in 0 .. Len(numbers) |->
                                        IF i = 0 THEN 0 ELSE upTo[i - 1] + numbers[i]]
<1>1. \E upTo : upTo = [i \in 0 .. Len(numbers) |->
                          IF i = 0 THEN 0 ELSE upTo[i - 1] + numbers[i]]
    BY SumsExist, SumsEquation
<1>2. f = [i \in 0 .. Len(numbers) |-> IF i = 0 THEN 0 ELSE f[i - 1] + numbers[i]]
    BY <1>1, Zenon
<1>3. Total(numbers) = f[Len(numbers)]
    BY Zenon DEF Total
<1> HIDE DEF f
<1>4. Sums(f, numbers)
    BY <1>2, SumsEquation
<1> QED BY <1>3, <1>4, SumsType

LEMMA TotalEmpty == Total(<< >>) = 0
<1>1. << >> \in Seq(Nat) /\ Len(<< >>) = 0
    OBVIOUS
<1>2. PICK f : Sums(f, << >>) /\ Total(<< >>) = f[Len(<< >>)]
    BY <1>1, TotalBySums
<1> QED BY <1>1, <1>2 DEF Sums

\* One number more.
LEMMA TotalAppend ==
    ASSUME NEW numbers \in Seq(Nat), NEW n \in Nat
    PROVE  /\ Total(Append(numbers, n)) = Total(numbers) + n
           /\ Total(numbers) \in Nat
<1> DEFINE more == Append(numbers, n)
<1>0. PICK N \in Nat : N = Len(numbers)
    OBVIOUS
<1>1. /\ more \in Seq(Nat) /\ Len(more) = N + 1 /\ N \in Nat /\ more[N + 1] = n
      /\ \A i \in 1 .. N : more[i] = numbers[i]
    BY <1>0
<1>2. PICK f : /\ Sums(f, numbers) /\ f \in [0 .. N -> Nat]
               /\ Total(numbers) = f[N]
    BY <1>0, TotalBySums
<1>3. PICK g : Sums(g, more) /\ Total(more) = g[Len(more)]
    BY <1>1, TotalBySums
<1> DEFINE h == [i \in 0 .. N + 1 |-> IF i = N + 1 THEN f[N] + n ELSE f[i]]
<1> HIDE DEF more
<1>4. Sums(h, more)
  <2>1. /\ f[0] = 0 /\ \A i \in 1 .. N : f[i] = f[i - 1] + numbers[i]
      BY <1>0, <1>2 DEF Sums
  <2>2. ASSUME NEW i \in 1 .. N + 1
        PROVE  h[i] = h[i - 1] + more[i]
    <3>1. CASE i = N + 1
        BY <1>1, <3>1
    <3>2. CASE i # N + 1
        BY <1>1, <2>1, <3>2
    <3> QED BY <3>1, <3>2
  <2>3. h[0] = 0 /\ h = [i \in 0 .. N + 1 |-> h[i]]
      BY <2>1
  <2> QED BY <1>1, <2>2, <2>3 DEF Sums
<1>5. h[N + 1] = f[N] + n
    BY <1>1
<1> HIDE DEF h
<1>6. g[Len(more)] = h[Len(more)]
    BY <1>1, <1>3, <1>4, SumsAgree
<1> QED BY <1>1, <1>2, <1>3, <1>5, <1>6 DEF more

\* One number replaced.
LEMMA TotalExcept ==
    ASSUME NEW numbers \in Seq(Nat), NEW k \in 1 .. Len(numbers), NEW n \in Nat
    PROVE  Total([numbers EXCEPT ![k] = n]) = Total(numbers) - numbers[k] + n
<1> DEFINE changed == [numbers EXCEPT ![k] = n]
<1>0. PICK N \in Nat : N = Len(numbers)
    OBVIOUS
<1>1. /\ changed \in Seq(Nat) /\ Len(changed) = N /\ N \in Nat
      /\ \A i \in 1 .. N : changed[i] = IF i = k THEN n ELSE numbers[i]
      /\ \A i \in 1 .. N : numbers[i] \in Nat
      /\ k \in 1 .. N
    BY <1>0
<1>2. PICK f : /\ Sums(f, numbers) /\ f \in [0 .. N -> Nat]
               /\ Total(numbers) = f[N]
    BY <1>0, TotalBySums
<1>3. PICK g : Sums(g, changed) /\ Total(changed) = g[Len(changed)]
    BY <1>1, TotalBySums
<1> DEFINE h == [i \in 0 .. N |-> IF i < k THEN f[i] ELSE f[i] - numbers[k] + n]
<1> HIDE DEF changed
<1>4. Sums(h, changed)
  <2>1. f[0] = 0 /\ \A i \in 1 .. N : f[i] = f[i - 1] + numbers[i]
      BY <1>0, <1>2 DEF Sums
  <2>2. /\ \A i \in 0 .. N : h[i] = IF i < k THEN f[i] ELSE f[i] - numbers[k] + n
        /\ h = [i \in 0 .. N |-> h[i]]
      OBVIOUS
  <2> HIDE DEF h
  <2>3. ASSUME NEW i \in 1 .. N
        PROVE  h[i] = h[i - 1] + changed[i]
    <3>0. i \in 0 .. N /\ i - 1 \in 0 .. N /\ i \in Nat /\ k \in Nat
        OBVIOUS
    <3>1. /\ f[i] = f[i - 1] + numbers[i]
          /\ f[i - 1] \in Nat
          /\ numbers[k] \in Nat /\ numbers[i] \in Nat
          /\ changed[i] = IF i = k THEN n ELSE numbers[i]
      <4>1. f[i] = f[i - 1] + numbers[i]
          BY <2>1, Zenon
      <4>2. f[i - 1] \in Nat
          BY <1>2, <3>0, Zenon
      <4> QED BY <1>1, <4>1, <4>2, Zenon
    <3>2. /\ h[i] = IF i < k THEN f[i] ELSE f[i] - numbers[k] + n
          /\ h[i - 1] = IF i - 1 < k THEN f[i - 1] ELSE f[i - 1] - numbers[k] + n
        BY <2>2, <3>0, Zenon
    <3>3. CASE i < k
        BY <3>0, <3>1, <3>2, <3>3
    <3>4. CASE i = k
        BY <3>0, <3>1, <3>2, <3>4
    <3>5. CASE i > k
      <4>1. h[i] = f[i] - numbers[k] + n /\ h[i - 1] = f[i - 1] - numbers[k] + n
          BY <3>0, <3>2, <3>5
      <4>2. changed[i] = numbers[i]
          BY <3>0, <3>1, <3>5
      <4>3. \A x, y, z \in Nat : (x + y) - z + n = (x - z + n) + y
          OBVIOUS
      <4> QED BY <3>1, <4>1, <4>2, <4>3
    <3> QED BY <3>0, <3>3, <3>4, <3>5
  <2>4. h[0] = 0
    <3>1. 0 \in 0 .. N /\ 0 < k
        OBVIOUS
    <3>2. h[0] = IF 0 < k THEN f[0] ELSE f[0] - numbers[k] + n
        BY <2>2, <3>1, Zenon
    <3> QED BY <2>1, <3>1, <3>2
  <2> QED BY <1>1, <2>2, <2>3, <2>4 DEF Sums
<1>5. h[N] = f[N] - numbers[k] + n
    BY <1>1
<1> HIDE DEF h
<1>6. g[Len(changed)] = h[Len(changed)]
    BY <1>1, <1>3, <1>4, SumsAgree
<1> QED BY <1>1, <1>2, <1>3, <1>5, <1>6 DEF changed

\* Nothing but zeros.
LEMMA TotalZeros ==
    ASSUME NEW N \in Nat
    PROVE  Total([i \in 1 .. N |-> 0]) = 0
<1> DEFINE zeros == [i \in 1 .. N |-> 0]
           h == [i \in 0 .. N |-> 0]
<1>1. zeros \in Seq(Nat) /\ Len(zeros) = N /\ \A i \in 1 .. N : zeros[i] = 0
    OBVIOUS
<1>2. PICK f : Sums(f, zeros) /\ Total(zeros) = f[Len(zeros)]
    BY <1>1, TotalBySums
<1> HIDE DEF zeros
<1>3. Sums(h, zeros)
    BY <1>1 DEF Sums
<1>4. h[N] = 0
    OBVIOUS
<1> HIDE DEF h
<1>5. f[Len(zeros)] = h[Len(zeros)]
    BY <1>1, <1>2, <1>3, SumsAgree
<1> QED BY <1>1, <1>2, <1>4, <1>5 DEF zeros

-----------------------------------------------------------------------------
\* The poller and its sockets

IoInv ==
    /\ sockets \in [Fd -> {"closed", "listener", "client"}]
    /\ interest \subseteq {fd \in Fd : sockets[fd] # "closed"}
    /\ entries \in Seq(Fd) /\ Len(entries) <= MAX_POLL_ENTRIES
    /\ ready \in 0 .. MAX_POLL_ENTRIES
    /\ unread \in [Fd -> Nat] /\ sent \in Int
    /\ messages \in Seq(1 .. ReadMax)
    /\ WatchedIsInTable
    /\ BytesAccountedFor

\* The bytes that wait, taken as a sequence.
LEMMA UnreadIsSeq ==
    ASSUME unread \in [Fd -> Nat]
    PROVE  unread \in Seq(Nat) /\ Len(unread) = MaxFd /\ Fd = 1 .. Len(unread)
<1>1. MaxFd \in Nat
    BY IoAssumption
<1> QED BY <1>1 DEF Fd

LEMMA MessagesAreNat ==
    ASSUME messages \in Seq(1 .. ReadMax)
    PROVE  messages \in Seq(Nat)
<1>1. ReadMax \in Nat /\ 1 .. ReadMax \subseteq Nat
    BY IoAssumption
<1>2. \A i \in 1 .. Len(messages) : messages[i] \in Nat
    BY <1>1
<1> QED BY <1>2

LEMMA OpensStep ==
    ASSUME IoInv, NEW kind \in {"listener", "client"}, Opens(kind)
    PROVE  IoInv'
<1>1. PICK fd \in Fd :
        /\ sockets[fd] = "closed"
        /\ sockets' = [sockets EXCEPT ![fd] = kind]
        /\ UNCHANGED <<interest, entries, ready, unread, sent, messages, dropped>>
    BY DEF Opens
<1>2. sockets' \in [Fd -> {"closed", "listener", "client"}]
    BY <1>1 DEF IoInv
<1>3. interest \subseteq {g \in Fd : sockets'[g] # "closed"}
    BY <1>1 DEF IoInv
<1> QED BY <1>1, <1>2, <1>3 DEF IoInv, WatchedIsInTable, BytesAccountedFor

LEMMA CloseStep ==
    ASSUME IoInv, NEW fd \in Fd, Close(fd)
    PROVE  IoInv'
<1>1. /\ sockets' = [sockets EXCEPT ![fd] = "closed"]
      /\ interest' = interest \ {fd}
      /\ sent' = sent - unread[fd]
      /\ unread' = [unread EXCEPT ![fd] = 0]
      /\ UNCHANGED <<entries, ready, messages, dropped>>
    BY DEF Close
<1>2. /\ sockets' \in [Fd -> {"closed", "listener", "client"}]
      /\ interest' \subseteq {g \in Fd : sockets'[g] # "closed"}
    BY <1>1 DEF IoInv
<1>3. unread' \in [Fd -> Nat] /\ sent' \in Int /\ unread[fd] \in Nat
    BY <1>1 DEF IoInv
<1>4. WatchedIsInTable'
    BY <1>1 DEF IoInv, WatchedIsInTable
<1>5. BytesAccountedFor'
  <2> SUFFICES ASSUME ~dropped'
               PROVE  sent' = Total(messages') + Total(unread')
      BY DEF BytesAccountedFor
  <2>1. sent = Total(messages) + Total(unread)
      BY <1>1 DEF IoInv, BytesAccountedFor
  <2>2. unread \in Seq(Nat) /\ fd \in 1 .. Len(unread) /\ messages \in Seq(Nat)
      BY UnreadIsSeq, MessagesAreNat DEF IoInv
  <2>3. Total(unread') = Total(unread) - unread[fd] + 0
      BY <1>1, <2>2, TotalExcept
  <2>4. Total(messages) \in Nat /\ Total(unread) \in Nat
      BY <2>2, TotalAppend
  <2> QED BY <1>1, <1>3, <2>1, <2>3, <2>4
<1> QED BY <1>1, <1>2, <1>3, <1>4, <1>5 DEF IoInv

LEMMA PeerSendsStep ==
    ASSUME IoInv, NEW fd \in Fd, NEW n \in Nat, PeerSends(fd, n)
    PROVE  IoInv'
<1>1. /\ unread' = [unread EXCEPT ![fd] = @ + n]
      /\ sent' = sent + n
      /\ UNCHANGED <<sockets, interest, entries, ready, messages, dropped>>
    BY DEF PeerSends
<1>2. unread[fd] \in Nat /\ unread[fd] + n \in Nat
    BY DEF IoInv
<1>3. unread' = [unread EXCEPT ![fd] = unread[fd] + n] /\ unread' \in [Fd -> Nat]
    BY <1>1, <1>2 DEF IoInv
<1>4. BytesAccountedFor'
  <2> SUFFICES ASSUME ~dropped'
               PROVE  sent' = Total(messages') + Total(unread')
      BY DEF BytesAccountedFor
  <2>1. sent = Total(messages) + Total(unread)
      BY <1>1 DEF IoInv, BytesAccountedFor
  <2>2. unread \in Seq(Nat) /\ fd \in 1 .. Len(unread) /\ messages \in Seq(Nat)
      BY UnreadIsSeq, MessagesAreNat DEF IoInv
  <2>3. Total(unread') = Total(unread) - unread[fd] + (unread[fd] + n)
      BY <1>2, <1>3, <2>2, TotalExcept
  <2>4. Total(messages) \in Nat /\ Total(unread) \in Nat
      BY <2>2, TotalAppend
  <2> QED BY <1>1, <1>2, <2>1, <2>3, <2>4
<1>5. sent' \in Int
    BY <1>1 DEF IoInv
<1> QED BY <1>1, <1>3, <1>4, <1>5 DEF IoInv, WatchedIsInTable

LEMMA RegisterStep ==
    ASSUME IoInv, NEW fd \in Fd, beam_io_poller_register(fd)
    PROVE  IoInv'
<1>1. /\ Len(entries) < MAX_POLL_ENTRIES
      /\ sockets[fd] # "closed"
      /\ interest' = interest \cup {fd}
      /\ entries' = Append(entries, fd)
      /\ UNCHANGED <<sockets, ready, unread, sent, messages, dropped>>
    BY DEF beam_io_poller_register
<1>2. entries' \in Seq(Fd) /\ Len(entries') <= MAX_POLL_ENTRIES
    BY <1>1, IoAssumption DEF IoInv
<1>3. interest' \subseteq {g \in Fd : sockets'[g] # "closed"}
    BY <1>1 DEF IoInv
<1>4. WatchedIsInTable'
  <2>1. /\ DOMAIN entries = 1 .. Len(entries) /\ Len(entries) \in Nat
        /\ DOMAIN entries' = 1 .. Len(entries) + 1
        /\ entries'[Len(entries) + 1] = fd
        /\ \A i \in 1 .. Len(entries) : entries'[i] = entries[i]
      BY <1>1 DEF IoInv
  <2>2. ASSUME NEW g \in interest'
        PROVE  \E i \in DOMAIN entries' : entries'[i] = g
    <3>1. CASE g = fd
        BY <2>1, <3>1
    <3>2. CASE g # fd
      <4>1. PICK i \in DOMAIN entries : entries[i] = g
          BY <1>1, <3>2 DEF IoInv, WatchedIsInTable
      <4>2. i \in DOMAIN entries' /\ entries'[i] = g
          BY <2>1, <4>1
      <4> QED BY <4>2
    <3> QED BY <3>1, <3>2
  <2> QED BY <2>2 DEF WatchedIsInTable
<1>5. BytesAccountedFor'
    BY <1>1 DEF IoInv, BytesAccountedFor
<1> QED BY <1>1, <1>2, <1>3, <1>4, <1>5 DEF IoInv

LEMMA PollStep ==
    ASSUME IoInv, NEW interrupted \in BOOLEAN, beam_io_poller_poll(interrupted)
    PROVE  IoInv'
<1> DEFINE readable == {fd \in interest : unread[fd] > 0}
<1>1. MaxFd \in Nat /\ MAX_POLL_ENTRIES \in Nat
    BY IoAssumption
<1>2. IsFiniteSet(Fd)
    BY <1>1, FS_Interval DEF Fd
<1>3. readable \in SUBSET Fd
    BY DEF IoInv
<1>4. Cardinality(readable) \in Nat
    BY <1>2, <1>3, FS_Subset, FS_CardinalityType
<1>5. /\ ready' = IF interrupted THEN 0
                  ELSE IF Cardinality(readable) < MAX_POLL_ENTRIES
                       THEN Cardinality(readable) ELSE MAX_POLL_ENTRIES
      /\ UNCHANGED <<sockets, interest, entries, unread, sent, messages, dropped>>
    BY DEF beam_io_poller_poll
<1> HIDE DEF readable
<1>6. ready' \in 0 .. MAX_POLL_ENTRIES
    BY <1>1, <1>4, <1>5
<1> QED BY <1>5, <1>6 DEF IoInv, WatchedIsInTable, BytesAccountedFor

LEMMA DispatchStep ==
    ASSUME IoInv, NEW fd \in Fd, NEW got_node \in BOOLEAN,
           beam_socket_dispatch_mailbox(fd, got_node)
    PROVE  IoInv'
<1>1. PICK n : n = IF unread[fd] < ReadMax THEN unread[fd] ELSE ReadMax
    OBVIOUS
<1>2. unread[fd] \in Nat /\ ReadMax \in Nat \ {0}
    BY IoAssumption DEF IoInv
<1>3. /\ n > 0
      /\ unread' = [unread EXCEPT ![fd] = unread[fd] - n]
      /\ \/ messages' = Append(messages, n) /\ dropped' = dropped
         \/ dropped' = TRUE /\ messages' = messages
      /\ UNCHANGED <<sockets, interest, entries, ready, sent>>
    BY <1>1 DEF beam_socket_dispatch_mailbox, IoInv
<1>4. n \in 1 .. ReadMax /\ n \in Nat /\ unread[fd] - n \in Nat
    BY <1>1, <1>2, <1>3
<1>5. unread' \in [Fd -> Nat]
    BY <1>3, <1>4 DEF IoInv
<1>6. messages' \in Seq(1 .. ReadMax)
  <2>1. messages \in Seq(1 .. ReadMax)
      BY DEF IoInv
  <2>2. Append(messages, n) \in Seq(1 .. ReadMax)
      BY <1>4, <2>1, AppendProperties
  <2> QED BY <1>3, <2>1, <2>2
<1>7. BytesAccountedFor'
  <2> SUFFICES ASSUME ~dropped'
               PROVE  sent' = Total(messages') + Total(unread')
      BY DEF BytesAccountedFor
  <2>1. messages' = Append(messages, n) /\ ~dropped
      BY <1>3
  <2>2. sent = Total(messages) + Total(unread)
      BY <2>1 DEF IoInv, BytesAccountedFor
  <2>3. unread \in Seq(Nat) /\ fd \in 1 .. Len(unread) /\ messages \in Seq(Nat)
      BY UnreadIsSeq, MessagesAreNat DEF IoInv
  <2>4. Total(unread') = Total(unread) - unread[fd] + (unread[fd] - n)
      BY <1>3, <1>4, <2>3, TotalExcept
  <2>5. /\ Total(messages') = Total(messages) + n
        /\ Total(messages) \in Nat /\ Total(unread) \in Nat
      BY <1>4, <2>1, <2>3, TotalAppend
  <2>6. sent' = sent
      BY <1>3
  <2> QED BY <1>2, <1>4, <2>2, <2>4, <2>5, <2>6
<1> QED BY <1>3, <1>5, <1>6, <1>7 DEF IoInv, WatchedIsInTable

LEMMA IoAlways == IoSpec => []IoInv
<1>1. IoInit => IoInv
  <2> SUFFICES ASSUME IoInit
               PROVE  IoInv
      OBVIOUS
  <2>1. MaxFd \in Nat /\ MAX_POLL_ENTRIES \in Nat
      BY IoAssumption
  <2>2. Total(messages) = 0 /\ Total(unread) = 0
      BY <2>1, TotalEmpty, TotalZeros DEF IoInit, Fd
  <2>3. BytesAccountedFor
      BY <2>2 DEF IoInit, BytesAccountedFor
  <2>4. /\ sockets \in [Fd -> {"closed", "listener", "client"}]
        /\ unread \in [Fd -> Nat]
      BY DEF IoInit
  <2>5. /\ interest = {} /\ entries \in Seq(Fd) /\ Len(entries) <= MAX_POLL_ENTRIES
        /\ ready \in 0 .. MAX_POLL_ENTRIES /\ sent \in Int
        /\ messages \in Seq(1 .. ReadMax)
      BY <2>1 DEF IoInit
  <2> QED BY <2>3, <2>4, <2>5 DEF IoInv, WatchedIsInTable
<1>2. IoInv /\ [IoNext]_ioVars => IoInv'
  <2> SUFFICES ASSUME IoInv, [IoNext]_ioVars
               PROVE  IoInv'
      OBVIOUS
  <2>1. CASE UNCHANGED ioVars
      BY <2>1 DEF ioVars, IoInv, WatchedIsInTable, BytesAccountedFor
  <2>2. CASE beam_socket_listen \/ beam_socket_accept
      BY <2>2, OpensStep DEF beam_socket_listen, beam_socket_accept
  <2>3. CASE \E interrupted \in BOOLEAN : beam_io_poller_poll(interrupted)
      BY <2>3, PollStep
  <2>4. ASSUME NEW fd \in Fd,
               \/ Close(fd) \/ PeerSends(fd, 1) \/ PeerSends(fd, ReadMax + 1)
               \/ beam_io_poller_register(fd)
               \/ \E got_node \in BOOLEAN : beam_socket_dispatch_mailbox(fd, got_node)
        PROVE  IoInv'
    <3>1. 1 \in Nat /\ ReadMax + 1 \in Nat
        BY IoAssumption
    <3> QED BY <2>4, <3>1, CloseStep, PeerSendsStep, RegisterStep, DispatchStep
  <2> QED BY <2>1, <2>2, <2>3, <2>4 DEF IoNext
<1> QED BY <1>1, <1>2, PTL DEF IoSpec

\* The kernel's list holds open descriptors only, the table and a poll's answer
\* keep their limit, and a message is a number of bytes that one read may return
\* (sys_poll.c).
THEOREM IoTypeCorrect == IoSpec => []IoTypeOK
<1>1. IoInv => IoTypeOK
  <2> SUFFICES ASSUME IoInv
               PROVE  IoTypeOK
      OBVIOUS
  <2>1. messages \in Seq(1 .. ReadMax)
      BY DEF IoInv
  <2>2. \A i \in DOMAIN messages : messages[i] \in 1 .. ReadMax
      BY <2>1, ElementOfSeq, LenProperties
  <2> QED BY <2>2 DEF IoInv, IoTypeOK
<1> QED BY <1>1, IoAlways, PTL

\* However descriptors are closed and given out again, the kernel watches only
\* what the poller's table holds (WatchedIsInTable; beam_io_poller_register).
THEOREM WatchedCorrect == IoSpec => []WatchedIsInTable
<1>1. IoInv => WatchedIsInTable
    BY DEF IoInv
<1> QED BY <1>1, IoAlways, PTL

\* However arrivals, reads and closes interleave, every byte that was sent is
\* unread or in a message, unless an enqueue failed (BytesAccountedFor;
\* beam_socket_dispatch_mailbox).
THEOREM BytesCorrect == IoSpec => []BytesAccountedFor
<1>1. IoInv => BytesAccountedFor
    BY DEF IoInv
<1> QED BY <1>1, IoAlways, PTL

-----------------------------------------------------------------------------
\* The parser

\* What the parser's loop has in hand.
Parsing(s) == "file" \in DOMAIN s /\ s.file \in ParsedFile

\* The names of an atom table are read into a file that stays one.
LEMMA ReadAtomsType ==
    ASSUME NEW file \in ParsedFile, NEW names \in Seq(AtomNames), Len(names) <= MAX_ATOMS,
           NEW ok
    PROVE  ReadAtoms(file, names, ok) \in ParsedFile
<1> DEFINE Entry == AtomNames \cup {NULL}
           full == [i \in DOMAIN names |-> IF i \in ok THEN names[i] ELSE NULL]
           table == IF 0 \in ok THEN full ELSE << >>
           name == IF table # << >> /\ 1 \in ok THEN Stored[names[1]] ELSE file.module_name
<1>1. MAX_ATOMS \in Nat /\ Len(names) \in Nat /\ DOMAIN names = 1 .. Len(names)
    BY LoaderAssumption
<1>2. full \in Seq(Entry) /\ Len(full) = Len(names)
  <2>1. \A i \in 1 .. Len(names) : names[i] \in AtomNames
      BY ElementOfSeq
  <2>2. \A i \in 1 .. Len(names) : (IF i \in ok THEN names[i] ELSE NULL) \in Entry
      BY <2>1, Zenon
  <2> QED BY <1>1, <2>2
<1>3. table \in Seq(Entry) /\ Len(table) = IF 0 \in ok THEN Len(names) ELSE 0
  <2>1. << >> \in Seq(Entry) /\ Len(<< >>) = 0
      BY EmptySeq
  <2>2. CASE 0 \in ok
      BY <1>2, <2>2
  <2>3. CASE 0 \notin ok
    <3>1. table = << >>
        BY <2>3
    <3> HIDE DEF table
    <3> QED BY <2>1, <2>3, <3>1
  <2> QED BY <2>2, <2>3
<1>4. table # << >> => names[1] \in AtomNames
  <2>1. ASSUME table # << >>
        PROVE  Len(full) # 0
      BY <1>2, <2>1, EmptySeq
  <2>2. table # << >> => 1 \in 1 .. Len(names)
      BY <1>1, <1>2, <2>1
  <2> QED BY <2>2, ElementOfSeq
<1> HIDE DEF full, table
<1>5. name \in AtomNames
  <2>1. file.module_name \in AtomNames
      BY DEF ParsedFile, FileRecord
  <2>2. table # << >> => Stored[names[1]] \in AtomNames
      BY <1>4, LoaderAssumption
  <2> QED BY <2>1, <2>2
<1>6. ReadAtoms(file, names, ok) =
        [file EXCEPT !.atom_count = Len(names), !.has_table = 0 \in ok,
                     !.atom_table = table, !.module_name = name]
    BY DEF ReadAtoms, table, full, FileRecord, ParsedFile
<1> HIDE DEF name
<1>7. Len(names) \in 0 .. MAX_ATOMS /\ (0 \in ok) \in BOOLEAN
    BY <1>1
<1>8. file \in FileRecord
    BY DEF ParsedFile
<1>9. ReadAtoms(file, names, ok) \in FileRecord
    BY <1>3, <1>5, <1>6, <1>7, <1>8 DEF FileRecord
<1>10. /\ ReadAtoms(file, names, ok).atom_table = table
       /\ ReadAtoms(file, names, ok).has_table = (0 \in ok)
       /\ ReadAtoms(file, names, ok).atom_count = Len(names)
    BY <1>6, <1>8 DEF FileRecord
<1> QED BY <1>3, <1>9, <1>10 DEF ParsedFile

\* One turn of the loop.
LEMMA ParseChunkType ==
    ASSUME NEW f, NEW ok, NEW s, Parsing(s), NEW chunk \in Chunks
    PROVE  Parsing(ParseChunk(f, ok, s, chunk))
<1>1. /\ chunk.id \in STRING /\ chunk.at \in Nat /\ chunk.names \in Seq(AtomNames)
    BY DEF Chunks
<1>2. MAX_ATOMS \in Nat /\ Len(chunk.names) \in Nat
    BY <1>1, LoaderAssumption
<1>3. Parsing([s EXCEPT !.ended = TRUE])
    BY DEF Parsing
<1>4. ASSUME NEW past
      PROVE  Parsing([s EXCEPT !.ended = TRUE, !.refused = TRUE, !.undefined = past])
    BY DEF Parsing
<1>5. ASSUME ~(Len(chunk.names) > MAX_ATOMS), NEW got, NEW past
      PROVE  Parsing([s EXCEPT !.file = ReadAtoms(s.file, chunk.names, ok),
                               !.undefined = past, !.got = got])
  <2>1. ReadAtoms(s.file, chunk.names, ok) \in ParsedFile
      BY <1>1, <1>2, <1>5, ReadAtomsType DEF Parsing
  <2> HIDE DEF ReadAtoms
  <2> QED BY <2>1 DEF Parsing
<1>6. ASSUME chunk.id \in Section
      PROVE  Parsing([s EXCEPT !.file.section[chunk.id] = chunk.at])
  <2>1. [s.file.section EXCEPT ![chunk.id] = chunk.at] \in [Section -> Nat]
      BY <1>1, <1>6 DEF Parsing, ParsedFile, FileRecord
  <2>2. [s.file EXCEPT !.section = [s.file.section EXCEPT ![chunk.id] = chunk.at]]
          \in ParsedFile
      BY <2>1 DEF Parsing, ParsedFile, FileRecord
  <2> QED BY <2>2 DEF Parsing
<1> QED BY <1>3, <1>4, <1>5, <1>6, Zenon DEF ParseChunk

\* The states the loop goes through, one for each chunk read.
Start(f) == [file |-> NewFile, got |-> One("file", f), ended |-> FALSE,
             refused |-> FALSE, undefined |-> FALSE]

Turns(after, f, image, ok) ==
    /\ after = [i \in 0 .. Len(image.chunks) |-> after[i]]
    /\ after[0] = Start(f)
    /\ \A i \in 1 .. Len(image.chunks) :
          after[i] = ParseChunk(f, Granted(ok, i), after[i - 1], image.chunks[i])

\* As the recursive definition puts it.
LEMMA TurnsEquation ==
    ASSUME NEW f, NEW ok, NEW image, NEW after, Len(image.chunks) \in Nat
    PROVE  Turns(after, f, image, ok) <=>
             after = [i \in 0 .. Len(image.chunks) |->
                       IF i = 0 THEN Start(f)
                       ELSE ParseChunk(f, Granted(ok, i), after[i - 1], image.chunks[i])]
<1>0. PICK N \in Nat : N = Len(image.chunks)
    OBVIOUS
<1>1. ASSUME after = [i \in 0 .. N |-> IF i = 0 THEN Start(f)
                                       ELSE ParseChunk(f, Granted(ok, i), after[i - 1], image.chunks[i])]
      PROVE  Turns(after, f, image, ok)
  <2>1. \A i \in 0 .. N : after[i] = IF i = 0 THEN Start(f)
                                     ELSE ParseChunk(f, Granted(ok, i), after[i - 1], image.chunks[i])
      BY <1>1, Zenon
  <2>2. after[0] = Start(f)
      BY <2>1
  <2>3. \A i \in 1 .. N : i \in 0 .. N /\ i # 0
      OBVIOUS
  <2>4. \A i \in 1 .. N : after[i] = ParseChunk(f, Granted(ok, i), after[i - 1], image.chunks[i])
      BY <2>1, <2>3, Zenon
  <2>5. DOMAIN after = 0 .. N /\ after = [i \in DOMAIN after |-> after[i]]
      BY <1>1, Zenon
  <2> QED BY <1>0, <2>2, <2>4, <2>5, Zenon DEF Turns
<1>2. ASSUME Turns(after, f, image, ok)
      PROVE  after = [i \in 0 .. N |-> IF i = 0 THEN Start(f)
                                       ELSE ParseChunk(f, Granted(ok, i), after[i - 1], image.chunks[i])]
  <2>1. /\ after = [i \in 0 .. N |-> after[i]] /\ after[0] = Start(f)
        /\ \A i \in 1 .. N : after[i] = ParseChunk(f, Granted(ok, i), after[i - 1], image.chunks[i])
      BY <1>0, <1>2, Zenon DEF Turns
  <2>2. \A i \in 0 .. N : i = 0 \/ i \in 1 .. N
      OBVIOUS
  <2>3. \A i \in 0 .. N : after[i] = IF i = 0 THEN Start(f)
                                     ELSE ParseChunk(f, Granted(ok, i), after[i - 1], image.chunks[i])
      BY <2>1, <2>2, Zenon
  <2>4. [i \in 0 .. N |-> after[i]] =
          [i \in 0 .. N |-> IF i = 0 THEN Start(f)
                            ELSE ParseChunk(f, Granted(ok, i), after[i - 1], image.chunks[i])]
      BY <2>3, Zenon
  <2> QED BY <2>1, <2>4
<1> QED BY <1>0, <1>1, <1>2, Zenon

LEMMA TurnsExist ==
    ASSUME NEW f, NEW ok, NEW image, Len(image.chunks) \in Nat
    PROVE  \E after : Turns(after, f, image, ok)
<1>0. PICK N \in Nat : N = Len(image.chunks)
    OBVIOUS
<1> DEFINE Next(s, i) == ParseChunk(f, Granted(ok, i), s, image.chunks[i])
           First(after, n) ==
             /\ after = [i \in 0 .. N |-> after[i]]
             /\ after[0] = Start(f)
             /\ \A i \in 1 .. n : after[i] = Next(after[i - 1], i)
           S == {n \in 0 .. N : \E after : First(after, n)}
<1> HIDE DEF Next
<1>1. 0 \in S
  <2>1. First([i \in 0 .. N |-> Start(f)], 0)
      BY <1>0
  <2> HIDE DEF First
  <2>2. \E after : First(after, 0)
      BY <2>1
  <2> QED BY <2>2
<1>2. ASSUME NEW n \in 0 .. N - 1, n \in S
      PROVE  n + 1 \in S
  <2>1. PICK after : First(after, n)
      BY <1>2
  <2> DEFINE longer == [i \in 0 .. N |->
                          IF i = n + 1 THEN Next(after[n], n + 1) ELSE after[i]]
  <2>2. ASSUME NEW i \in 1 .. n + 1
        PROVE  longer[i] = Next(longer[i - 1], i)
    <3>1. CASE i = n + 1
      <4>1. longer[i] = Next(after[n], n + 1) /\ longer[n] = after[n] /\ i - 1 = n
          BY <1>0, <3>1
      <4> HIDE DEF longer
      <4> QED BY <3>1, <4>1, Zenon
    <3>2. CASE i # n + 1
      <4>1. i \in 1 .. n /\ longer[i] = after[i] /\ longer[i - 1] = after[i - 1]
          BY <1>0, <3>2
      <4> HIDE DEF longer
      <4>2. after[i] = Next(after[i - 1], i)
          BY <2>1, <4>1
      <4> QED BY <4>1, <4>2
    <3> QED BY <3>1, <3>2
  <2>3. longer[0] = Start(f) /\ longer = [i \in 0 .. N |-> longer[i]]
      BY <2>1
  <2> HIDE DEF longer
  <2>4. First(longer, n + 1)
      BY <2>2, <2>3
  <2> HIDE DEF First
  <2>5. n + 1 \in 0 .. N /\ \E g : First(g, n + 1)
      BY <1>0, <2>4
  <2> QED BY <2>5
<1> HIDE DEF S
<1>3. \A n \in 0 .. N : n \in S
    BY <1>1, <1>2, StepByStep
<1>4. PICK after : First(after, N)
    BY <1>3 DEF S
<1>5. Turns(after, f, image, ok)
    BY <1>0, <1>4, Zenon DEF Turns, Next
<1> QED BY <1>5

\* A new file is a parsed one.
LEMMA StartType ==
    ASSUME NEW f
    PROVE  Parsing(Start(f))
<1>1. 0 \in 0 .. MAX_ATOMS /\ Unnamed \in AtomNames
    BY LoaderAssumption
<1>2. /\ << >> \in Seq(AtomNames \cup {NULL}) /\ Len(<< >>) = 0
      /\ [s \in Section |-> 0] \in [Section -> Nat]
    BY EmptySeq
<1>3. NewFile \in ParsedFile
    BY <1>1, <1>2 DEF NewFile, ParsedFile, FileRecord
<1> QED BY <1>3 DEF Start, Parsing

\* Whatever the image holds and whichever allocations fail, the parser is left
\* with a file whose parts have their types and whose table has no more names
\* than beam_file_parse allows.
LEMMA ParseType ==
    ASSUME NEW f, NEW ok, NEW image \in Images
    PROVE  beam_file_parse(f, image, ok).file \in ParsedFile
<1>1. image.chunks \in Seq(Chunks) /\ Len(image.chunks) \in Nat
    BY LoaderAssumption
<1>0. PICK N \in Nat : N = Len(image.chunks)
    BY <1>1
<1> DEFINE run == CHOOSE after : after = [i \in 0 .. Len(image.chunks) |->
                       IF i = 0 THEN Start(f)
                       ELSE ParseChunk(f, Granted(ok, i), after[i - 1], image.chunks[i])]
<1>2. \E after : after = [i \in 0 .. Len(image.chunks) |->
                       IF i = 0 THEN Start(f)
                       ELSE ParseChunk(f, Granted(ok, i), after[i - 1], image.chunks[i])]
  <2>1. PICK after : Turns(after, f, image, ok)
      BY <1>1, TurnsExist
  <2>2. after = [i \in 0 .. Len(image.chunks) |->
                   IF i = 0 THEN Start(f)
                   ELSE ParseChunk(f, Granted(ok, i), after[i - 1], image.chunks[i])]
      BY <1>1, <2>1, TurnsEquation
  <2> QED BY <2>2, Zenon
<1>3. run = [i \in 0 .. Len(image.chunks) |->
                       IF i = 0 THEN Start(f)
                       ELSE ParseChunk(f, Granted(ok, i), run[i - 1], image.chunks[i])]
    BY <1>2, Zenon
<1>4. beam_file_parse(f, image, ok) = run[Len(image.chunks)]
    BY Zenon DEF beam_file_parse, Start
<1> HIDE DEF run
<1>5. Turns(run, f, image, ok)
    BY <1>1, <1>3, TurnsEquation
<1> DEFINE S == {n \in 0 .. N : Parsing(run[n])}
<1>6. 0 \in S
  <2>1. Parsing(run[0])
      BY <1>5, StartType, Zenon DEF Turns
  <2> QED BY <2>1
<1>7. ASSUME NEW n \in 0 .. N - 1, n \in S
      PROVE  n + 1 \in S
  <2>1. n + 1 \in 1 .. N /\ n + 1 \in 0 .. N /\ (n + 1) - 1 = n
      OBVIOUS
  <2>2. image.chunks[n + 1] \in Chunks
      BY <1>0, <1>1, <2>1, ElementOfSeq
  <2>3. run[n + 1] = ParseChunk(f, Granted(ok, n + 1), run[(n + 1) - 1], image.chunks[n + 1])
      BY <1>0, <1>5, <2>1, Zenon DEF Turns
  <2>4. Parsing(run[n])
      BY <1>7
  <2>5. Parsing(run[n + 1])
      BY <2>1, <2>2, <2>3, <2>4, ParseChunkType
  <2> QED BY <2>1, <2>5
<1> HIDE DEF S
<1>8. \A n \in 0 .. N : n \in S
    BY <1>6, <1>7, StepByStep
<1>9. Parsing(run[N])
    BY <1>8 DEF S
<1> QED BY <1>0, <1>4, <1>9 DEF Parsing

\* A file in memory is not the absence of one.
LEMMA NoFileParsed == NoFile \notin ParsedFile
BY DEF NoFile, ParsedFile, FileRecord

-----------------------------------------------------------------------------
\* The code server

Registered(f) == \E i \in DOMAIN modules : modules[i].file = f

\* Every file in memory has an owner, and every owner a file in memory.
FilesOwned == \A f \in File : files[f] # NoFile <=> f \in hand \/ Registered(f)

\* What the server has is out of the host's hands, and no two of its entries
\* share a file or a name.
EntriesApart ==
    /\ \A i \in DOMAIN modules : modules[i].file \notin hand
    /\ \A i, j \in DOMAIN modules :
          modules[i].file = modules[j].file \/ modules[i].name = modules[j].name => i = j

LoaderInv == LoaderTypeOK /\ FilesOwned /\ EntriesApart

\* What lookup finds: the first entry of the name, or 0 when there is none.
LEMMA LookupFinds ==
    ASSUME LoaderTypeOK, NEW name
    PROVE  LET at == {i \in DOMAIN modules : modules[i].name = name}
           IN  /\ at = {} <=> beam_code_server_lookup_module(name) = 0
               /\ at # {} => \E i \in at : beam_code_server_lookup_module(name)
                                              = modules[i].file
<1> DEFINE at == {i \in DOMAIN modules : modules[i].name = name}
           first == CHOOSE i \in at : \A j \in at : i <= j
<1>1. /\ modules \in Seq([name : AtomNames, file : File])
      /\ DOMAIN modules = 1 .. Len(modules) /\ Len(modules) \in Nat
    BY DEF LoaderTypeOK
<1>2. beam_code_server_lookup_module(name) = IF at = {} THEN 0 ELSE modules[first].file
    BY DEF beam_code_server_lookup_module
<1>3. ASSUME at # {}
      PROVE  first \in at
  <2>1. at \subseteq Nat
      BY <1>1
  <2>2. \E i \in at : \A j \in at : i <= j
      BY <1>3, <2>1, LeastElement
  <2> QED BY <2>2, Zenon
<1>4. \A i \in at : modules[i].file # 0
  <2>0. \A i \in 1 .. Len(modules) : modules[i] \in [name : AtomNames, file : File]
      BY <1>1, ElementOfSeq
  <2>1. \A i \in 1 .. Len(modules) : modules[i].file \in File
      BY <2>0
  <2>2. 0 \notin File
      BY DEF File
  <2> QED BY <1>1, <2>1, <2>2
<1> HIDE DEF at, first
<1>5. CASE at = {}
    BY <1>2, <1>5 DEF at
<1>6. CASE at # {}
  <2>1. first \in at /\ beam_code_server_lookup_module(name) = modules[first].file
      BY <1>2, <1>3, <1>6
  <2>2. /\ \E i \in at : beam_code_server_lookup_module(name) = modules[i].file
        /\ beam_code_server_lookup_module(name) # 0
      BY <1>4, <2>1, Zenon
  <2> QED BY <1>6, <2>2 DEF at
<1> QED BY <1>5, <1>6

LEMMA LoaderInitial == VmInit => LoaderInv
<1> SUFFICES ASSUME LoaderInit
             PROVE  LoaderInv
    BY DEF VmInit
<1>1. /\ {MaxFiles, MaxParses, MAX_ATOMS, MAX_LOADED_MODULES} \subseteq Nat \ {0}
      /\ files = [f \in File |-> NoFile] /\ hand = {} /\ boxed = {}
      /\ modules = << >> /\ parses = 0 /\ odd = {}
    BY LoaderAssumption DEF LoaderInit
<1>2. modules \in Seq([name : AtomNames, file : File]) /\ Len(modules) = 0
    BY <1>1, EmptySeq
<1>3. DOMAIN modules = {}
    BY <1>2
<1>4. LoaderTypeOK
  <2>1. files \in [File -> ParsedFile \cup {NoFile}]
      BY <1>1
  <2>2. 0 <= MAX_LOADED_MODULES /\ 0 \in 0 .. MaxParses
      BY <1>1
  <2>3. hand \subseteq File /\ boxed \subseteq hand /\ odd \subseteq {"lost", "past"}
      BY <1>1
  <2> QED BY <1>1, <1>2, <2>1, <2>2, <2>3, Zenon DEF LoaderTypeOK
<1>5. FilesOwned /\ EntriesApart
    BY <1>1, <1>3 DEF FilesOwned, EntriesApart, Registered
<1> QED BY <1>4, <1>5 DEF LoaderInv

LEMMA LoaderStutter == LoaderInv /\ UNCHANGED loaderVars => LoaderInv'
BY DEF LoaderInv, LoaderTypeOK, FilesOwned, EntriesApart, Registered, loaderVars

\* A file is parsed into a number nobody has, and the host holds it.
LEMMA LoadStep ==
    ASSUME LoaderInv, NEW image \in Images, NEW ok, NEW wrapped \in BOOLEAN, NEW none \in BOOLEAN,
           LoadFile(image, ok, wrapped, none)
    PROVE  LoaderInv'
<1>1. PICK f \in File :
        /\ files[f] = NoFile
        /\ odd' = odd \/ odd' = odd \cup Odd(image)
        /\ \/ UNCHANGED <<files, hand, boxed>>
           \/ /\ files' = [files EXCEPT ![f] = beam_file_parse(f, image, ok).file]
              /\ hand' = hand \cup {f}
              /\ boxed' = IF wrapped THEN boxed \cup {f} ELSE boxed
  <2>1. PICK f \in File :
          /\ files[f] = NoFile
          /\ LET s == beam_file_parse(f, image, ok)
                 wrapper == Several("module", f, IF wrapped THEN 1 ELSE 0)
             IN  IF none \/ ~image.magic
                 THEN UNCHANGED <<files, hand, boxed, odd, mem>>
                 ELSE IF s.refused
                 THEN /\ mem' = Touch(sys_free(sys_alloc(mem, s.got (+) wrapper), wrapper),
                                      s.undefined)
                      /\ odd' = odd \cup Odd(image)
                      /\ UNCHANGED <<files, hand, boxed>>
                 ELSE /\ mem' = Touch(sys_alloc(mem, s.got (+) wrapper), s.undefined)
                      /\ files' = [files EXCEPT ![f] = s.file]
                      /\ hand' = hand \cup {f}
                      /\ boxed' = IF wrapped THEN boxed \cup {f} ELSE boxed
                      /\ odd' = odd \cup Odd(image)
      BY Zenon DEF LoadFile
  <2>2. /\ odd' = odd \/ odd' = odd \cup Odd(image)
        /\ \/ UNCHANGED <<files, hand, boxed>>
           \/ /\ files' = [files EXCEPT ![f] = beam_file_parse(f, image, ok).file]
              /\ hand' = hand \cup {f}
              /\ boxed' = IF wrapped THEN boxed \cup {f} ELSE boxed
      BY <2>1, Zenon
  <2> QED BY <2>1, <2>2
<1>2. modules' = modules /\ parses < MaxParses /\ parses' = parses + 1
    BY DEF LoadFile
<1>3. /\ hand \subseteq File /\ boxed \subseteq hand
      /\ files \in [File -> ParsedFile \cup {NoFile}]
      /\ modules \in Seq([name : AtomNames, file : File])
      /\ Len(modules) <= MAX_LOADED_MODULES
      /\ parses \in 0 .. MaxParses /\ odd \subseteq {"lost", "past"}
    BY DEF LoaderInv, LoaderTypeOK
<1>3a. odd' \subseteq {"lost", "past"}
  <2>1. Odd(image) \subseteq {"lost", "past"}
      BY DEF Odd
  <2> QED BY <1>1, <1>3, <2>1
<1>4. parses' \in 0 .. MaxParses
  <2>1. MaxParses \in Nat
      BY LoaderAssumption
  <2> QED BY <1>2, <1>3, <2>1
<1>5. CASE UNCHANGED <<files, hand, boxed>>
  <2>1. LoaderTypeOK'
      BY <1>2, <1>3, <1>3a, <1>4, <1>5 DEF LoaderTypeOK
  <2>2. FilesOwned' /\ EntriesApart'
      BY <1>2, <1>5 DEF LoaderInv, FilesOwned, EntriesApart, Registered
  <2> QED BY <2>1, <2>2 DEF LoaderInv
<1>6. CASE /\ files' = [files EXCEPT ![f] = beam_file_parse(f, image, ok).file]
           /\ hand' = hand \cup {f}
           /\ boxed' = IF wrapped THEN boxed \cup {f} ELSE boxed
  <2>1. PICK parsed \in ParsedFile : files' = [files EXCEPT ![f] = parsed]
      BY <1>6, ParseType
  <2>2. parsed # NoFile
      BY NoFileParsed
  <2>3. f \notin hand /\ ~Registered(f)
      BY <1>1 DEF LoaderInv, FilesOwned
  <2>5. hand' \subseteq File /\ boxed' \subseteq hand'
      BY <1>3, <1>6
  <2>6. files' \in [File -> ParsedFile \cup {NoFile}]
      BY <1>3, <2>1
  <2>7. LoaderTypeOK'
      BY <1>2, <1>3, <1>3a, <1>4, <2>5, <2>6, Zenon DEF LoaderTypeOK
  <2>8. FilesOwned'
    <3>1. ASSUME NEW g \in File
          PROVE  /\ Registered(g)' <=> Registered(g)
                 /\ g = f => files'[g] # NoFile /\ g \in hand'
                 /\ g # f => files'[g] = files[g] /\ (g \in hand' <=> g \in hand)
        BY <1>2, <1>3, <1>6, <2>1, <2>2 DEF Registered
    <3> QED BY <3>1 DEF LoaderInv, FilesOwned
  <2>9. EntriesApart'
    <3>1. \A i \in DOMAIN modules : modules[i].file # f
        BY <2>3 DEF Registered
    <3> QED BY <1>2, <1>6, <3>1 DEF LoaderInv, EntriesApart
  <2> QED BY <2>7, <2>8, <2>9 DEF LoaderInv
<1> QED BY <1>1, <1>5, <1>6

\* The host destroys what it holds, which no entry has.
LEMMA DestroyFileStep ==
    ASSUME LoaderInv, NEW f \in File, DestroyFile(f)
    PROVE  LoaderInv'
<1>1. /\ f \in hand
      /\ files' = [files EXCEPT ![f] = NoFile]
      /\ hand' = hand \ {f} /\ boxed' = boxed \ {f}
      /\ modules' = modules /\ parses' = parses /\ odd' = odd
    BY DEF DestroyFile
<1>2. /\ hand \subseteq File /\ boxed \subseteq hand
      /\ files \in [File -> ParsedFile \cup {NoFile}]
    BY DEF LoaderInv, LoaderTypeOK
<1>3. LoaderTypeOK'
  <2>1. files' \in [File -> ParsedFile \cup {NoFile}]
      BY <1>1, <1>2
  <2>2. hand' \subseteq File /\ boxed' \subseteq hand'
      BY <1>1, <1>2
  <2> QED BY <1>1, <2>1, <2>2 DEF LoaderInv, LoaderTypeOK
<1>4. ~Registered(f)
    BY <1>1 DEF LoaderInv, EntriesApart, Registered
<1>5. FilesOwned'
  <2>1. ASSUME NEW g \in File
        PROVE  /\ Registered(g)' <=> Registered(g)
               /\ g = f => files'[g] = NoFile /\ g \notin hand'
               /\ g # f => files'[g] = files[g] /\ (g \in hand' <=> g \in hand)
      BY <1>1, <1>2 DEF Registered
  <2> QED BY <1>4, <2>1 DEF LoaderInv, FilesOwned
<1>6. EntriesApart'
    BY <1>1 DEF LoaderInv, EntriesApart
<1> QED BY <1>3, <1>5, <1>6 DEF LoaderInv

\* A file is registered under a name no entry has, or not at all.
LEMMA RegisterModuleStep ==
    ASSUME LoaderInv, NEW name \in AtomNames, Stored[name] = name, NEW f \in File,
           beam_code_server_register_module(name, f)
    PROVE  LoaderInv'
<1> DEFINE entry == [name |-> name, file |-> f]
<1>1. /\ f \in hand \ boxed
      /\ files' = files /\ boxed' = boxed /\ parses' = parses /\ odd' = odd
    BY DEF beam_code_server_register_module
<1>2. \/ UNCHANGED <<hand, modules>>
      \/ /\ Len(modules) < MAX_LOADED_MODULES
         /\ beam_code_server_lookup_module(name) = 0
         /\ modules' = Append(modules, entry)
         /\ hand' = hand \ {f}
  <2>1. Len(modules) \in Nat /\ MAX_LOADED_MODULES \in Nat
      BY LoaderAssumption DEF LoaderInv, LoaderTypeOK
  <2>2. CASE Len(modules) >= MAX_LOADED_MODULES \/ beam_code_server_lookup_module(name) # 0
      BY <2>2, Zenon DEF beam_code_server_register_module
  <2>3. CASE ~(Len(modules) >= MAX_LOADED_MODULES \/ beam_code_server_lookup_module(name) # 0)
    <3>1. modules' = Append(modules, entry) /\ hand' = hand \ {f}
        BY <2>3, Zenon DEF beam_code_server_register_module
    <3> QED BY <2>1, <2>3, <3>1
  <2> QED BY <2>2, <2>3
<1>3. /\ hand \subseteq File /\ boxed \subseteq hand
      /\ files \in [File -> ParsedFile \cup {NoFile}]
      /\ modules \in Seq([name : AtomNames, file : File])
      /\ Len(modules) \in Nat /\ DOMAIN modules = 1 .. Len(modules)
    BY DEF LoaderInv, LoaderTypeOK
<1>4. CASE UNCHANGED <<hand, modules>>
    BY <1>1, <1>4, LoaderStutter DEF loaderVars
<1>5. CASE /\ Len(modules) < MAX_LOADED_MODULES
           /\ beam_code_server_lookup_module(name) = 0
           /\ modules' = Append(modules, entry)
           /\ hand' = hand \ {f}
  <2>1. files[f] # NoFile
      BY <1>1 DEF LoaderInv, FilesOwned
  <2>3. entry \in [name : AtomNames, file : File]
      OBVIOUS
  <2>4. /\ \A i \in DOMAIN modules : modules[i].name # name
        /\ \A i \in DOMAIN modules : modules[i].file # f
    <3>1. {i \in DOMAIN modules : modules[i].name = name} = {}
        BY <1>5, LookupFinds, Zenon DEF LoaderInv
    <3>2. \A i \in DOMAIN modules : modules[i].file \notin hand
        BY DEF LoaderInv, EntriesApart
    <3> QED BY <1>1, <3>1, <3>2
  <2>5. entry.name = name /\ entry.file = f
      OBVIOUS
  <2> HIDE DEF entry
  <2>6. PICK N \in Nat : N = Len(modules)
      BY <1>3, Zenon
  <2>7. /\ modules' \in Seq([name : AtomNames, file : File])
        /\ Len(modules') = N + 1 /\ DOMAIN modules' = 1 .. N + 1
        /\ modules'[N + 1] = entry
        /\ \A i \in 1 .. N : modules'[i] = modules[i]
      BY <1>3, <1>5, <2>3, <2>6
  <2>8. DOMAIN modules = 1 .. N /\ \A i \in 1 .. N + 1 : i = N + 1 \/ i \in 1 .. N
      BY <1>3, <2>6
  <2>9. LoaderTypeOK'
    <3>1. Len(modules') <= MAX_LOADED_MODULES
      <4>1. MAX_LOADED_MODULES \in Nat
          BY LoaderAssumption
      <4> QED BY <1>5, <2>6, <2>7, <4>1
    <3>2. hand' \subseteq File /\ boxed' \subseteq hand'
        BY <1>1, <1>3, <1>5
    <3> QED BY <1>1, <2>7, <3>1, <3>2, Zenon DEF LoaderInv, LoaderTypeOK
  <2>10. FilesOwned'
    <3>1. Registered(f)'
      <4>1. N + 1 \in DOMAIN modules' /\ modules'[N + 1].file = f
          BY <2>5, <2>7
      <4> QED BY <4>1 DEF Registered
    <3>2. ASSUME NEW g \in File, g # f
          PROVE  Registered(g)' <=> Registered(g)
      <4>1. ASSUME NEW i \in DOMAIN modules', modules'[i].file = g
            PROVE  i \in DOMAIN modules /\ modules[i].file = g
          BY <2>5, <2>7, <2>8, <3>2, <4>1, Zenon
      <4>2. ASSUME NEW i \in DOMAIN modules, modules[i].file = g
            PROVE  i \in DOMAIN modules' /\ modules'[i].file = g
          BY <2>7, <2>8, <4>2
      <4> QED BY <4>1, <4>2 DEF Registered
    <3> QED BY <1>1, <1>5, <2>1, <3>1, <3>2 DEF LoaderInv, FilesOwned
  <2>11. EntriesApart'
    <3>1. \A i \in DOMAIN modules : modules[i].file \notin hand
        BY DEF LoaderInv, EntriesApart
    <3>2. \A i \in DOMAIN modules' : modules'[i].file \notin hand'
        BY <1>5, <2>5, <2>7, <2>8, <3>1
    <3>3. ASSUME NEW i \in 1 .. N + 1, NEW j \in 1 .. N + 1,
                 modules'[i].file = modules'[j].file \/ modules'[i].name = modules'[j].name
          PROVE  i = j
      <4>1. CASE i \in 1 .. N /\ j \in 1 .. N
          BY <2>7, <2>8, <3>3, <4>1 DEF LoaderInv, EntriesApart
      <4>2. CASE i = N + 1 /\ j \in 1 .. N
          BY <2>4, <2>5, <2>7, <2>8, <3>3, <4>2
      <4>3. CASE i \in 1 .. N /\ j = N + 1
          BY <2>4, <2>5, <2>7, <2>8, <3>3, <4>3
      <4> QED BY <2>8, <4>1, <4>2, <4>3
    <3> QED BY <2>7, <3>2, <3>3, Zenon DEF EntriesApart
  <2> QED BY <2>9, <2>10, <2>11 DEF LoaderInv
<1> QED BY <1>2, <1>4, <1>5

\* With the server go its files, and the host's stay.
LEMMA VmDestroyStep ==
    ASSUME LoaderInv, beam_vm_destroy
    PROVE  LoaderInv'
<1>1. /\ files' = [f \in File |-> IF f \in hand THEN files[f] ELSE NoFile]
      /\ modules' = << >>
      /\ hand' = hand /\ boxed' = boxed /\ parses' = parses /\ odd' = odd
    BY DEF beam_vm_destroy
<1>2. modules' \in Seq([name : AtomNames, file : File]) /\ Len(modules') = 0
    BY <1>1, EmptySeq
<1>3. DOMAIN modules' = {}
    BY <1>2
<1>4. LoaderTypeOK'
  <2>1. files' \in [File -> ParsedFile \cup {NoFile}]
      BY <1>1 DEF LoaderInv, LoaderTypeOK
  <2>2. 0 <= MAX_LOADED_MODULES
      BY LoaderAssumption
  <2> QED BY <1>1, <1>2, <2>1, <2>2 DEF LoaderInv, LoaderTypeOK
<1>5. FilesOwned' /\ EntriesApart'
    BY <1>1, <1>3 DEF LoaderInv, FilesOwned, EntriesApart, Registered
<1> QED BY <1>4, <1>5 DEF LoaderInv

LEMMA LoaderStep == LoaderInv /\ [VmNext]_<<mem, vmVars>> => LoaderInv'
<1> SUFFICES ASSUME LoaderInv, [VmNext]_<<mem, vmVars>>
             PROVE  LoaderInv'
    OBVIOUS
<1>1. ASSUME NEW got \in SUBSET Subsystem, beam_vm_create(got)
      PROVE  LoaderInv'
    BY <1>1, LoaderStutter DEF beam_vm_create
<1>2. ASSUME beam_vm_destroy
      PROVE  LoaderInv'
    BY <1>2, VmDestroyStep
<1>3. ASSUME NEW image \in Images, NEW ok \in SUBSET Requests(image), NEW wrapped \in BOOLEAN,
             NEW none \in BOOLEAN, LoadFile(image, ok, wrapped, none)
      PROVE  LoaderInv'
    BY <1>3, LoadStep
<1>4. ASSUME NEW name \in {n \in AtomNames : Stored[n] = n}, NEW f \in File,
             beam_code_server_register_module(name, f)
      PROVE  LoaderInv'
    BY <1>4, RegisterModuleStep
<1>5. ASSUME NEW f \in File, DestroyFile(f)
      PROVE  LoaderInv'
    BY <1>5, DestroyFileStep
<1>6. CASE UNCHANGED <<mem, vmVars>>
    BY <1>6, LoaderStutter DEF vmVars
<1> QED BY <1>1, <1>2, <1>3, <1>4, <1>5, <1>6, Zenon DEF VmNext

\* Entries that share nothing make one owner a file, and each entry the one
\* its name finds.
LEMMA OneOwnerFromInv == LoaderInv => ModulesHaveOneOwner
<1> SUFFICES ASSUME LoaderInv
             PROVE  ModulesHaveOneOwner
    OBVIOUS
<1> DEFINE owners(f) == {i \in DOMAIN modules : modules[i].file = f}
<1>1. ASSUME NEW f \in File, files[f] # NoFile
      PROVE  Cardinality(owners(f)) + (IF f \in hand THEN 1 ELSE 0) = 1
  <2>1. CASE f \in hand
    <3>1. owners(f) = {}
        BY <2>1 DEF LoaderInv, EntriesApart
    <3>2. Cardinality(owners(f)) = 0
        BY <3>1, FS_EmptySet
    <3> HIDE DEF owners
    <3> QED BY <2>1, <3>2
  <2>2. CASE f \notin hand
    <3>1. PICK i \in DOMAIN modules : modules[i].file = f
        BY <1>1, <2>2 DEF LoaderInv, FilesOwned, Registered
    <3>2. owners(f) = {i}
        BY <3>1 DEF LoaderInv, EntriesApart
    <3>3. Cardinality(owners(f)) = 1
        BY <3>2, FS_Singleton
    <3> HIDE DEF owners
    <3> QED BY <2>2, <3>3
  <2> QED BY <2>1, <2>2
<1>2. ASSUME NEW f \in File, files[f] = NoFile
      PROVE  owners(f) = {} /\ f \notin hand
    BY <1>2 DEF LoaderInv, FilesOwned, Registered
<1>3. ASSUME NEW i \in DOMAIN modules
      PROVE  beam_code_server_lookup_module(modules[i].name) = modules[i].file
  <2>1. {j \in DOMAIN modules : modules[j].name = modules[i].name} = {i}
      BY DEF LoaderInv, EntriesApart
  <2>2. \E j \in {i} : beam_code_server_lookup_module(modules[i].name) = modules[j].file
      BY <2>1, LookupFinds, Zenon DEF LoaderInv
  <2> QED BY <2>2
<1> HIDE DEF owners
<1>4. /\ \A f \in File :
           /\ files[f] # NoFile
                  => Cardinality(owners(f)) + (IF f \in hand THEN 1 ELSE 0) = 1
           /\ files[f] = NoFile => owners(f) = {} /\ f \notin hand
      /\ \A i \in DOMAIN modules :
           beam_code_server_lookup_module(modules[i].name) = modules[i].file
    BY <1>1, <1>2, <1>3, Zenon
<1> QED BY <1>4, Zenon DEF ModulesHaveOneOwner, owners

\* Whatever images are loaded, with tables of names that end in the buffer or
\* not, whichever allocations fail, and in whatever order files are loaded,
\* registered and destroyed: files and entries have their types, a table that
\* a file has holds exactly the names it counts (beam_file_get_atom and
\* beam_file_destroy rely on it) and no more than beam_file_parse allows, and
\* the code server never has more entries than it has room for.  What a read
\* outside the buffer finds is a name like any other here.
THEOREM LoaderTypeCorrect == VmSpec => []LoaderTypeOK
<1>1. VmInit => LoaderInv
    BY LoaderInitial
<1>2. LoaderInv /\ [VmNext]_<<mem, vmVars>> => LoaderInv'
    BY LoaderStep
<1>3. LoaderInv => LoaderTypeOK
    BY DEF LoaderInv
<1> QED BY <1>1, <1>2, <1>3, PTL DEF VmSpec

\* Every file in memory is the host's or one entry's of the code server, never
\* both and never neither, and a registered module is found under its name
\* for as long as the server lives.
THEOREM OneOwnerCorrect == VmSpec => []ModulesHaveOneOwner
<1>1. VmInit => LoaderInv
    BY LoaderInitial
<1>2. LoaderInv /\ [VmNext]_<<mem, vmVars>> => LoaderInv'
    BY LoaderStep
<1>3. LoaderInv => ModulesHaveOneOwner
    BY OneOwnerFromInv
<1> QED BY <1>1, <1>2, <1>3, PTL DEF VmSpec
=============================================================================
