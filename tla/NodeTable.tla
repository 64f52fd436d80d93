----------------------------- MODULE NodeTable -----------------------------
(***************************************************************************)
(* dist_node.c: the bounded table of connected nodes.  Every call is one   *)
(* section under the table's read-write lock; nothing disconnects a node.  *)
(* An entry keeps 63 characters of the name it was made for, and is        *)
(* compared with all of the name looked for.                               *)
(***************************************************************************)
EXTENDS Integers, Sequences

CONSTANTS
    Node,               \* names
    Cut,                \* Cut[name]: its first 63 characters
    Port,
    MAX_DIST_NODES

ASSUME NodeTableAssumption ==
    /\ Cut \in [Node -> Node]
    /\ \A name \in Node : Cut[Cut[name]] = Cut[name]
    /\ Port \subseteq Nat \ {0}
    /\ MAX_DIST_NODES \in Nat

VARIABLES
    nodes,              \* the entries in use
    connected           \* the last port each node was connected with, or 0

nodeVars == <<nodes, connected>>

NodeEntry == [name : Node, port : Port]

NodeInit == nodes = <<>> /\ connected = [n \in Node |-> 0]

EntriesOf(name) == {i \in DOMAIN nodes : nodes[i].name = name}

FirstOf(name) == CHOOSE i \in EntriesOf(name) : \A j \in EntriesOf(name) : i <= j

\* Mutant of beam_node_table_connect_port: a node is entered into a full table.
ConnectUnbounded(name, port) ==
    /\ EntriesOf(name) = {}
    /\ nodes' = Append(nodes, [name |-> Cut[name], port |-> port])
    /\ connected' = [connected EXCEPT ![name] = port]

\* Mutant of the next definition: a node is entered without looking for it.
ConnectUnlooked(name, port) ==
    /\ Len(nodes) < MAX_DIST_NODES
    /\ nodes' = Append(nodes, [name |-> Cut[name], port |-> port])
    /\ connected' = [connected EXCEPT ![name] = port]

\* A known node has its port renewed; a full table refuses a new one.
\* beam_node_table_connect is this with port 4369.
beam_node_table_connect_port(name, port) ==
    \/ /\ EntriesOf(name) # {}
       /\ nodes' = [nodes EXCEPT ![FirstOf(name)] = [name |-> @.name, port |-> port]]
       /\ connected' = [connected EXCEPT ![name] = port]
    \/ /\ EntriesOf(name) = {}
       /\ Len(nodes) < MAX_DIST_NODES
       /\ nodes' = Append(nodes, [name |-> Cut[name], port |-> port])
       /\ connected' = [connected EXCEPT ![name] = port]

beam_node_table_is_connected(name) == EntriesOf(name) # {}

NodeNext ==
    \E name \in Node, port \in Port : beam_node_table_connect_port(name, port)

NodeSpec == NodeInit /\ [][NodeNext]_nodeVars

-----------------------------------------------------------------------------
NodeTypeOK ==
    /\ nodes \in Seq(NodeEntry)
    /\ Len(nodes) <= MAX_DIST_NODES
    /\ connected \in [Node -> Port \cup {0}]

\* No longer name begins like this one.
Unmistakable(name) == \A n \in Node : Cut[n] = name => n = name

\* A node is found if and only if one was connected that is stored as it, so
\* one whose name was cut is never found; and a node no other can be mistaken
\* for has one entry, with the port it was connected with last, however full
\* the table is (beam_node_table_connect_port, beam_node_table_is_connected).
NodesFound ==
    \A name \in Node :
        /\ beam_node_table_is_connected(name)
               <=> \E n \in Node : Cut[n] = name /\ connected[n] # 0
        /\ Unmistakable(name) =>
               /\ \A i, j \in EntriesOf(name) : i = j
               /\ \A i \in EntriesOf(name) : nodes[i].port = connected[name]
=============================================================================
