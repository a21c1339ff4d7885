------------------------------ MODULE FlowGraph ------------------------------
(***************************************************************************)
(* The graph of a flow and the solver (flow.py, node_base.py): which       *)
(* inputs of a node are stale, and which nodes must run before it.         *)
(***************************************************************************)
EXTENDS SequencesExt, Generations

CONSTANTS Node,
          Generator,      \* the nodes whose call is an async generator
          Flows           \* the flows, each a sequence of connected input ports

\* `stream' is a minimum run level of 1, `default' a default value; the code of the node
\* may cancel an `early' stream, or return before it has ended.
Port == [node : Node, source : Node, default : BOOLEAN, stream : BOOLEAN, early : BOOLEAN]

ASSUME GraphAssumption ==
    /\ IsFiniteSet(Node)
    /\ Generator \subseteq Node
    /\ Flows \subseteq Seq(Port)

VARIABLES
    ports,     \* the flow, in the order in which its ports were connected
    status,    \* Flow.node_tasks, the statuses
    stalledOn, \* the port in NodeTaskStatus.Stalled
    gen,       \* the generation of each node: the highest key of FinalizedNode._data
    blank,     \* the main generations of a node whose data is None
    stitch,    \* FinalizedInputPort.stitch_level_0
    defaulted  \* Flow._defaulted_inputs

graphVars == <<ports, status, stalledOn, gen, blank, stitch, defaulted>>

GraphTypeOK ==
    /\ ports \in Seq(Port)
    /\ status \in [Node -> {"waiting", "queued", "executing", "stalled", "error"}]
    /\ stalledOn \in [Node -> {0} \cup DOMAIN ports]
    /\ gen \in [Node -> Generation]
    /\ blank \in [Node -> SUBSET Generation]
    /\ stitch \in [DOMAIN ports -> Nat]
    /\ defaulted \in [Node -> SUBSET DOMAIN ports]

GraphInit ==
    /\ ports \in Flows
    /\ status = [n \in Node |-> "waiting"]
    /\ stalledOn = [n \in Node |-> 0]
    /\ gen = [n \in Node |-> None]
    /\ blank = [n \in Node |-> {}]
    /\ stitch = [p \in DOMAIN ports |-> 0]
    /\ defaulted = [n \in Node |-> {}]

-----------------------------------------------------------------------------

Inputs(n) == {p \in DOMAIN ports : ports[p].node = n}
Outputs(n) == {p \in DOMAIN ports : ports[p].source = n}
Level(p) == IF ports[p].stream THEN 1 ELSE 0

\* A set of positions in a list, in order.
InOrder(P) ==
    [k \in 1..Cardinality(P) |-> CHOOSE p \in P : Cardinality({q \in P : q < p}) = k - 1]

\* get_output_nodes(), for the outputs P: the consumers, in the order of their connection.
Consumers(P) == [k \in 1..Cardinality(P) |-> ports[InOrder(P)[k]].node]

\* get_inputs_with_le_generation_clipped_to_minimum_run_level
Stale(p) ==
    LET clipped == ClipGeneration(gen[ports[p].source], Level(p))
    IN  CmpGeneration(StitchedGeneration(clipped, stitch[p]), gen[ports[p].node]) <= 0

\* get_subgraph_edges: from a node to the sources of its stale inputs; a node that is
\* stalled needs the input it stalls on and no other.
Edges ==
    {p \in DOMAIN ports :
        /\ status[ports[p].node] = "stalled" => stalledOn[ports[p].node] = p
        /\ p \notin defaulted[ports[p].node]
        /\ Stale(p)}

\* The nodes that can be reached from n through the connections P.
Reach(P, n) ==
    LET within[k \in 0..Cardinality(Node)] ==
            IF k = 0 THEN {n}
            ELSE LET inner == within[k - 1] IN
                 inner \cup {ports[p].source : p \in {q \in P : ports[q].node \in inner}}
    IN  within[Cardinality(Node)]

\* The strongly connected component of n.
Scc(P, n) == {m \in Node : m \in Reach(P, n) /\ n \in Reach(P, m)}

\* _condensed_tree and _find_leaf_supernodes: the components of stale connections
\* without a dependency, found depth first from n, once for each path.  No path is longer
\* than there are nodes.
LeafSupernodes(n) ==
    LET edges == Edges
        Dependencies(S) ==
            InOrder({p \in edges : ports[p].node \in S /\ ports[p].source \notin S})
        leaves[k \in 0..Cardinality(Node)] ==
            IF k = 0 THEN [S \in SUBSET Node |-> <<S>>]
            ELSE [S \in SUBSET Node |->
                    LET deps == Dependencies(S) IN
                    IF deps = <<>> THEN <<S>>
                    ELSE FlattenSeq([i \in DOMAIN deps |->
                                        leaves[k - 1][Scc(edges, ports[deps[i]].source)]])]
    IN  leaves[Cardinality(Node)][Scc(edges, n)]

\* mutant: forces any member of the cycle
CandidatesAny(S) == S

\* _pick_node_to_force_evaluate: the members are in a dict that was filled from a set.
Candidates(S) ==
    {n \in S : \A p \in Inputs(n) \cap Edges : ports[p].source \in S => ports[p].default}

-----------------------------------------------------------------------------
(* The data of a node.                                                        *)

\* get_data() at the level of a port gives None: before the first data, for a stream
\* whose producer is between two runs, and for a whole that is not complete yet or None.
NoData(p) ==
    LET g == gen[ports[p].source]
        whole == IF Len(g) = 1 THEN g ELSE <<g[1] - 1>>
    IN  \/ g = None
        \/ ports[p].stream /\ Len(g) = 1
        \/ ~ports[p].stream /\ (whole[1] < 0 \/ whole \in blank[ports[p].source])

PushData(n, level) == gen' = [gen EXCEPT ![n] = IncGeneration(@, level)]

=============================================================================
