------------------------------ MODULE FlowHDL ------------------------------
(***************************************************************************)
(* The definition of a flow: the statements of a `with FlowHDL() as f'     *)
(* block and of the templates it uses, and the finalization that makes the *)
(* nodes of the flow out of the drafts (flow_hdl_view.py, flow_hdl.py,     *)
(* group_node.py and the drafts of node_base.py).                          *)
(*                                                                         *)
(* A program is one sequence of statements: of the outer view and, between *)
(* the call of a template and its return, of the view of that group.  The  *)
(* nodes are numbered in the order of their creation.  A node has one      *)
(* output port; the ports of a node with several are independent.          *)
(***************************************************************************)
EXTENDS SequencesExt

CONSTANTS
    Sizes,     \* the families of programs: the names that the views of each depth assign,
               \* the literals (see Lit) and the bounds: on the drafts with groups and
               \* constants, the arguments of each, and the references that are made before
               \* an output is kept under a name; whether names are assigned again
    Uses       \* uses of groups that the code does not always get right

ASSUME HDLAssumption ==
    /\ \A s \in Sizes : /\ s.literals \subseteq {"value", "default", "unset"}
                        /\ {s.nodes, s.args, s.kept} \subseteq Nat
    /\ Uses \subseteq {"forward into a group", "kept output of a group"}

VARIABLES
    size,      \* the family of the program
    draft,     \* the drafts and the references to their outputs:
               \*   kind: DraftNode, Constant or DraftGroupNode
               \*   port: DraftNode._input_ports, what is connected to each
               \*   outs: DraftNode._connected_output_nodes
               \*   wire: the DraftOutputPortRef objects: the node each refers to now,
               \*         and the one it was made for
    views,     \* FlowHDLView.contextStack
    returned,  \* DraftGroupNode._return_node
    added,     \* the nodes of the flow: Flow.add_node
    status,    \* of the with block: open, done or left by an exception
    names,     \* FlowHDLView._nodes of the outer view when it is finalized
    scope,     \* what the statements of each view have assigned to each name
    written    \* the arguments each node was written with

vars == <<size, draft, views, returned, added, status, names, scope, written>>

\* What a name or a port can hold: a draft, a NodePlaceholder (or its output; `view' is the
\* view it was read from, which the code does not record), a DraftOutputPortRef.
Node(n) == [is |-> "node", node |-> n]
Later(x, v) == [is |-> "later", name |-> x, view |-> v]
Wire(k) == [is |-> "wire", wire |-> k]
\* A literal, None among them; a parameter left out that has a default; one that has none.
Lit(l) == [is |-> l]

View(g, params, as) ==
    [id |-> Len(scope) + 1, group |-> g, params |-> params, as |-> as,
     names |-> <<>>, drafts |-> <<>>, results |-> <<>>]

Init ==
    /\ size \in Sizes
    /\ draft = [kind |-> <<>>, port |-> <<>>, outs |-> <<>>, wire |-> <<>>]
    /\ views = <<[id |-> 1, group |-> 0, params |-> <<>>, as |-> "f",
                  names |-> <<>>, drafts |-> <<>>, results |-> <<>>]>>
    /\ returned = <<>>
    /\ added = <<>>
    /\ status = "open"
    /\ names = <<>>
    /\ scope = << <<>> >>
    /\ written = <<>>

\* dict.update, and a dict of one entry.
Update(ns, more) ==
    [x \in DOMAIN ns \cup DOMAIN more |-> IF x \in DOMAIN more THEN more[x] ELSE ns[x]]
Entry(x, a) == [y \in {x} |-> a]

IsGroup(a) == a.is = "node" /\ draft.kind[a.node] = "group"

-----------------------------------------------------------------------------
(* Drafts.                                                                    *)

\* DraftOutputPortRef.connect
Connect(d, k, n, i) ==
    [d EXCEPT !.outs[d.wire[k].node] = Append(@, n), !.port[n][i] = Wire(k)]

\* m.output(0).connect(n.input(i)): every output() is a reference of its own.
Attach(d, m, n, i) ==
    Connect([d EXCEPT !.wire = Append(@, [node |-> m, of |-> m])], Len(d.wire) + 1, n, i)

NewDraft(d, k, ports) ==
    [d EXCEPT !.kind = Append(@, k), !.port = Append(@, ports), !.outs = Append(@, <<>>)]

\* One argument of DraftNode.__init__: a literal becomes a Constant.
Argument(d, n, i, a) ==
    CASE a.is = "node"  -> Attach(d, a.node, n, i)
      [] a.is = "wire"  -> Connect(d, a.wire, n, i)
      [] a.is = "value" -> Attach(NewDraft(d, "constant", <<>>), Len(d.kind) + 1, n, i)
      [] OTHER          -> [d EXCEPT !.port[n][i] = a]

\* DraftNode.__init__ of a node or group.
Instantiate(k, args) ==
    LET n == Len(draft.kind) + 1
    IN  FoldLeftDomain(LAMBDA d, i : Argument(d, n, i, args[i]),
                       NewDraft(draft, k, [i \in DOMAIN args |-> Lit("unset")]), args)

\* FlowHDLView.register_node
Registered == [j \in 1..(Len(draft'.kind) - Len(draft.kind)) |-> Len(draft.kind) + j]

-----------------------------------------------------------------------------
(* Finalization: FlowHDLView._finalize of a view v.                           *)

\* resolve_target: a group stands for what its template returned.
Target(a) ==
    FoldLeft(LAMBDA b, k : IF IsGroup(b) THEN returned[b.node] ELSE b, a, draft.kind)

\* The names of the child views join, and override, those of the view.
Merged(v) == FoldLeft(LAMBDA ns, r : Update(ns, r.names), v.names, v.results)

\* mutant: groups stay in the names
UnresolvedNames(v) == Merged(v)

ResolvedNames(v) == [x \in DOMAIN Merged(v) |-> Target(Merged(v)[x])]

\* A list of drafts without the groups.
Proper(d, ns) ==
    FoldLeft(LAMBDA own, n : IF d.kind[n] = "group" THEN own ELSE Append(own, n), <<>>, ns)

\* mutant: the groups too
AllOwn(v) == v.drafts

OwnNodes(v) == Proper(draft, v.drafts)

AllNodes(v) == FlattenSeq([j \in DOMAIN v.results |-> v.results[j].final]) \o OwnNodes(v)

\* group_alias: the groups this view knows.
Alias(v) ==
    {n \in ToSet(v.drafts) \cup {a.node : a \in {b \in Range(Merged(v)) : b.is = "node"}} :
        draft.kind[n] = "group"}

\* The input ports of the nodes ns, in the order in which the loops visit them.
Ports(ns) ==
    FlattenSeq([j \in DOMAIN ns |->
        [i \in DOMAIN draft.port[ns[j]] |-> [node |-> ns[j], index |-> i]]])

ConnectedTo(d, p, set) ==
    LET a == d.port[p.node][p.index] IN a.is = "wire" /\ d.wire[a.wire].node \in set

\* mutant: the node does not learn of its consumer
RedirectQuiet(d, p, alias) ==
    LET k == d.port[p.node][p.index].wire
    IN  IF ConnectedTo(d, p, alias)
          THEN [d EXCEPT !.wire[k].node = Target(Node(@)).node]
          ELSE d

\* A port connected to a group is connected to the node that the group returned.
Redirect(d, p, alias) ==
    LET k == d.port[p.node][p.index].wire
        g == d.wire[k].node
        to == Target(Node(g)).node
        left == [d.outs EXCEPT ![g] = RemoveFirst(@, p.node)]
    IN  IF ConnectedTo(d, p, alias)
          THEN [d EXCEPT !.outs = [left EXCEPT ![to] = Append(@, p.node)],
                         !.wire[k].node = to]
          ELSE d

DropGroups(d, ns) ==
    FoldLeft(LAMBDA e, n : [e EXCEPT !.outs[n] = Proper(d, @)], d, ns)

\* Phase 1: a placeholder is connected to the node of that name.
Resolve(d, p, ns) ==
    LET a == d.port[p.node][p.index]
    IN  IF a.is = "later" THEN Attach(d, ns[a.name].node, p.node, p.index) ELSE d

\* The exceptions of the two loops.
Refused(v) ==
    \E p \in ToSet(Ports(AllNodes(v))) :
        LET a == draft.port[p.node][p.index] IN
        \/ a.is = "unset"
        \/ a.is = "later" /\ (a.name \notin DOMAIN Merged(v)
                               \/ ResolvedNames(v)[a.name].is # "node")
        \/ /\ ConnectedTo(draft, p, Alias(v))
           /\ Target(Node(draft.wire[a.wire].node)).is # "node"

Connected(v) ==
    LET ps == Ports(AllNodes(v))
        redirected == FoldLeft(LAMBDA d, p : Redirect(d, p, Alias(v)), draft, ps)
    IN  FoldLeft(LAMBDA d, p : Resolve(d, p, ResolvedNames(v)),
                 DropGroups(redirected, AllNodes(v)), ps)

\* Phases 3 and 4 look every node up among the finalized ones.
NotFinal(v, d) ==
    LET final == ToSet(AllNodes(v)) IN
    \/ \E p \in ToSet(Ports(AllNodes(v))) :
          LET a == d.port[p.node][p.index] IN a.is = "wire" /\ d.wire[a.wire].node \notin final
    \/ \E n \in final : ~(ToSet(d.outs[n]) \subseteq final)
    \/ \E a \in Range(ResolvedNames(v)) : a.is = "node" /\ a.node \notin final

-----------------------------------------------------------------------------
(* The statements of the program, in the innermost view.                      *)

Here == Last(views)

\* FlowHDLView.__getattribute__, __getattr__
Read(x) == IF x \in DOMAIN Here.names THEN Here.names[x] ELSE Later(x, Here.id)

NamesHere == size.names[Len(views)]

\* mutant: keeps the first
AssignFirst(v, x, a) == [v EXCEPT !.names = Update(Entry(x, a), @)]

\* FlowHDLView.__setattr__ in the view v.
Assign(v, x, a) == [v EXCEPT !.names = Update(@, Entry(x, a))]

Says(id, x, a) == [scope EXCEPT ![id] = Update(@, Entry(x, a))]

\* Parameters that are left out come last.
Arguments(literals) ==
    LET values == {Read(x) : x \in NamesHere} \cup ToSet(Here.params)
                    \cup {Lit(l) : l \in literals}
        LeftOut(a) == a.is \in {"default", "unset"}
    IN  {args \in BoundedSeq(values, size.args) :
            \A i, j \in DOMAIN args : i < j /\ LeftOut(args[i]) => LeftOut(args[j])}

\* f.x = SomeNode(*args)
DefineNode(x, args) ==
    LET n == Len(draft.kind) + 1 IN
    /\ draft' = Instantiate("node", args)
    /\ Len(draft'.kind) <= size.nodes
    /\ views' = [views EXCEPT ![Len(views)] =
                    [Assign(Here, x, Node(n)) EXCEPT !.drafts = @ \o Registered]]
    /\ scope' = Says(Here.id, x, Node(n))
    /\ written' = Update(written, Entry(n, args))
    /\ UNCHANGED <<returned, added, status, names>>

\* f.x = f.y.output(0)
KeepOutput(x, y) ==
    /\ Read(y).is = "node" /\ Len(draft.wire) < size.kept
    /\ IsGroup(Read(y)) => "kept output of a group" \in Uses
    /\ LET m == Read(y).node
           k == Len(draft.wire) + 1
       IN  /\ draft' = [draft EXCEPT !.wire = Append(@, [node |-> m, of |-> m])]
           /\ views' = [views EXCEPT ![Len(views)] = Assign(Here, x, Wire(k))]
           /\ scope' = Says(Here.id, x, Wire(k))
    /\ UNCHANGED <<returned, added, status, names, written>>

\* f.x = SomeTemplate(*args), up to the body of the template: DraftGroupNode.__init__.
CallTemplate(x, args) ==
    /\ Len(views) < Len(size.names)
    /\ (\E i \in DOMAIN args : args[i].is = "later") => "forward into a group" \in Uses
    /\ draft' = Instantiate("group", args)
    /\ Len(draft'.kind) <= size.nodes
    /\ views' = Append([views EXCEPT ![Len(views)].drafts = @ \o Registered],
                       View(Len(draft.kind) + 1, args, x))
    /\ scope' = Append(scope, <<>>)
    /\ UNCHANGED <<returned, added, status, names, written>>

\* The template returns a, and FlowHDLView.__exit__ of its view: finalized, but for the
\* connections, and registered with the view around it.
ReturnFromTemplate(a) ==
    LET v == Here
        outer == views[Len(views) - 1]
        result == [names |-> ResolvedNames(v), final |-> AllNodes(v)]
    IN
    /\ v.group # 0
    /\ a.is \in {"node", "later"}
    /\ IF Refused(v)
         THEN /\ status' = "error"
              /\ views' = Front(views)
              /\ UNCHANGED <<draft, returned, added, scope>>
         ELSE /\ draft' = Connected(v)
              /\ returned' = Update(returned, Entry(v.group, a))
              /\ added' = added \o OwnNodes(v)
              /\ views' = Append(SubSeq(views, 1, Len(views) - 2),
                                 [Assign(outer, v.as, Node(v.group)) EXCEPT
                                    !.results = Append(@, result)])
              /\ scope' = Says(outer.id, v.as, Node(v.group))
              /\ UNCHANGED status
    /\ UNCHANGED <<names, written>>

\* FlowHDLView.__exit__ of the outer view.
Exit ==
    LET v == Here IN
    /\ v.group = 0
    /\ views' = <<>>
    /\ IF Refused(v) \/ NotFinal(v, Connected(v))
         THEN status' = "error" /\ UNCHANGED <<draft, added, names>>
         ELSE /\ status' = "done"
              /\ draft' = Connected(v)
              /\ added' = added \o OwnNodes(v)
              /\ names' = ResolvedNames(v)
    /\ UNCHANGED <<returned, scope, written>>

Statement ==
    \/ \E x \in {y \in NamesHere : size.again \/ y \notin DOMAIN Here.names} :
          \/ \E args \in Arguments(size.literals) : DefineNode(x, args)
          \/ \E y \in NamesHere : KeepOutput(x, y)
          \/ \E args \in Arguments(size.literals \cap {"value"}) : CallTemplate(x, args)
    \/ \E a \in {Read(x) : x \in NamesHere} \cup ToSet(Here.params) : ReturnFromTemplate(a)
    \/ Exit

Next == status = "open" /\ Statement /\ UNCHANGED size

Spec == Init /\ [][Next]_vars

-----------------------------------------------------------------------------
(* What the program means: a placeholder is what its own view has assigned to *)
(* that name last, a reference to an output is the node it was made for, and  *)
(* a group is what its template returned.                                     *)

Meaning(a) ==
    LET Named(b) == IF b.is = "later" /\ b.name \in DOMAIN scope[b.view]
                      THEN scope[b.view][b.name] ELSE b
        Made(b) == IF b.is = "wire" THEN Node(draft.wire[b.wire].of) ELSE b
        Returned(b) == IF IsGroup(b) /\ b.node \in DOMAIN returned
                         THEN returned[b.node] ELSE b
    IN  FoldLeft(LAMBDA b, k : Returned(Made(Named(b))), a, draft.kind)

HasMeaning(a) == Meaning(a).is \in {"value", "default", "node"} /\ ~IsGroup(Meaning(a))

\* The node from which the port i of n gets its data.
SourceOf(n, i) == draft.wire[draft.port[n][i].wire].node

-----------------------------------------------------------------------------
(* Properties.                                                                *)

\* The solver walks from a node to the nodes of its input ports, and data goes from a node
\* to its consumers: in the finished flow both tell of the same connections, although they
\* are kept apart and changed in different loops.
SymmetricWiring ==
    status = "done" =>
        \A m, n \in ToSet(added) :
            Cardinality({i \in DOMAIN draft.port[n] :
                            draft.port[n][i].is = "wire" /\ SourceOf(n, i) = m})
              = Cardinality({j \in DOMAIN draft.outs[m] : draft.outs[m][j] = n})

PortsMean ==
    \A n \in DOMAIN written : \A i \in DOMAIN written[n] :
        LET a == written[n][i] IN
        CASE a.is = "default" -> draft.port[n][i] = a
          [] a.is = "value"   -> draft.kind[SourceOf(n, i)] = "constant"
          [] OTHER            -> Node(SourceOf(n, i)) = Meaning(a)

NamesMean ==
    \A x \in DOMAIN scope[1] :
        LET a == scope[1][x] IN a.is = "node" /\ HasMeaning(a) => names[x] = Meaning(a)

\* In the finished flow every port gets its data from the node that the program says, in
\* whatever order, through whatever groups and under whatever names it says so; and f.x is
\* the node that the program has assigned to x.
MeansWhatItSays == status = "done" => PortsMean /\ NamesMean

\* In the finished flow each node that the program makes, in whatever template, is there
\* once, and no group is.  The constants that the literals become are among them.
NodesAddedOnce ==
    status = "done" =>
        /\ IsInjective(added)
        /\ ToSet(added) = {n \in DOMAIN draft.kind : draft.kind[n] # "group"}

\* "leaving no trace of the template at runtime" (groups.rst): what the flow executes is what
\* its nodes use.  A constant, which no name can refer to, gives its data to a node.
NoTraceOfTemplates ==
    status = "done" =>
        \A m \in ToSet(added) : draft.kind[m] = "constant" => ToSet(draft.outs[m]) # {}

\* A placeholder whose name its view has assigned an output reference.
HoldsOutput(a) ==
    /\ a.is = "later" /\ a.name \in DOMAIN scope[a.view]
    /\ scope[a.view][a.name].is = "wire"

\* An argument that is missing, or a name that its own view has not assigned when it ends.
Missing(a) ==
    /\ ~HasMeaning(a)
    /\ Meaning(a).is = "later" => \A j \in DOMAIN views : views[j].id # Meaning(a).view

\* A definition that can be connected is not refused, in whatever order and through whatever
\* groups it is made: there is an argument that is missing, or a name, used before it was
\* assigned, that holds an output reference, which phase 1 of the finalization does not take.
RefusesForAReason ==
    status = "error" =>
        \E n \in DOMAIN written : \E a \in Range(written[n]) : Missing(a) \/ HoldsOutput(a)

\* "in any order" (flowno_resolution_internals.rst): only a missing argument is a reason.
AnyOrder == status = "error" => \E n \in DOMAIN written : \E a \in Range(written[n]) : Missing(a)

=============================================================================
