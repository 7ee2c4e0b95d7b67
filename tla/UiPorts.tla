------------------------------ MODULE UiPorts ------------------------------
(***************************************************************************)
(* The fields of the ports of a transformation (transformationPorts.js):   *)
(* after every change of the entity, normalizeTransformationPorts copies   *)
(* the fields of an output port along its transition, and adapts the step  *)
(* behind it.  A field is known by its name; an output field of a          *)
(* projection refers to field objects of the input port.                   *)
(***************************************************************************)
EXTENDS UiLists, Integers, SequencesExt

CONSTANTS Node,      \* the sources, steps and targets
          NodeKind,      \* of each: "source", "copy" (Sort, Selection), "sequence",
                     \* "projection" or "target"
          Order,     \* the order of the nodes in the lists of the transformation
          Name,      \* names of fields
          Number,    \* the name of the field that a sequence adds
          MaxOutputs, \* bound on the fields of a source
          MaxWires   \* bound on the transitions

ASSUME PortsAssumption ==
    /\ NodeKind \in [Node -> {"source", "copy", "sequence", "projection", "target"}]
    /\ Order \in Seq(Node) /\ ToSet(Order) = Node /\ IsInjective(Order)
    /\ Number \notin Name /\ {MaxOutputs, MaxWires} \subseteq Nat

VARIABLES
    ports,     \* ports.in[n], ports.out[n]: the fields of the ports of a node; the mapping
               \* of a target is kept as its output
    wires      \* the transitions, in the order of their list

portsVars == <<ports, wires>>

Wire == [start : Node, finish : Node]
Ref == [name : Name \cup {Number}, live : BOOLEAN]
InField == [name : Name \cup {Number}, id : BOOLEAN]
OutField == [name : Name \cup {Number}, from : SUBSET Ref]

Ports == [in : [Node -> Seq(InField)], out : [Node -> Seq(OutField)]]

PortsTypeOK == ports \in Ports /\ wires \in Seq(Wire)

PortsInit ==
    /\ ports = [in |-> [n \in Node |-> <<>>], out |-> [n \in Node |-> <<>>]]
    /\ wires = <<>>

FieldNames(fields) == [i \in DOMAIN fields |-> fields[i].name]
Plain(names) == [i \in DOMAIN names |-> [name |-> names[i], from |-> {}]]

-----------------------------------------------------------------------------
(* What a changed input port does to its node.                             *)

\* correctOutputFields: the output that the input alone determines.
Determined(n, in) == CASE NodeKind[n] \in {"copy", "target"} -> Plain(FieldNames(in))
                       [] NodeKind[n] = "sequence" -> Plain(Append(FieldNames(in), Number))

\* diffPorts: a field is the same when its name and its e_id are; one that was added and
\* one that was deleted are one that was renamed.
SameField(f, g) == f.name = g.name /\ f.id = g.id
Added(new, old) == Kept(new, {i \in DOMAIN new : \A g \in ToSet(old) : ~SameField(new[i], g)})
Gone(new, old) == Kept(old, {i \in DOMAIN old : \A f \in ToSet(new) : ~SameField(f, old[i])})

\* stepInputPortHasChanged for a projection.  staying are the places where the object of the
\* field stayed: what else was referred to is in the port no longer.
Forget(fields, names) ==
    [i \in DOMAIN fields |->
        [fields[i] EXCEPT !.from = {r \in @ : ~(r.live /\ r.name \in names)}]]
Refer(fields, at, name) ==
    [i \in DOMAIN fields |->
        IF fields[i].name = at
        THEN [fields[i] EXCEPT !.from = @ \cup {[name |-> name, live |-> TRUE]}] ELSE fields[i]]
Detached(fields, names) ==
    [i \in DOMAIN fields |->
        [fields[i] EXCEPT !.from = {[r EXCEPT !.live = @ /\ r.name \in names] : r \in @}]]

\* The references to a field that is added are new ones, whatever was left of its name.
Filled(fields, name) ==
    IF \E i \in DOMAIN fields : fields[i].name = name THEN Refer(fields, name, name)
    ELSE Append(fields, [name |-> name, from |-> {[name |-> name, live |-> TRUE]}])

Projected(fields, new, old) ==
    LET plus == Added(new, old)
        minus == Gone(new, old)
        staying == {old[i].name : i \in {j \in DOMAIN old \cap DOMAIN new : old[j] = new[j]}}
        base == Detached(Forget(fields, {g.name : g \in ToSet(minus)}), staying)
        filled[k \in 0..Len(plus)] ==
            IF k = 0 THEN base ELSE Filled(filled[k - 1], plus[k].name)
        changed == IF Len(plus) = 1 /\ Len(minus) = 1
                   THEN Refer(base, minus[1].name, plus[1].name)
                   ELSE filled[Len(plus)]
    IN  Kept(changed, {i \in DOMAIN changed : changed[i].from # {}})

-----------------------------------------------------------------------------
(* normalizeTransformationPorts.                                           *)

\* stepInputPortHasChanged, targetInputPortHasChanged: the node adapts itself.
Adapted(p, n, new) ==
    LET out == IF NodeKind[n] = "projection" THEN Projected(p.out[n], new, p.in[n])
               ELSE Determined(n, new)
    IN  [in |-> [p.in EXCEPT ![n] = new], out |-> [p.out EXCEPT ![n] = out]]

(* For the mutation checks: a node adapts itself, and not the nodes after  *)
(* it.                                                                     *)
InputChangedHere(ws, p, n, new) == Adapted(p, n, new)

\* sameFieldList, and the fields that normalizeTransition gives the end of a transition.
Carries(p, w) == FieldNames(p.in[w.finish]) = FieldNames(p.out[w.start])
Copied(p, w) ==
    LET out == p.out[w.start]
        right == p.in[w.finish]
    IN  [i \in DOMAIN out |-> IF i \in DOMAIN right /\ right[i].name = out[i].name
                              THEN right[i] ELSE [name |-> out[i].name, id |-> FALSE]]

\* outputPortHasChanged: the place of the first transition of the list that starts at a
\* node, or 0.
FirstFrom(ws, n) == SelectInSeq(ws, LAMBDA w : w.start = n)

\* inputPortHasChanged and normalizeTransition: a change goes on along that transition.  at
\* is where it has come to, and the fields that it brings there.
Onward(ws, at) ==
    LET q == Adapted(at.ports, at.node, at.fields)
        next == FirstFrom(ws, at.node)
    IN  IF ~at.more THEN at
        ELSE IF next = 0 \/ Carries(q, ws[next])
        THEN [ports |-> q, node |-> at.node, fields |-> at.fields, more |-> FALSE]
        ELSE [ports |-> q, node |-> ws[next].finish, fields |-> Copied(q, ws[next]), more |-> TRUE]

\* Without a cycle of transitions a change comes to no node twice.
InputChanged(ws, p, n, new) ==
    LET at[k \in 0..Len(Order)] ==
            IF k = 0 THEN [ports |-> p, node |-> n, fields |-> new, more |-> TRUE]
            ELSE Onward(ws, at[k - 1])
    IN  at[Len(Order)].ports

\* normalizeTransition.
Along(ws, p, w) == IF Carries(p, w) THEN p ELSE InputChanged(ws, p, w.finish, Copied(p, w))

\* checkLostInputPorts.
Lost(ws, p, n) == IF p.in[n] # <<>> /\ \A w \in ToSet(ws) : w.finish # n
                  THEN InputChanged(ws, p, n, <<>>) ELSE p

Corrected(p) == [p EXCEPT !.out = [n \in Node |-> IF NodeKind[n] \in {"copy", "sequence"}
                                                  THEN Determined(n, p.in[n]) ELSE p.out[n]]]
Normalized(ws, p) ==
    LET followed[i \in 0..Len(ws)] ==
            IF i = 0 THEN Corrected(p) ELSE Along(ws, followed[i - 1], ws[i])
        freed[i \in 0..Len(Order)] ==
            IF i = 0 THEN followed[Len(ws)] ELSE Lost(ws, freed[i - 1], Order[i])
    IN  freed[Len(Order)]

Normalize(p) == ports' = Normalized(wires', p)

-----------------------------------------------------------------------------
(* The user's changes, each with the updaters of updateEntity.             *)

SetOut(n, out) == wires' = wires /\ Normalize([ports EXCEPT !.out[n] = out])

AddField(n, name) ==
    /\ NodeKind[n] = "source" /\ Len(ports.out[n]) < MaxOutputs
    /\ name \notin ToSet(FieldNames(ports.out[n]))
    /\ SetOut(n, Append(ports.out[n], [name |-> name, from |-> {}]))

RemoveField(n, i) ==
    /\ NodeKind[n] = "source" /\ i \in DOMAIN ports.out[n]
    /\ SetOut(n, RemoveAt(ports.out[n], i))

\* Of a source, or of a projection in its editor.
RenameField(n, i, name) ==
    /\ NodeKind[n] \in {"source", "projection"} /\ i \in DOMAIN ports.out[n]
    /\ name \notin ToSet(FieldNames(ports.out[n]))
    /\ SetOut(n, [ports.out[n] EXCEPT ![i].name = name])

\* The nodes from which transitions lead to n, and n itself.
Upstream(n) ==
    {m \in Node : \A S \in SUBSET Node :
        n \in S /\ (\A w \in ToSet(wires) : w.finish \in S => w.start \in S) => m \in S}

\* processLink: a transition is drawn; a cycle of transitions is out of this model.
Connect(n, m) ==
    /\ Len(wires) < MaxWires /\ NodeKind[n] # "target" /\ NodeKind[m] # "source"
    /\ m \notin Upstream(n)
    /\ wires' = Append(wires, [start |-> n, finish |-> m])
    /\ Normalize(ports)

Disconnect(i) ==
    /\ i \in DOMAIN wires
    /\ wires' = RemoveAt(wires, i)
    /\ Normalize(ports)

\* The answer of a save: every object has an e_id, a reference to an object outside the
\* entity is gone (modifyBeforeSave).
Saved ==
    /\ ports' = [in |-> [n \in Node |->
                     [i \in DOMAIN ports.in[n] |-> [ports.in[n][i] EXCEPT !.id = TRUE]]],
                 out |-> [n \in Node |->
                     [i \in DOMAIN ports.out[n] |->
                         [ports.out[n][i] EXCEPT !.from = {r \in @ : r.live}]]]]
    /\ UNCHANGED wires

PortsNext ==
    \/ \E n \in Node, name \in Name : AddField(n, name)
    \/ \E n \in Node, i \in 1..MaxOutputs : RemoveField(n, i)
    \/ \E n \in Node, i \in 1..MaxOutputs, name \in Name : RenameField(n, i, name)
    \/ \E n, m \in Node : Connect(n, m)
    \/ \E i \in 1..MaxWires : Disconnect(i)
    \/ Saved

PortsSpec == PortsInit /\ [][PortsNext]_portsVars
-----------------------------------------------------------------------------
(* Properties.                                                             *)

\* The transition is the first of those that begin where it begins, and alone at its end.
Simple(i) ==
    /\ \A j \in 1..(i - 1) : wires[j].start # wires[i].start
    /\ \A j \in DOMAIN wires \ {i} : wires[j].finish # wires[i].finish

\* After every change, both ends of a transition have the same fields in the same order,
\* however far the change was from it.
LinksCarryFields ==
    \A i \in DOMAIN wires :
        (\A j \in DOMAIN wires : Simple(j)) =>
            FieldNames(ports.out[wires[i].start]) = FieldNames(ports.in[wires[i].finish])

\* A projection refers to fields of its input port only.
SourcesAreInputs ==
    \A n \in Node : \A f \in ToSet(ports.out[n]) :
        \A r \in f.from : r.live /\ r.name \in ToSet(FieldNames(ports.in[n]))
=============================================================================
