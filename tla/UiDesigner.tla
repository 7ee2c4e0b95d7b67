----------------------------- MODULE UiDesigner -----------------------------
(***************************************************************************)
(* The diagram of a transformation (DesignerView.js with                   *)
(* TransformationDesignerView.js and joint/transformation/step.js).  The   *)
(* graph holds a cell for each step and each transition, with a reference  *)
(* to its object in the entity.  Whoever replaces the entity leaves the    *)
(* cells with objects that are in no list any more: the view repairs the   *)
(* cells it knows by e_id, and builds the graph again, a moment later, for *)
(* the others.                                                             *)
(*                                                                         *)
(* The lists of the entity are sets here: their order only tells which of  *)
(* them is the last.                                                       *)
(***************************************************************************)
EXTENDS Integers, FiniteSets

CONSTANTS
    Step, Transition,   \* identities of steps and of transitions
    MaxCells            \* bound of the steps and transitions there are at a time

ASSUME DesignerAssumption == MaxCells \in Nat

VARIABLES
    nodes,       \* the steps of the entity
    links,       \* its transitions, with the steps they begin and end at
    persisted,   \* the steps and transitions of the entity that have an e_id
    stored,      \* the steps and transitions that the server has
    cells,       \* the cells of steps; whether each holds the object of the entity
    flows,       \* the cells of transitions, and the steps they are drawn between
    active,      \* the tab is in front
    rebuilding,  \* rebuildInProcess: a timer will build the graph
    moved        \* the end of a link was moved in the graph (history)

designerVars == <<nodes, links, persisted, stored, cells, flows, active, rebuilding, moved>>

Link == [key : Transition, start : Step, finish : Step]
Cell == [current : BOOLEAN, id : BOOLEAN]
Flow == [current : BOOLEAN, id : BOOLEAN, start : Step, finish : Step]
Keys(ls) == {l.key : l \in ls}
Some(S, T) == UNION {[R -> T] : R \in SUBSET S}

DesignerTypeOK ==
    /\ nodes \subseteq Step
    /\ links \subseteq Link /\ Cardinality(Keys(links)) = Cardinality(links)
    /\ persisted \subseteq Step \cup Transition
    /\ stored.nodes \subseteq Step /\ stored.links \subseteq Link
    /\ cells \in Some(Step, Cell) /\ flows \in Some(Transition, Flow)
    /\ {active, rebuilding, moved} \subseteq BOOLEAN

\* The graph as buildGraph draws it.
CellsOf(ns, ids) == [s \in ns |-> [current |-> TRUE, id |-> s \in ids]]
FlowsOf(ls, ids) ==
    [t \in Keys(ls) |-> LET l == CHOOSE x \in ls : x.key = t
                        IN  [current |-> TRUE, id |-> t \in ids,
                             start |-> l.start, finish |-> l.finish]]

DesignerInit ==
    /\ nodes = {} /\ links = {} /\ persisted = {}
    /\ stored = [nodes |-> {}, links |-> {}]
    /\ cells = CellsOf(nodes, {}) /\ flows = FlowsOf(links, {})
    /\ active = TRUE /\ rebuilding = FALSE /\ moved = FALSE

\* updateCell: a cell is given the object of the entity that has the e_id of its own.
Repaired(fs, ids, keys) ==
    [o \in DOMAIN fs |-> [fs[o] EXCEPT !.current = @ \/ (fs[o].id /\ o \in ids \cap keys)]]

(* For the mutation checks: a graph is taken for that of the entity when   *)
(* its cells have the right names.                                         *)
ConsistentByName(ns, ls, cs, fs) ==
    /\ \A s \in ns : s \in DOMAIN cs
    /\ \A t \in Keys(ls) : t \in DOMAIN fs

\* checkGraphConsistents: every object of the entity is in a cell.
Consistent(ns, ls, cs, fs) ==
    /\ \A s \in ns : s \in DOMAIN cs /\ cs[s].current
    /\ \A t \in Keys(ls) : t \in DOMAIN fs /\ fs[t].current

\* render: ns, ls and ids are the entity's lists, cs and fs the cells, front tells whether the
\* tab is in front.  A graph with another number of cells, or with an object that no cell has
\* and that no cell has the e_id of, is to be built anew.
Check(front, ns, ls, ids, cs, fs) ==
    LET sameCount == Cardinality(DOMAIN cs) + Cardinality(DOMAIN fs) = Cardinality(ns) + Cardinality(ls)
        look == front /\ ~rebuilding
        rcs == IF look /\ sameCount THEN Repaired(cs, ids, ns) ELSE cs
        rfs == IF look /\ sameCount THEN Repaired(fs, ids, Keys(ls)) ELSE fs
    IN  /\ nodes' = ns /\ links' = ls /\ persisted' = ids \cap (ns \cup Keys(ls))
        /\ cells' = rcs /\ flows' = rfs
        /\ active' = front
        /\ rebuilding' = (rebuilding \/ (look /\ ~(sameCount /\ Consistent(ns, ls, rcs, rfs))))

\* The user's gestures in the graph.  None falls between a render and its timer of no delay.  Left
\* out with them is a Delete there: it finds rebuildInProcess set and deletes nothing, but leaves
\* inDelete set, and the links removed after it stay in the entity until the next Delete.
InGraph == active /\ ~rebuilding

\* A step is selected: selectCellView gives its cell and the entity one new object.  The halo
\* and the inspector are shown for a selected step that a cell has.
Selected(s) == InGraph /\ s \in DOMAIN cells /\ cells[s].current

\* The updaters of updateEntity: normalizeTransformationPorts drops the transitions that
\* have lost a step.
Attached(ls, ns) == {l \in ls : {l.start, l.finish} \subseteq ns}

-----------------------------------------------------------------------------
(* Steps and transitions are added.                                        *)

Fresh(f, o, cell) == [x \in DOMAIN f \cup {o} |-> IF x = o THEN cell ELSE f[x]]

\* What is drawn, in the entity or on the server.
UsedSteps == nodes \cup DOMAIN cells \cup stored.nodes
UsedLinks == Keys(links) \cup DOMAIN flows \cup Keys(stored.links)

\* A new object; which of the free identities it gets makes no difference.
NewIn(S, used) ==
    IF S \subseteq used \/ Cardinality(UsedSteps) + Cardinality(UsedLinks) >= MaxCells THEN {}
    ELSE {CHOOSE o \in S \ used : TRUE}

\* cellCreated: a cell and its step.
CellCreated ==
    \E s \in NewIn(Step, UsedSteps) :
        /\ Check(active, nodes \cup {s}, links, persisted,
                 Fresh(cells, s, [current |-> TRUE, id |-> FALSE]), flows)
        /\ UNCHANGED <<stored, moved>>

\* A step is dragged into the graph.
Drop == InGraph /\ CellCreated

\* The copy of a step has no e_id: clone leaves it out.
Duplicate(s) == Selected(s) /\ CellCreated

\* linkConnected with processLink: a new link becomes a transition.
LinkConnected(s, f) ==
    \E t \in NewIn(Transition, UsedLinks) :
        /\ InGraph /\ s # f /\ {s, f} \subseteq DOMAIN cells
        /\ Check(active, nodes, links \cup {[key |-> t, start |-> s, finish |-> f]},
                 persisted, cells,
                 Fresh(flows, t, [current |-> TRUE, id |-> FALSE, start |-> s, finish |-> f]))
        /\ UNCHANGED <<stored, moved>>

(* For the mutation checks: a link that is drawn is a new transition.      *)
LinkMovedAnew(t, f) ==
    /\ InGraph /\ t \in DOMAIN flows /\ f \in DOMAIN cells \ {flows[t].start, flows[t].finish}
    /\ Check(active, nodes, links \cup {[key |-> t, start |-> flows[t].start, finish |-> f]},
             persisted, cells, [flows EXCEPT ![t].finish = f])
    /\ moved' = TRUE
    /\ UNCHANGED stored

\* The end of a link is dragged to another step: processLink finds the transition and
\* changes neither its start nor its finish.
LinkMoved(t, f) ==
    /\ InGraph /\ t \in DOMAIN flows /\ f \in DOMAIN cells \ {flows[t].start, flows[t].finish}
    /\ Check(active, nodes, links, persisted, cells, [flows EXCEPT ![t].finish = f])
    /\ moved' = TRUE
    /\ UNCHANGED stored

-----------------------------------------------------------------------------
(* Steps and transitions are deleted.                                      *)

\* deleteCashed looks each object up by identity; one that is not found is looked up at -1,
\* where splice takes the last of the list away: what may be left of S after the removal of
\* as many as are in gone, when it finds those in found.
Spliced(S, found, gone) ==
    LET lost == Cardinality(gone) - Cardinality(found)
        rest == S \ found
    IN  {rest \ X : X \in {Y \in SUBSET rest :
                              \/ Cardinality(Y) = lost
                              \/ Cardinality(Y) < lost /\ Y = rest}}
RemoveStep(s) == Spliced(nodes, {n \in nodes : n = s /\ cells[s].current}, {s})
RemoveLinks(T) == Spliced(links, {l \in links : l.key \in T /\ flows[l.key].current}, T)
Without(f, S) == [x \in DOMAIN f \ S |-> f[x]]

\* The user removes a link: linkDeleted.
LinkDeleted(t) ==
    /\ InGraph /\ t \in DOMAIN flows
    /\ \E ls \in RemoveLinks({t}) : Check(active, nodes, ls, persisted, cells, Without(flows, {t}))
    /\ UNCHANGED <<stored, moved>>

\* The selected step is deleted together with the links drawn to it and from it.
Delete(s) ==
    LET gone == {t \in DOMAIN flows : s \in {flows[t].start, flows[t].finish}}
    IN  /\ Selected(s)
        /\ \E ns \in RemoveStep(s), ls \in RemoveLinks(gone) :
               Check(active, ns, Attached(ls, ns), persisted, Without(cells, {s}), Without(flows, gone))
        /\ UNCHANGED <<stored, moved>>

-----------------------------------------------------------------------------
(* Steps are edited.                                                       *)

\* The inspector of the selected step: its cell takes the new object.  When the step has
\* more ports than before, or fewer, the graph is to be built anew.
EditNode(s) ==
    /\ Selected(s)
    /\ rebuilding' = TRUE
    /\ UNCHANGED <<nodes, links, persisted, stored, cells, flows, active, moved>>

\* The box with the description of a step: the first object of the list that has the e_id of
\* the cell's is replaced, and its cell keeps the one it had.  A step that was never saved
\* has none: the first of those takes the description of every one of them.
EditDescription(s) ==
    \E t \in IF s \in persisted THEN {s} ELSE nodes \ persisted :
        /\ InGraph /\ s \in DOMAIN cells /\ t \in nodes \cap DOMAIN cells
        /\ Check(active, nodes, links, persisted, [cells EXCEPT ![t].current = FALSE], flows)
        /\ UNCHANGED <<stored, moved>>

-----------------------------------------------------------------------------
(* What changes the entity behind the graph.                               *)

\* The page is refreshed: the graph is to be built anew, whatever the answer will bring.
RefreshGraph ==
    /\ active
    /\ rebuilding' = TRUE
    /\ UNCHANGED <<nodes, links, persisted, stored, cells, flows, active, moved>>

\* Another tab comes to the front, or this one comes back.
SwitchTab ==
    /\ Check(~active, nodes, links, persisted, cells, flows)
    /\ UNCHANGED <<stored, moved>>

\* A step is deleted in the table of the form.
FormDelete(s) ==
    /\ ~active /\ s \in nodes
    /\ LET ns == nodes \ {s}
       IN  Check(active, ns, Attached(links, ns), persisted, cells, flows)
    /\ UNCHANGED <<stored, moved>>

\* The server has executed a save.
Stored ==
    /\ stored' = [nodes |-> nodes, links |-> links]
    /\ UNCHANGED <<nodes, links, persisted, cells, flows, active, rebuilding, moved>>

\* The answer of a save or a load: every object is a new one.
Answer ==
    /\ Check(active, stored.nodes, stored.links, stored.nodes \cup Keys(stored.links),
             [s \in DOMAIN cells |-> [cells[s] EXCEPT !.current = FALSE]],
             [t \in DOMAIN flows |-> [flows[t] EXCEPT !.current = FALSE]])
    /\ UNCHANGED <<stored, moved>>

\* The timer: buildGraph.  The removals of the graph itself are ignored.
BuildGraph ==
    /\ rebuilding
    /\ cells' = CellsOf(nodes, persisted) /\ flows' = FlowsOf(links, persisted)
    /\ rebuilding' = FALSE
    /\ moved' = FALSE
    /\ UNCHANGED <<nodes, links, persisted, stored, active>>

DesignerNext ==
    \/ Drop
    \/ \E s \in Step : Duplicate(s) \/ Delete(s) \/ FormDelete(s) \/ EditNode(s) \/ EditDescription(s)
    \/ \E s, f \in Step : LinkConnected(s, f)
    \/ \E t \in Transition, f \in Step : LinkMoved(t, f)
    \/ \E t \in Transition : LinkDeleted(t)
    \/ RefreshGraph \/ SwitchTab \/ Stored \/ Answer \/ BuildGraph

DesignerSpec == DesignerInit /\ [][DesignerNext]_designerVars
-----------------------------------------------------------------------------
(* Properties.                                                             *)

\* What is drawn is what the entity has, and every cell holds an object of its lists, unless
\* a timer will build the graph: else the next deletion would take another step away.
GraphShowsEntity ==
    active /\ ~rebuilding =>
        /\ DOMAIN cells = nodes /\ DOMAIN flows = Keys(links)
        /\ \A s \in DOMAIN cells : cells[s].current
        /\ \A t \in DOMAIN flows : flows[t].current
        /\ ~moved => \A l \in links : {flows[l.key].start, flows[l.key].finish} = {l.start, l.finish}

\* A deletion takes away what the user asked for and no more: the step with its
\* transitions, or the transition.
OnlyTheDeletedGo ==
    [][/\ \A s \in Step : Delete(s) =>
             /\ nodes \ nodes' \subseteq {s}
             /\ ~moved => \A l \in links \ links' : s \in {l.start, l.finish}
       /\ \A t \in Transition : LinkDeleted(t) =>
             nodes' = nodes /\ Keys(links) \ Keys(links') \subseteq {t}]_designerVars
=============================================================================
