--------------------------- MODULE QuantityTakeOff ---------------------------
(* plugin-qto-preprocess: which quantities an object should have and lacks, *)
(* which of them its geometry gives, and how they get into the model.       *)
(*                                                                          *)
(* A model is [objects, sets, units].  An object is [id, class, voided,     *)
(* reps, mesh, sets]: its representations are sequences of items [id, kind, *)
(* ok, volume, rectangular, items], its mesh is what the tessellation says, *)
(* `sets` are the quantity sets it has, in order.  A class is <<name,       *)
(* suffix>>, a name <<text, spelling>>.  An item nests at most six deep.    *)
(* A unit is [type, power, si].                                             *)
EXTENDS Integers, Sequences, SequencesExt, FiniteSets, Functions

CONSTANTS Table,   \* qto_sets.tsv: rows <<class, set name, kinds>>
          SetName  \* "BaseQuantities", as IFC2X3 spells every set

Volumes == {"GrossVolume", "NetVolume"}
Lengths == {"Length", "Height", "Width", "Depth", "Perimeter", "GrossPerimeter"}
Power(kind) == IF kind \in Volumes THEN 3 ELSE IF kind \in Lengths THEN 1 ELSE 2
Same(name, other) == name[1] = other[1]

(* ----- units.rs ---------------------------------------------------------- *)
(* The power of ten of each unit in metres to the same power; two different *)
(* declarations of one, or one that is not SI, and there are no scales.     *)
Dimension == [ LENGTHUNIT |-> 1, AREAUNIT |-> 2, VOLUMEUNIT |-> 3 ]
Powers(units, n) == { n * u.power : u \in { x \in ToSet(units) : x.type \in DOMAIN Dimension /\ Dimension[x.type] = n } }
HasScales(units) ==
    /\ \A u \in ToSet(units) : u.type \in DOMAIN Dimension => u.si
    /\ \A n \in 1..3 : Cardinality(Powers(units, n)) <= 1
Scale(units, n) == IF Powers(units, n) = {} THEN 0 ELSE CHOOSE p \in Powers(units, n) : TRUE
(* What a raw figure is multiplied with.                                    *)
ToDeclaredUnit(units, kind) ==
    IF Power(kind) = 1 THEN 0 ELSE Power(kind) * Scale(units, 1) - Scale(units, Power(kind))

(* ----- qto_names.rs, audit.rs -------------------------------------------- *)
Rows(class) == SelectSeq(Table, LAMBDA row : row[1] = class)
SpecFor(class) ==
    LET rows == IF Rows(class) # <<>> THEN Rows(class) ELSE Rows(<<class[1], "">>)
    IN  IF rows = <<>> THEN <<>>
        ELSE << [ set |-> rows[1][2], kinds |-> UNION { ToSet(rows[i][3]) : i \in DOMAIN rows } ] >>
Existing(m, o) == UNION { { q.name : q \in ToSet(m.sets[s].quantities) } : s \in ToSet(o.sets) }
(* The last set of that name, else the first with the name of IFC2X3.       *)
ExistingSet(m, o, name) ==
    LET called(n) == { i \in DOMAIN o.sets : Same(m.sets[o.sets[i]].name, n) }
    IN  IF called(name) # {} THEN o.sets[Max(called(name))]
        ELSE IF called(SetName) # {} THEN o.sets[Min(called(SetName))] ELSE 0
Missing(m, o) ==
    { k \in SpecFor(o.class)[1].kinds : \A name \in Existing(m, o) : ~Same(name, <<k, "">>) }
Audited(m, o) == SpecFor(o.class) # <<>> /\ Missing(m, o) # {}

(* ----- step_geom.rs and the walks of lib.rs ------------------------------- *)
(* An item and what is nested in it; the walks stop at depth 6.             *)
Within(item) ==
    LET down[n \in 0..6] == IF n = 0 THEN {item} ELSE down[n - 1] \cup (UNION { ToSet(x.items) : x \in down[n - 1] })
    IN  down[6]
FirstFound(found) == LET hits == SelectSeq(found, LAMBDA x : x # <<>>) IN IF hits = <<>> THEN <<>> ELSE hits[1]
Solid(item) ==
    LET solid[x \in Within(item)] ==
            CASE x.kind \in {"sweep", "brep", "box"} -> << x.kind >>
              [] x.kind = "boolean" -> solid[x.items[1]]
              [] x.kind = "mapped" -> FirstFound([ i \in DOMAIN x.items |-> solid[x.items[i]] ])
              [] OTHER -> <<>>
    IN  solid[item]
BestSolid(o) ==
    LET items == FlattenSeq(o.reps)
    IN  FirstFound([ i \in DOMAIN items |-> IF Solid(items[i]) = <<"box">> THEN <<>> ELSE Solid(items[i]) ])
Sweep(item) ==
    LET sweep[x \in Within(item)] ==
            CASE x.kind = "sweep" -> << x >>
              [] x.kind = "mapped" -> FirstFound([ i \in DOMAIN x.items |-> sweep[x.items[i]] ])
              [] OTHER -> <<>>
    IN  sweep[item]
Breps(item) ==
    LET breps[x \in Within(item)] ==
            CASE x.kind = "brep" -> << x >>
              [] x.kind = "mapped" -> FlattenSeq([ i \in DOMAIN x.items |-> breps[x.items[i]] ])
              [] OTHER -> <<>>
    IN  breps[item]
Sweeps(o) == FirstFound([ r \in DOMAIN o.reps |-> FlattenSeq([ i \in DOMAIN o.reps[r] |-> Sweep(o.reps[r][i]) ]) ])
Polyhedra(o) == FirstFound([ r \in DOMAIN o.reps |-> FlattenSeq([ i \in DOMAIN o.reps[r] |-> Breps(o.reps[r][i]) ]) ])
HasBoolean(item) ==
    LET has[x \in Within(item)] == x.kind = "boolean" \/ (x.kind = "mapped" /\ \E i \in DOMAIN x.items : has[x.items[i]])
    IN  has[item]
HasOpenings(o) == o.voided \/ \E r \in DOMAIN o.reps : \E i \in DOMAIN o.reps[r] : HasBoolean(o.reps[r][i])

(* ----- compute_for_element ----------------------------------------------- *)
(* A figure says of which object and which of its items it was measured; of *)
(* values that are not volumes only whether they are positive.              *)
Figure(o, items, value) == [ of |-> o.id, items |-> { i.id : i \in ToSet(items) }, value |-> value ]
Parts(item) ==
    LET parts[x \in Within(item)] ==
            IF x.items = <<>> \/ x.kind = "boolean" THEN << x >> ELSE FlattenSeq([ i \in DOMAIN x.items |-> parts[x.items[i]] ])
    IN  parts[item]
(* The representation that holds the solids.                                *)
Body(o) ==
    LET solids(r) == IF \E i \in DOMAIN o.reps[r] : Solid(o.reps[r][i]) # <<>> THEN o.reps[r] ELSE <<>>
        items == FirstFound([ r \in DOMAIN o.reps |-> solids(r) ])
    IN  FlattenSeq([ i \in DOMAIN items |-> Parts(items[i]) ])
All(kinds, x) == [ k \in kinds |-> x ]
(* The figures of g where f has none.                                       *)
OrElse(f, g) == [ k \in DOMAIN f \cup DOMAIN g |-> IF k \in DOMAIN f THEN f[k] ELSE g[k] ]
Given(condition, kinds) == IF condition THEN kinds ELSE {}
Total(items) == FoldLeft(LAMBDA sum, i : sum + i.volume, 0, items)

Walls == { <<"wall", "">>, <<"wall", "standardcase">> }
PlanReferenced(class) ==
    \/ class \in { <<"roof", "">>, <<"covering", "">>, <<"footing", "">>, <<"space", "">>,
                  <<"ramp", "">>, <<"rampflight", "">>, <<"pavement", "">> }
    \/ class[1] = "slab"
    \/ class \in { <<"plate", "">>, <<"plate", "standardcase">> }
Linear == { <<"beam", "">>, <<"column", "">>, <<"member", "">>, <<"pile", "">>, <<"footing", "">> }
Flat == { <<"slab", "">>, <<"roof", "">>, <<"plate", "">>, <<"covering", "">> }

(* A volume is taken from the mesh only when it is proved a solid within    *)
(* its enclosure and nothing was cut from it, a perimeter only when the     *)
(* plan is its own rectangle, a depth only when the solid is its own box.   *)
MeshFigures(o, mesh, plan, uncut) ==
    OrElse(All(Given(mesh.solid /\ mesh.sound /\ uncut, Volumes), Figure(o, Body(o), mesh.volume)),
           All({"NetSurfaceArea"} \cup Given(plan, {"NetFootprintArea", "NetArea"})
               \cup Given(plan /\ uncut, {"GrossFootprintArea", "GrossArea"})
               \cup Given(plan /\ mesh.flat, {"Width"}) \cup Given(plan /\ mesh.outline, {"Perimeter"})
               \cup Given(o.class \in Walls, {"Height"}) \cup Given(mesh.box, {"Depth"}),
               Figure(o, Body(o), 1)))
FromMesh(o) ==
    IF o.mesh = <<>> THEN <<>>
    ELSE MeshFigures(o, o.mesh[1], PlanReferenced(o.class) /\ o.mesh[1].footprint, ~HasOpenings(o))
OfOneSweep(o, sweep, uncut) ==
    CASE o.class \in Linear -> {"Length", "GrossSurfaceArea"}
      [] o.class \in Walls -> {"Height", "GrossFootprintArea"} \cup Given(uncut, {"NetFootprintArea"})
                              \cup Given(sweep.rectangular, {"GrossSideArea"})
      [] o.class \in Flat -> {"Depth", "GrossArea", "Perimeter"}
      [] o.class = <<"space", "">> -> {"Height", "GrossFloorArea", "GrossPerimeter"}
      [] OTHER -> {}
SweepFigures(o, parts, uncut) ==
    IF parts = <<>> THEN <<>>
    ELSE OrElse(All(Given(Len(parts) = 1, OfOneSweep(o, parts[1], uncut)), Figure(o, parts, 1)),
                All(Given(uncut, Volumes), Figure(o, parts, Total(parts))))
Measurable(items) == SelectSeq(items, LAMBDA i : i.ok)
FromSweep(o) == SweepFigures(o, Measurable(Sweeps(o)), ~HasOpenings(o))
PolyhedraFigures(o, parts) ==
    IF parts = <<>> \/ \E i \in DOMAIN parts : ~parts[i].ok THEN <<>>
    ELSE All({"NetVolume"} \cup Given(~HasOpenings(o), {"GrossVolume"}), Figure(o, parts, Total(parts)))
(* Mutation: a part that cannot be measured is left out of the sum.         *)
FromMeasurable(o) == PolyhedraFigures(o, Measurable(Polyhedra(o)))
FromPolyhedra(o) == PolyhedraFigures(o, Polyhedra(o))
ComputedBy(o, best) ==
    OrElse(CASE best = <<"sweep">> -> FromSweep(o)
             [] best = <<"brep">> -> FromPolyhedra(o)
             [] OTHER -> <<>>,
           FromMesh(o))
Computed(o) == ComputedBy(o, BestSolid(o))

(* ----- gate.rs, inject.rs ------------------------------------------------ *)
Accepted(figures) == { k \in DOMAIN figures : figures[k].value > 0 }
Consistent(figures) ==
    Accepted(figures) \ Given(Volumes \subseteq Accepted(figures)
                              /\ figures["NetVolume"].value > figures["GrossVolume"].value, {"NetVolume"})
Quantity(k, figures, units) ==
    [ name |-> <<k, "">>, figure |-> << figures[k] >>, scale |-> ToDeclaredUnit(units, k) ]
HavingSet(objects, o, set) ==
    [ i \in DOMAIN objects |-> IF objects[i].id = o.id THEN [ objects[i] EXCEPT !.sets = Append(@, set) ] ELSE objects[i] ]
Extended(at, o, found, set, name) ==
    IF found = <<>> THEN at
    ELSE IF set # 0 THEN [ at EXCEPT !.sets[set].quantities = @ \o found ]
    ELSE [ at EXCEPT !.sets = Append(@, [ name |-> name, quantities |-> found ]),
                     !.objects = HavingSet(at.objects, o, Len(at.sets) + 1) ]
(* What is missing, and which set is extended, is decided on the model as   *)
(* it came.                                                                 *)
Only(figures, kinds) == [ k \in DOMAIN figures \cap kinds |-> figures[k] ]
Quantities(figures, kinds, units) == [ i \in DOMAIN kinds |-> Quantity(kinds[i], figures, units) ]
InjectFigures(m, at, o, figures) ==
    Extended(at, o, Quantities(figures, SetToSeq(Consistent(figures)), m.units),
             ExistingSet(m, o, SpecFor(o.class)[1].set), SpecFor(o.class)[1].set)
Inject(m, at, o) == InjectFigures(m, at, o, Only(Computed(o), Missing(m, o)))
Preprocess(m) ==
    LET after[i \in 0..Len(m.objects)] ==
            IF i = 0 THEN m
            ELSE IF Audited(m, m.objects[i]) THEN Inject(m, after[i - 1], m.objects[i]) ELSE after[i - 1]
    IN  IF HasScales(m.units) THEN after[Len(m.objects)] ELSE m
-----------------------------------------------------------------------------
(* What a file gives: ids tell objects apart, an object names sets of the   *)
(* file, and no quantity of it was measured here.                           *)
IsRecord(r, fields) == r = [ f \in fields |-> r[f] ]
IsAuthored(m) ==
    /\ IsRecord(m, {"objects", "sets", "units"})
    /\ \A list \in { m.objects, m.sets, m.units } : list \in Seq(ToSet(list))
    /\ \A i, j \in DOMAIN m.objects : m.objects[i].id = m.objects[j].id => i = j
    /\ \A o \in ToSet(m.objects) :
          IsRecord(o, {"id", "class", "voided", "reps", "mesh", "sets"}) /\ o.sets \in Seq(DOMAIN m.sets)
    /\ \A s \in ToSet(m.sets) :
          /\ IsRecord(s, {"name", "quantities"}) /\ s.quantities \in Seq(ToSet(s.quantities))
          /\ \A q \in ToSet(s.quantities) : q.figure = <<>>

(* The sets of an object that no other object has.                          *)
UnsharedSets(m, o) == { s \in ToSet(o.sets) : \A p \in ToSet(m.objects) : s \in ToSet(p.sets) => p.id = o.id }
(* What closed forms are taken of.  Not always the whole body: a sweep that *)
(* cannot be measured is skipped (lib.rs 471-474), of a mapped item one     *)
(* sweep is taken, and of a body of sweeps and polyhedra only those of the  *)
(* kind that comes first.  A polyhedron that cannot be measured is not      *)
(* skipped.                                                                 *)
ItemIds(items) == { i.id : i \in ToSet(items) }
Measured(o, best) == IF best = <<"sweep">> THEN Measurable(Sweeps(o)) ELSE Polyhedra(o)
EarnedBy(m, o, q, f, n) ==
    /\ f.of = o.id /\ f.value > 0
    /\ f.items \in { ItemIds(Body(o)), ItemIds(Measured(o, BestSolid(o))) }
    /\ q.name[1] = "GrossVolume" => ~HasOpenings(o)
    /\ n > 1 => \A l \in Powers(m.units, 1) : \A p \in Powers(m.units, n) : q.scale = n * l - p
(* A wrong quantity is worse than a missing one (lib.rs 27-30, gate.rs      *)
(* 3-6): what an object gains was measured on it, in the unit every         *)
(* declaration of the file states, under a name that no set of the object   *)
(* had; what was authored stays.  It was measured on the whole body, or on  *)
(* exactly the items `Measured` tells, which the promise of lib.rs does not *)
(* except: there a figure is of a part of the body and stands all the same. *)
(* And not so for sets that several objects share, which are extended once  *)
(* for each of them.                                                        *)
Named(after, o, name) ==
    { x \in UNION { {s} \X DOMAIN after.sets[s].quantities : s \in ToSet(o.sets) } : after.sets[x[1]].quantities[x[2]].name[1] = name }
GainsAreEarned(m, after) ==
    /\ \A s \in DOMAIN m.sets : m.sets[s].name = after.sets[s].name /\ IsPrefix(m.sets[s].quantities, after.sets[s].quantities)
    /\ \A o \in ToSet(after.objects) :
           UnsharedSets(after, o) = ToSet(o.sets) =>
               \A s \in ToSet(o.sets) : \A q \in ToSet(after.sets[s].quantities) :
                   q.figure # <<>> => EarnedBy(m, o, q, q.figure[1], Power(q.name[1])) /\ Cardinality(Named(after, o, q.name[1])) = 1
EarnedTakeOff(m) == GainsAreEarned(m, Preprocess(m))
=============================================================================
