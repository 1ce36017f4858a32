---------------------------- MODULE PropertyGraph ---------------------------
(* Properties as RDF: the props module (lbd-converter lib.rs) and the bSDD  *)
(* module (modules/bsdd.rs), which may share equal properties among objects *)
(* while the worker threads take the objects in any order.                  *)
(*                                                                          *)
(* A model is a sequence of objects [guid, sets]; a set is [of, name, guid, *)
(* props], `of` telling property sets from quantity sets; a property is     *)
(* [name, local, form, values, unit, match]: its name, the local name made  *)
(* of it, "single" or "list" (an enumerated value), values [raw, text]:     *)
(* what the file has and what is left of it after trimming, "" where it     *)
(* states none, and what the dictionary answers for the class of the        *)
(* object, the set and the name (BsddMatching), as the output tells it: a   *)
(* set for each predicate of Told.  A triple is <<subject, predicate, object>>, and a resource is the *)
(* sequence of what its IRI is made of (a hash in the code).                *)
EXTENDS Naturals, Sequences, FiniteSets

Elem(seq) == { seq[i] : i \in DOMAIN seq }
(* set_scope_token: a set without a name is told apart by its GUID.         *)
Scope(set) == IF set.name = "" THEN "guid:" \o set.guid ELSE set.name

(* emit_opm_value: at level L2 the value is on the property itself, at L3   *)
(* on a state of it.                                                        *)
Valued(level, property, state, value, unit) ==
    LET node == IF level = "L2" THEN property ELSE state
    IN  { <<node, "value", <<value>>>> }
        \cup (IF unit = "" THEN {} ELSE { <<node, "unit", <<unit>>>> })
        \cup (IF level = "L2" THEN {} ELSE { <<property, "hasPropertyState", state>>,
                                            <<state, "a", <<"PropertyState">>>>,
                                            <<state, "a", <<"CurrentPropertyState">>>> })

(* ----- property_resource_iri and property_state_iri ---------------------- *)
PropertyNode(local, guid, scope) == <<"p", local, scope, guid>>
StateNode(local, guid, scope, value) == <<"s", local, scope, guid, value>>

(* ----- props: emit_props_opm_inner --------------------------------------- *)
(* Blank values are left out everywhere, a text that repeats the name of    *)
(* its property is left out of single values.                               *)
PropsValues(p) ==
    { v.text : v \in { x \in Elem(p.values) : x.text # "" /\ (p.form = "single" => x.text # p.name) } }
PropsUnit(p) == IF p.form = "single" THEN p.unit ELSE ""
PropsLabel(set, p) == IF set.name = "" THEN <<p.name>> ELSE <<set.name, p.name>>
(* The predicate that leads to a node has the node's local name, in a       *)
(* namespace of the props module.                                           *)
PropsOf(level, o, set, p) ==
    LET node == PropertyNode(p.local, o.guid, Scope(set))
    IN  UNION { { <<<<o.guid>>, "props", node>>, <<node, "a", <<"Property">>>>, <<node, "label", PropsLabel(set, p)>> }
                \cup Valued(level, node, StateNode(p.local, o.guid, Scope(set), v), v, PropsUnit(p))
                : v \in PropsValues(p) }
Props(model, level) ==
    UNION { UNION { UNION { PropsOf(level, o, set, p) : p \in Elem(set.props) } : set \in Elem(o.sets) }
            : o \in Elem(model) }

(* ----- bSDD: process_element_psets, process_element_quantities ----------- *)
(* Enumerated values are taken as the file has them.                        *)
BsddValues(p) ==
    IF p.form = "single" THEN { v.text : v \in { x \in Elem(p.values) : x.text # "" } }
    ELSE { v.raw : v \in Elem(p.values) }
(* Mutation: the scope is the set's GUID.                                   *)
GuidScope(set) == "guid:" \o set.guid
BsddScope(set) == Scope(set)

Containing(set) == IF set.of = "quantities" THEN "containsQuantity" ELSE "containsProperty"
(* The types of a node (the matched code; custom or of the dictionary), the *)
(* candidates of an ambiguous match, how the match was found and how sure   *)
(* it is; compact output has of these the code and the candidates.          *)
Told == {"a", "candidateProperty", "mappingStatus", "matchingMethod", "matchingConfidence", "classPropertyCode"}
Matched(node, match) == UNION { { <<node, told, <<x>>>> : x \in match[told] } : told \in Told }
Defined(level, node, state, set, p, value) ==
    { <<node, "a", <<"Property">>>>, <<node, "label", <<set.name, p.name>>>> }
    \cup Matched(node, p.match) \cup Valued(level, node, state, value, PropsUnit(p))

BsddOf(level, o, set, p) ==
    LET node == PropertyNode(p.local, o.guid, BsddScope(set))
        setNode == <<set.of, BsddScope(set), o.guid>>
    IN  UNION { { <<<<o.guid>>, "hasProperty", node>>, <<setNode, Containing(set), node>> }
                \cup Defined(level, node, StateNode(p.local, o.guid, BsddScope(set), v), set, p, v)
                : v \in BsddValues(p) }
Bsdd(model, level) ==
    UNION { UNION { { <<<<o.guid>>, "hasSet", <<set.of, BsddScope(set), o.guid>>>>,
                      <<<<set.of, BsddScope(set), o.guid>>, "a", <<"Set">>>> }
                    \cup UNION { BsddOf(level, o, set, p) : p \in Elem(set.props) }
                    : set \in Elem(o.sets) }
            : o \in Elem(model) }

(* ----- bSDD with dedup_properties ---------------------------------------- *)
(* canonical_property_resource_iri: neither the object nor the unit, the    *)
(* property's name as the file has it nor what it is matched with.          *)
(* Mutation: the value is left out as well.                                 *)
ByNameOnly(set, p, v) == <<"cp", p.local, set.name>>
Canonical(set, p, v) == <<"cp", p.local, set.name, v>>
CanonicalState(set, p, v) == <<"cs", p.local, set.name, v>>
(* canonical_pset_resource_iri: the name and the contents, in any order.    *)
Content(set) == UNION { { <<p.name, v>> : v \in Elem(p.values) } : p \in Elem(set.props) }

(* The objects in the order the threads take them; `at` is where in it an   *)
(* occurrence stands.  The values of one property differ.                   *)
Occurrences(order) ==
    UNION { UNION { UNION {
        { [ at |-> <<i, j, k>>, o |-> order[i], set |-> order[i].sets[j], p |-> order[i].sets[j].props[k], v |-> v ]
          : v \in BsddValues(order[i].sets[j].props[k]) }
        : k \in DOMAIN order[i].sets[j].props } : j \in DOMAIN order[i].sets } : i \in DOMAIN order }
Earlier(x, y) ==
    x[1] < y[1] \/ (x[1] = y[1] /\ (x[2] < y[2] \/ (x[2] = y[2] /\ x[3] < y[3])))

(* emit_property: every occurrence links its object to the canonical node,  *)
(* and the first that reaches the lock emits the definition; the sets of    *)
(* seen nodes are one for properties and one for quantities.                *)
SharedNode(x) == Canonical(x.set, x.p, x.v)
SharedState(x) == CanonicalState(x.set, x.p, x.v)
Definition(level, x) == Defined(level, SharedNode(x), SharedState(x), x.set, x.p, x.v)
First(occ) ==
    { x \in occ : ~ \E y \in occ : Earlier(y.at, x.at) /\ y.set.of = x.set.of /\ SharedNode(y) = SharedNode(x) }
Shared(order, level) ==
    LET occ == Occurrences(order)
    IN  [ links |-> { <<<<x.o.guid>>, "hasProperty", SharedNode(x)>> : x \in occ },
          contained |-> { <<<<"cps", x.set.name, Content(x.set)>>, Containing(x.set), SharedNode(x)>> : x \in occ },
          definitions |-> UNION { Definition(level, x) : x \in First(occ) } ]

(* ----- standard attributes ----------------------------------------------- *)
(* The attributes that IFC itself gives an object, as properties: the props *)
(* module (lib.rs emit_standard_attribute_triples) and the bSDD module      *)
(* (bsdd.rs emit_bsdd_standard_attrs) each write them from a list of their  *)
(* own.  Here an object has besides its sets                                *)
(*   kind, class   "spatial" or "element", and "Door", "Window" or another  *)
(*   attrs         attribute -> [raw, text]: its value as `to_string` and   *)
(*                 as `quantize_value` writes it                            *)
(*   schema, length  of its file: the IFC version and the unit of lengths   *)
Scoped == "standardAttributes"
LengthAttributes == {"elevation", "refElevation", "elevationOfRefHeight", "elevationOfTerrain",
            "overallHeight", "overallWidth", "riserHeight", "treadLength"}
Root == {"globalId", "name", "description", "objectType"}
SpatialOnly == {"longName", "elevation", "refElevation", "elevationOfRefHeight", "elevationOfTerrain"}
ElementOnly == {"tag", "overallHeight", "overallWidth", "numberOfRiser", "numberOfTreads", "riserHeight", "treadLength"}

(* ----- props: emit_standard_attribute_triples, emit_standard_attribute --- *)
PropsAttributeName(o, a) ==
    CASE a = "longName" -> IF o.schema = "IFC2X3" THEN "longNameIfcSpatialStructureElement" ELSE "longNameIfcSpatialElement"
      [] a \in {"overallHeight", "overallWidth"} -> IF o.class \in {"Door", "Window"} THEN a \o "Ifc" \o o.class ELSE a
      [] OTHER -> a
(* The length of a tread is the only number that is not quantized.          *)
PropsText(a, v) == IF a = "treadLength" THEN v.raw ELSE v.text
PropsWrites(o, a) ==
    /\ a \in Root \cup (IF o.kind = "spatial" THEN SpatialOnly ELSE ElementOnly)
    /\ a = "description" => o.attrs[a].text # ""
PropsAttribute(level, o, a) ==
    LET local == PropsAttributeName(o, a)
        node == PropertyNode(local, o.guid, Scoped)
        text == PropsText(a, o.attrs[a])
    IN  { <<<<local>>, "a", <<"owl:ObjectProperty">>>>, <<<<local>>, "comment", <<local>>>>,
          <<<<o.guid>>, "props", node>>, <<node, "a", <<"Property">>>> }
        \cup Valued(level, node, StateNode(local, o.guid, Scoped, text), text, IF a \in LengthAttributes THEN o.length ELSE "")
PropsAttributes(model, level) ==
    UNION { UNION { PropsAttribute(level, o, a) : a \in { x \in DOMAIN o.attrs : PropsWrites(o, x) } } : o \in Elem(model) }

(* ----- bSDD: emit_bsdd_standard_attrs, emit_std_attr --------------------- *)
BsddAttributeName(o, a) ==
    IF a = "longName"
    THEN IF o.schema = "IFC2X3" THEN "longNameIfcSpatialStructureElement" ELSE "longNameIfcSpatialElement"
    ELSE IF a \in {"overallHeight", "overallWidth"} /\ o.class \in {"Door", "Window"} THEN a \o "Ifc" \o o.class
    ELSE a
BsddSpatial(o) ==
    { a \in DOMAIN o.attrs \cap (Root \cup SpatialOnly) : a = "description" => o.attrs[a].text # "" }
BsddElement(o) ==
    { a \in DOMAIN o.attrs \cap (Root \cup ElementOnly) : a = "description" => o.attrs[a].text # "" }
BsddAttribute(level, o, a) ==
    LET local == BsddAttributeName(o, a)
        node == PropertyNode(local, o.guid, Scoped)
        text == o.attrs[a].text
    IN  { <<<<o.guid>>, "hasProperty", node>>, <<node, "a", <<"Property">>>>, <<node, "a", <<"StandardAttribute">>>>,
          <<node, "label", <<local>>>> }
        \cup Valued(level, node, StateNode(local, o.guid, Scoped, text), text, IF a \in LengthAttributes THEN o.length ELSE "")
BsddAttributes(model, level) ==
    UNION { UNION { BsddAttribute(level, o, a) : a \in IF o.kind = "spatial" THEN BsddSpatial(o) ELSE BsddElement(o) }
            : o \in Elem(model) }
------------------------------------------------------------------------------
(* What a graph says of the value v and of the nodes that have it.          *)
Predicates == {"value", "unit", "hasPropertyState"}
About(G, v) ==
    { t \in G : t[2] \in Predicates
                /\ \/ t[2] = "value" /\ t[3] = <<v>>
                   \/ t[2] # "value" /\ \E u \in G : u[2] = "value" /\ u[3] = <<v>> /\ u[1] \in {t[1], t[3]} }
(* What a graph says of an object: the local name of a property it has and  *)
(* the property's value.                                                    *)
ValueNode(level, G, node) ==
    IF level = "L2" THEN {node} ELSE { t[3] : t \in { x \in G : x[1] = node /\ x[2] = "hasPropertyState" } }
ReadAs(level, G, links) ==
    UNION { { [ of |-> l[1][1], name |-> l[3][2], value |-> t[3][1] ]
              : t \in { x \in G : x[2] = "value" /\ x[1] \in ValueNode(level, G, l[3]) } }
            : l \in { x \in links : x[2] = "hasProperty" } }
InFile(model) ==
    UNION { UNION { UNION { { [ of |-> o.guid, name |-> p.local, value |-> v ] : v \in BsddValues(p) } : p \in Elem(set.props) }
                    : set \in Elem(o.sets) } : o \in Elem(model) }
(* What a graph says of the node that an occurrence shares, and who shares  *)
(* it.                                                                      *)
SaidOf(G, x) == { t \in G : t[1] \in {SharedNode(x), SharedState(x)} }
Sharers(occ, x) == { y \in occ : SharedNode(y) = SharedNode(x) }

(* A model is a sequence of objects with sequences of sets of properties.   *)
IsOrder(order) ==
    /\ DOMAIN order \subseteq Nat
    /\ \A i \in DOMAIN order : /\ DOMAIN order[i].sets \subseteq Nat
                              /\ \A j \in DOMAIN order[i].sets : DOMAIN order[i].sets[j].props \subseteq Nat

(* Whichever thread comes first, sharing changes no value that the file     *)
(* states: every object is linked to properties with the values in its      *)
(* sets, each of them is defined in the output, and contained in a set ("N  *)
(* elements sharing height=3m point to one canonical property node", lib.rs *)
(* 107-109).  A node says all that one of those who share it would say, and *)
(* nothing that none of them would.  So it says what each would where they  *)
(* agree; where they do not, a thread that came first decides unit, label,  *)
(* type, candidates and everything else about the match.                    *)
SharingIsNeutral(model, order, level) ==
    LET S == Shared(order, level)
        occ == Occurrences(order)
    IN  /\ ReadAs(level, S.definitions, S.links) = InFile(model)
        /\ \A x \in occ :
              /\ \E y \in Sharers(occ, x) : Definition(level, y) \subseteq SaidOf(S.definitions, x)
              /\ SaidOf(S.definitions, x) \subseteq UNION { Definition(level, y) : y \in Sharers(occ, x) }
        /\ \A l \in S.links : \E c \in S.contained : c[3] = l[3]

(* Both modules write a value as it is; else, only bSDD writes a text that  *)
(* repeats the name of its property and the blanks around a listed value,   *)
(* and only props writes a tread in full, where quantizing removes noise.   *)
AsItIs(p, x) == IF p.form = "single" THEN x.text = "" \/ x.text # p.name ELSE x.raw = x.text /\ x.raw # ""
(* So it is with the value v wherever the model has it, and with the values *)
(* of properties that have units: at level L2 the unit is on the node, which *)
(* v may share.                                                             *)
WrittenAlike(model, v) ==
    \A o \in Elem(model) :
        /\ \A set \in Elem(o.sets) : \A p \in Elem(set.props) : \A x \in Elem(p.values) :
              v \in {x.raw, x.text} \/ PropsUnit(p) # "" => AsItIs(p, x)
        /\ \A x \in { o.attrs[a] : a \in DOMAIN o.attrs \cap {"treadLength"} } :
              v \in {x.raw, x.text} => x.raw = x.text
ValuesIn(model) ==
    UNION { { o.attrs[a].text : a \in DOMAIN o.attrs }
            \cup UNION { UNION { { x.text : x \in Elem(p.values) } \cup { x.raw : x \in Elem(p.values) } : p \in Elem(set.props) }
                        : set \in Elem(o.sets) } : o \in Elem(model) }

(* The props and the bSDD module describe a property or an attribute by the *)
(* same node and, at level L3, the same state, with the same value and unit *)
(* (the comments at lib.rs 2446-2448 and 2620-2622, and at bsdd.rs 2341-2343 *)
(* "so the bSDD graph can fully replace the props graph"): so they do for   *)
(* each value of the model that they write alike, whatever the others are.  *)
SharesNodes(model, level) ==
    LET props == Props(model, level) \cup PropsAttributes(model, level)
        bsdd == Bsdd(model, level) \cup BsddAttributes(model, level)
    IN  \A v \in ValuesIn(model) : WrittenAlike(model, v) => About(props, v) = About(bsdd, v)
==============================================================================
