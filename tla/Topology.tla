------------------------------ MODULE Topology ------------------------------
(* The building topology: the edges the IFC relations give (lbd-topology),  *)
(* those that geometry adds (plugin-topology-full) and the BOT triples made *)
(* of them, by the modular path (modules/bot.rs) and by emit_lbd.           *)
(*                                                                          *)
(* A model m gives each id (STEP number) a kind and a GUID, and has the IFC *)
(* relations: aggregates <<parent, children>>, voids as a function from     *)
(* opening to host, fills <<opening, element>>, boundaries <<space,         *)
(* element>>, contained <<element, structure>> and, of those, the one       *)
(* containedIn keeps for each element.  outcome gives the verdict of every  *)
(* pair of meshes <<lower id, higher id>>.                                  *)
EXTENDS Naturals, FiniteSets, Sequences

Ids(m) == DOMAIN m.kind
Elements(m) == { i \in Ids(m) : m.kind[i] = "element" }
SpatialNodes(m) == Ids(m) \ Elements(m)
ZoneLike(m) == { i \in Ids(m) : m.kind[i] \in {"space", "zone"} }

Edge(source, kind, target) == [ source |-> source, kind |-> kind, target |-> target ]

(* ----- build_topology ---------------------------------------------------- *)
SubElements(m) ==
    UNION { { Edge(a[1], "hasSubElement", c) : c \in a[2] \cap Elements(m) }
            : a \in { x \in m.aggregates : x[1] \in Elements(m) } }
(* The project is no zone.                                                   *)
SubZones(m) ==
    UNION { { Edge(a[1], "containsZone", c) : c \in a[2] \cap SpatialNodes(m) }
            : a \in { x \in m.aggregates : x[1] \in SpatialNodes(m) /\ m.kind[x[1]] # "project" } }
Hosted(m) ==
    { Edge(m.voids[f[1]], "hasSubElement", f[2])
      : f \in { x \in m.fills : x[1] \in DOMAIN m.voids /\ m.voids[x[1]] \in Elements(m)
                                /\ x[2] \in Elements(m) } }
Bounding(m) ==
    { Edge(b[1], "adjacentElement", b[2])
      : b \in { x \in m.boundaries : x[1] \in SpatialNodes(m) /\ x[2] \in Elements(m) } }
Contained(m) ==
    { Edge(m.containedIn[e], "containsElement", e)
      : e \in { x \in DOMAIN m.containedIn : x \in Elements(m) /\ m.containedIn[x] \in SpatialNodes(m) } }
Semantic(m) == SubElements(m) \cup SubZones(m) \cup Hosted(m) \cup Bounding(m) \cup Contained(m)

(* ----- enrich_topology_parallel ------------------------------------------ *)
EdgeKind(verdict) == IF verdict = "touching" THEN "adjacentElement" ELSE "intersectingElement"
Opposite(kind) == IF kind = "adjacentElement" THEN "intersectingElement" ELSE "adjacentElement"

(* The first evidence about a zone and an element is kept.                  *)
Gated(seen, edges) == { e \in edges : Edge(e.source, Opposite(e.kind), e.target) \notin seen }

Zoned(m, p) == IF p[1] \in ZoneLike(m) THEN p ELSE <<p[2], p[1]>>
MeshPairs(m) == { p \in Ids(m) \X Ids(m) : p[1] < p[2] }
MixedPairs(m) == { p \in MeshPairs(m) : Cardinality({p[1], p[2]} \cap ZoneLike(m)) = 1
                                    /\ {p[1], p[2]} \cap Elements(m) # {} }
Meeting(outcome, P) == { p \in P : outcome[p] \in {"touching", "intersecting"} }

Incident(m, outcome) ==
    { Edge(Zoned(m, p)[1], EdgeKind(outcome[p]), Zoned(m, p)[2]) : p \in Meeting(outcome, MixedPairs(m)) }
Enclosed(m, outcome) ==
    { Edge(Zoned(m, p)[1], "containsElement", Zoned(m, p)[2])
      : p \in { q \in MixedPairs(m) : outcome[q] = "contains" } }
Neighbours(m, outcome) ==
    UNION { { Edge(p[1], "adjacentZone", p[2]), Edge(p[2], "adjacentZone", p[1]) }
            : p \in Meeting(outcome, { q \in MeshPairs(m) : {q[1], q[2]} \subseteq ZoneLike(m) }) }
(* An interface is identified by its pair, where the code takes a hash.     *)
Interfaces(m, outcome) == Meeting(outcome, { q \in MeshPairs(m) : {q[1], q[2]} \subseteq Elements(m) })

Geometric(m, outcome) ==
    LET base == Semantic(m)
    IN  base \cup Gated(base, Incident(m, outcome)) \cup Enclosed(m, outcome) \cup Neighbours(m, outcome)

(* What is reached from S along the pairs of R, in at most n more steps.    *)
Followed(R, S) == { r[2] : r \in { x \in R : x[1] \in S } }
Reached(R, S, n) ==
    LET reach[i \in 0..n] == IF i = 0 THEN S ELSE reach[i - 1] \cup Followed(R, reach[i - 1])
    IN  reach[n]

(* propagate_subelement_incidence: what zones meet parts also meets the     *)
(* wholes they are parts of, at every depth; an intersection of one part    *)
(* outweighs the adjacency of another.                                      *)
PartOf(edges) == { <<e.target, e.source>> : e \in { x \in edges : x.kind = "hasSubElement" } }
Ancestors(m, edges, child) ==
    Reached(PartOf(edges), Followed(PartOf(edges), {child}), Cardinality(Ids(m)))
IncidenceOf(m, edges) ==
    { e \in edges : e.kind \in {"adjacentElement", "intersectingElement"} /\ e.source \in ZoneLike(m) }
(* Mutation: the wholes take over every incidence of their parts.           *)
EveryKind(found) == found
Strongest(found) ==
    { e \in found : e.kind = "intersectingElement" \/ Edge(e.source, "intersectingElement", e.target) \notin found }
Enriched(m, outcome) ==
    LET edges == Geometric(m, outcome)
        found == UNION { { Edge(e.source, e.kind, a) : a \in Ancestors(m, edges, e.target) }
                         : e \in IncidenceOf(m, edges) }
    IN  edges \cup Gated(edges, Strongest(found))

(* ----- triples ----------------------------------------------------------- *)
(* A triple is <<predicate, subject, object>>; a resource is named by the   *)
(* GUIDs in its IRI.                                                        *)
Object(m, i) == <<m.guid[i]>>
Type(class, resource) == <<"a", resource, <<class>>>>
Said(m, kind, edges) == { <<kind, Object(m, e.source), Object(m, e.target)>> : e \in { x \in edges : x.kind = kind } }

InterfaceName(m, p) ==
    IF m.guid[p[1]] <= m.guid[p[2]] THEN <<m.guid[p[1]], m.guid[p[2]]>> ELSE <<m.guid[p[2]], m.guid[p[1]]>>
InterfaceTriples(m, interfaces) ==
    UNION { { Type("Interface", InterfaceName(m, p)),
              <<"interfaceOf", InterfaceName(m, p), Object(m, p[1])>>,
              <<"interfaceOf", InterfaceName(m, p), Object(m, p[2])>> } : p \in interfaces }

(* emit_bot_inner without a topology: types, and the predicates of the      *)
(* spatial hierarchy that have names of their own.                          *)
Class(kind) == IF kind = "element" THEN "Element" ELSE kind
Narrow == {<<"site", "building">>, <<"building", "storey">>, <<"storey", "space">>}
HasKind == [ building |-> "hasBuilding", storey |-> "hasStorey", space |-> "hasSpace" ]
Hierarchy(m) ==
    UNION { { <<HasKind[m.kind[c]], Object(m, a[1]), Object(m, c)>>
              : c \in { x \in a[2] \cap SpatialNodes(m) : <<m.kind[a[1]], m.kind[x]>> \in Narrow } }
            : a \in { x \in m.aggregates : x[1] \in SpatialNodes(m) } }
Core(m) ==
    { Type(Class(m.kind[i]), Object(m, i)) : i \in Ids(m) } \cup Hierarchy(m) \cup Said(m, "containsElement", Contained(m))

CoreKinds == {"containsZone", "adjacentElement", "adjacentZone", "hasSubElement", "intersectingElement", "containsElement"}
Bot(m, edges, interfaces) ==
    Core(m) \cup (UNION { Said(m, kind, edges) : kind \in CoreKinds }) \cup InterfaceTriples(m, interfaces)
BasicBot(m) == Bot(m, Semantic(m), {})
ExtendedBot(m, outcome) == Bot(m, Enriched(m, outcome), Interfaces(m, outcome))

(* Mutation: the sub-elements that come from openings are left to the graph. *)
AggregatesOnly(m) == Said(m, "hasSubElement", SubElements(m))
(* emit_direct_sub_element_triples.                                         *)
DirectSubElements(m) == Said(m, "hasSubElement", SubElements(m) \cup Semantic(m))

(* emit_lbd with the topology enabled; its sub-elements come from the       *)
(* relations first.                                                         *)
Lbd(m) ==
    Core(m) \cup DirectSubElements(m)
    \cup UNION { Said(m, kind, Semantic(m)) : kind \in CoreKinds \ {"hasSubElement"} }

(* emit_lbd as the hosts call it, with the topology disabled: containment   *)
(* as the relations state it, with the parts of roofs, stairs and railings, *)
(* and with the members, railings and flights of a storey's spaces.         *)
Closure(m, e) ==
    IF m.class[e] \in {"IFCROOF", "IFCSTAIR", "IFCRAILING"}
    THEN Reached({ <<x.source, x.target>> : x \in SubElements(m) }, {e}, Cardinality(Ids(m)))
    ELSE {e}
Known(m) == { c \in m.contained : c[1] \in Elements(m) /\ c[2] \in SpatialNodes(m) }
SpaceElements(m, s) ==
    { c[1] : c \in { x \in m.contained : x[2] = s } } \cup { b.target : b \in { x \in Bounding(m) : x.source = s } }
SpacesOf(m, storey) ==
    { c \in UNION { a[2] : a \in { x \in m.aggregates : x[1] = storey } } : c \in Ids(m) /\ m.kind[c] = "space" }
Fallback(m) ==
    Core(m)
    \cup (UNION { { <<"containsElement", Object(m, c[2]), Object(m, e)>> : e \in Closure(m, c[1]) } : c \in Known(m) })
    \cup UNION { UNION { { <<"containsElement", Object(m, st), Object(m, e)>>
                           : e \in { x \in SpaceElements(m, s) \cap Elements(m) :
                                         m.class[x] \in {"IFCMEMBER", "IFCRAILING", "IFCSTAIRFLIGHT"} } }
                         : s \in SpacesOf(m, st) }
                 : st \in { x \in Ids(m) : m.kind[x] = "storey" } }
-----------------------------------------------------------------------------
(* Ids are numbers of the file; GUIDs tell objects apart (two objects of    *)
(* one GUID share their IRI); containedIn keeps one of the relations an     *)
(* element has.                                                             *)
IsModel(m) ==
    /\ Ids(m) \subseteq Nat /\ IsFiniteSet(Ids(m))
    /\ \A i, j \in Ids(m) : m.guid[i] = m.guid[j] => i = j
    /\ \A e \in DOMAIN m.containedIn : <<e, m.containedIn[e]>> \in m.contained

(* The wholes an element is part of: the least set that has its parents and *)
(* the parents of each of its members.                                      *)
Wholes(m, e) ==
    { w \in Elements(m) :
        \A S \in SUBSET Elements(m) :
            Followed(PartOf(Semantic(m)), S \cup {e}) \subseteq S => w \in S }

(* What is known of a zone and an element, strongest source first: the      *)
(* authored boundary, their own meshes, the parts of the element.           *)
Own(m, outcome, z, e) ==
    LET p == IF z < e THEN <<z, e>> ELSE <<e, z>> IN
    IF Edge(z, "adjacentElement", e) \in Bounding(m) THEN {"adjacentElement"}
    ELSE IF outcome[p] \in {"touching", "intersecting"} THEN {EdgeKind(outcome[p])} ELSE {}
Evidence(m, outcome, z, e) ==
    LET ofParts == UNION { Own(m, outcome, z, d) : d \in { x \in Elements(m) : e \in Wholes(m, x) } } IN
    IF Own(m, outcome, z, e) # {} THEN Own(m, outcome, z, e)
    ELSE IF "intersectingElement" \in ofParts THEN {"intersectingElement"} ELSE ofParts

(* BOT declares adjacency and intersection disjoint: each zone and element  *)
(* are related by the strongest evidence there is, and by that only         *)
(* (the comments at plugin-topology-full 733-736 and 766-770).              *)
ConsistentBot(m, outcome) ==
    \A z \in ZoneLike(m) : \A e \in Elements(m) :
        { k \in {"adjacentElement", "intersectingElement"} :
              <<k, Object(m, z), Object(m, e)>> \in ExtendedBot(m, outcome) } = Evidence(m, outcome, z, e)

(* The two paths that emit the topology say the same, and the hosts' call   *)
(* of emit_lbd, which leaves the topology out, loses no containment.        *)
AgreeingPaths(m) ==
    /\ Lbd(m) = BasicBot(m)
    /\ Said(m, "containsElement", Semantic(m)) \subseteq Fallback(m)
=============================================================================
