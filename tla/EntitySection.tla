--------------------------- MODULE EntitySection ---------------------------
(* The part of a fragments file that is not geometry (fragments-core and    *)
(* the geometry producer): which entities it lists and in which order, what *)
(* it says of each, their relations and the spatial tree.                   *)
(*                                                                          *)
(* A file is a record: entities, a sequence of                              *)
(*   [ id, kind, name, args, units ] in ascending order of id, the kind     *)
(*     being element, spatial, units (an assignment) or other, an argument  *)
(*     being [ attr, kind, refs ] with its kind one of null, ref, refs,     *)
(*     scalar, scalars, derived, empty (a list of nothing) and mixed (a     *)
(*     list of references and other values);                                *)
(*   rels, the relations in the order of the file: [ name, one, many ];     *)
(*   shuffle, the order in which the map of spatial nodes is walked.        *)
(* How a value is printed, what the name table calls an argument, and the   *)
(* header data (schema, names, root GUID, largest id) are left out.         *)
EXTENDS Integers, Sequences, FiniteSets, SequencesExt

Least(S) == CHOOSE x \in S : \A y \in S : x <= y
IdsOf(entities) == [ i \in DOMAIN entities |-> entities[i].id ]
EntityOf(file, id) == file.entities[CHOOSE i \in DOMAIN file.entities : file.entities[i].id = id]
OfKind(file, kind) == SelectSeq(file.entities, LAMBDA e : e.kind = kind)
Opening(e) == e.name = "IFCOPENINGELEMENT"
Aggregates(file) == SelectSeq(file.rels, LAMBDA r : r.name = "IFCRELAGGREGATES")
Containment(file) == SelectSeq(file.rels, LAMBDA r : r.name = "IFCRELCONTAINEDINSPATIALSTRUCTURE")

(* ----- collect_serialized_entity_ids and its two helpers ----------------- *)
RECURSIVE SpatialDepth(_, _)
ParentRel(file, id) == { i \in DOMAIN file.rels : file.rels[i].name = "IFCRELAGGREGATES" /\ id \in Range(file.rels[i].many) }
SpatialDepth(file, id) ==
    IF ParentRel(file, id) = {} THEN 0
    ELSE 1 + SpatialDepth(file, file.rels[Least(ParentRel(file, id))].one)
(* The deepest first, equals in the order of the map.                       *)
ByDepth(file) ==
    SetToSortSeq(DOMAIN file.shuffle,
                 LAMBDA i, j : \/ SpatialDepth(file, file.shuffle[i]) > SpatialDepth(file, file.shuffle[j])
                               \/ SpatialDepth(file, file.shuffle[i]) = SpatialDepth(file, file.shuffle[j]) /\ i < j)
SpatialIds(file) == [ k \in DOMAIN ByDepth(file) |-> file.shuffle[ByDepth(file)[k]] ]
(* Of the names that end in TYPE one stands for all.                        *)
ShouldSerialize(name) ==
    name \in {"IFCWALLTYPE", "IFCPROPERTYSET", "IFCPROPERTYSINGLEVALUE", "IFCELEMENTQUANTITY",
              "IFCQUANTITYAREA", "IFCQUANTITYCOUNT", "IFCQUANTITYLENGTH", "IFCQUANTITYNUMBER", "IFCQUANTITYTIME",
              "IFCQUANTITYVOLUME", "IFCQUANTITYWEIGHT", "IFCMATERIAL", "IFCMATERIALLIST", "IFCMATERIALCONSTITUENT",
              "IFCMATERIALCONSTITUENTSET", "IFCMATERIALLAYER", "IFCMATERIALLAYERSET", "IFCMATERIALLAYERSETUSAGE",
              "IFCMATERIALPROFILE", "IFCMATERIALPROFILESET", "IFCMATERIALPROFILESETUSAGE", "IFCNAMEDUNIT",
              "IFCDERIVEDUNIT", "IFCMONETARYUNIT"}
Known(file, ids) == SelectSeq(ids, LAMBDA id : \E e \in Range(file.entities) : e.id = id)
RECURSIVE PushUnique(_, _)
PushUnique(ids, more) ==
    IF more = <<>> THEN ids
    ELSE PushUnique(IF Head(more) \in Range(ids) THEN ids ELSE Append(ids, Head(more)), Tail(more))
UnitIds(file) ==
    FlattenSeq([ i \in DOMAIN OfKind(file, "units") |-> <<OfKind(file, "units")[i].id>> \o OfKind(file, "units")[i].units ])
Shown(file) == IdsOf(SelectSeq(file.entities, LAMBDA e : e.kind = "element" /\ ~Opening(e)))
Semantic(file) == IdsOf(SelectSeq(file.entities, LAMBDA e : ShouldSerialize(e.name)))
SerializedIds(file) ==
    PushUnique(<<>>, Known(file, UnitIds(file) \o SpatialIds(file) \o Shown(file) \o Semantic(file)))
(* Stripped mode: elements and spatial nodes by id.                         *)
StrippedIds(file) ==
    IdsOf(SelectSeq(file.entities, LAMBDA e : e.kind = "spatial" \/ (e.kind = "element" /\ ~Opening(e))))
LocalIds(file, mode) == IF mode = "full" THEN SerializedIds(file) ELSE StrippedIds(file)

(* ----- entity_resource_iri: what links a shown object to its triples ------ *)
RootTypes == {"IFCPROPERTYSET", "IFCELEMENTQUANTITY", "IFCWALLTYPE"}
ResourceOf(e, mode) ==
    CASE e.kind \in {"spatial", "element"} -> <<"iri", e.id>>
      [] e.kind = "other" /\ e.name \in RootTypes /\ mode = "full" -> <<"guid", e.id>>
      [] OTHER -> <<>>
Resources(file, mode) ==
    { <<id, ResourceOf(EntityOf(file, id), mode)>> : id \in Range(LocalIds(file, mode)) } \ { <<id, <<>>>> : id \in Range(LocalIds(file, mode)) }

(* ----- collect_entity_attributes, build_relations: inline references ------ *)
Excluded(attr) ==
    attr \in {"GlobalId", "Representation", "ObjectPlacement", "CompositionType", "OwnerHistory", "Elevation", "RefElevation"}
IsAttribute(a) == ~Excluded(a.attr) /\ a.kind \in {"scalar", "scalars"}
IsRelation(a) ==
    /\ ~Excluded(a.attr)
    /\ a.kind \in {"ref", "refs"} \/ (a.kind = "derived" /\ a.attr = "Dimensions")
Computed(e) ==
    CASE e.name = "IFCSITE" -> {"RefElevation"} [] e.name = "IFCBUILDINGSTOREY" -> {"Elevation"} [] OTHER -> {}
AttributesOf(e) == { a.attr : a \in { b \in Range(e.args) : IsAttribute(b) } } \cup Computed(e)
Targets(a) == IF a.kind = "derived" THEN <<0>> ELSE a.refs
Inline(file, ids) ==
    UNION { { <<id, a.attr, Targets(a)>> : a \in { b \in Range(EntityOf(file, id).args) : IsRelation(b) } } : id \in Range(ids) }

(* ----- build_relations: the five relations, told to both sides ----------- *)
Names(name) ==
    CASE name = "IFCRELAGGREGATES" -> <<"IsDecomposedBy", "Decomposes">>
      [] name = "IFCRELDEFINESBYPROPERTIES" -> <<"DefinesOccurrence", "IsDefinedBy">>
      [] name = "IFCRELDEFINESBYTYPE" -> <<"ObjectTypeOf", "IsTypedBy">>
      [] name = "IFCRELASSOCIATESMATERIAL" -> <<"AssociatedTo", "HasAssociations">>
      [] name = "IFCRELCONTAINEDINSPATIALSTRUCTURE" -> <<"ContainsElements", "ContainedInStructure">>
      [] OTHER -> <<>>
(* Mutation: the two sides of a relation change places.                     *)
ToldBackwards(r) ==
    IF Names(r.name) = <<>> \/ r.many = <<>> THEN {}
    ELSE {<<r.one, Names(r.name)[2], r.many>>} \cup { <<id, Names(r.name)[1], <<r.one>>>> : id \in Range(r.many) }
Told(r) ==
    IF Names(r.name) = <<>> \/ r.many = <<>> THEN {}
    ELSE {<<r.one, Names(r.name)[1], r.many>>} \cup { <<id, Names(r.name)[2], <<r.one>>>> : id \in Range(r.many) }
Relations(file, ids) == Inline(file, ids) \cup UNION { Told(r) : r \in Range(file.rels) }

(* ----- build_spatial_structure: from the first root, contained last ------ *)
RECURSIVE Node(_, _)
Under(rels, id) == FlattenSeq([ i \in DOMAIN rels |-> IF rels[i].one = id THEN rels[i].many ELSE <<>> ])
Leaves(ids) == [ i \in DOMAIN ids |-> [ id |-> ids[i], below |-> <<>> ] ]
Nodes(file, ids) == [ i \in DOMAIN ids |-> Node(file, ids[i]) ]
Node(file, id) ==
    [ id |-> id, below |-> Nodes(file, Under(Aggregates(file), id)) \o Leaves(Under(Containment(file), id)) ]
Roots(file) == SelectSeq(file.shuffle, LAMBDA id : ParentRel(file, id) = {})
Tree(file) == IF Roots(file) = <<>> THEN <<>> ELSE << Node(file, Head(Roots(file))) >>

(* ----- the section -------------------------------------------------------- *)
Section(file, mode) ==
    [ localIds |-> LocalIds(file, mode), resources |-> Resources(file, mode),
      categories |-> [ i \in DOMAIN LocalIds(file, mode) |-> EntityOf(file, LocalIds(file, mode)[i]).name ],
      attributes |-> [ i \in DOMAIN LocalIds(file, mode) |->
                         IF mode = "full" THEN AttributesOf(EntityOf(file, LocalIds(file, mode)[i])) ELSE {} ],
      relations |-> IF mode = "full" THEN Relations(file, LocalIds(file, mode)) ELSE {},
      tree |-> IF mode = "full" THEN Tree(file) ELSE <<>> ]

(* The relations told of spatial nodes and the tree are two accounts of one *)
(* structure, made from different data (the arguments of the STEP entities  *)
(* and the model's relations): in a file with one root, what a node         *)
(* decomposes into or contains is what stands below it in the tree, and     *)
(* each is told whom it stands under (build_relations,                      *)
(* build_spatial_structure).                                                *)
RECURSIVE Edges(_)
Edges(node) == UNION { {<<node.id, node.below[i].id>>} \cup Edges(node.below[i]) : i \in DOMAIN node.below }
Below(section, id) ==
    UNION { Range(r[3]) : r \in { x \in section.relations : x[1] = id /\ x[2] \in {"IsDecomposedBy", "ContainsElements"} } }
Above(section, id) ==
    UNION { Range(r[3]) : r \in { x \in section.relations : x[1] = id /\ x[2] \in {"Decomposes", "ContainedInStructure"} } }
TreeIsTold(file, section) ==
    \A tree \in Range(section.tree) :
       /\ \A id \in Range(file.shuffle) : Below(section, id) = { e[2] : e \in { x \in Edges(tree) : x[1] = id } }
       /\ \A e \in Edges(tree) : e[1] \in Above(section, e[2])

(* No entity is listed twice, or the indices of the geometry would shift    *)
(* (push_unique, stripped_entity_ids).                                      *)
ListedOnce(section) == Len(section.localIds) = Cardinality(Range(section.localIds))
SectionAgrees(file, mode) ==
    \A section \in {Section(file, mode)} : TreeIsTold(file, section) /\ ListedOnce(section)
=============================================================================
