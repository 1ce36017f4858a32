---------------------------- MODULE GeometryFile ----------------------------
(* From tessellated products to the file of the geometry producer: the      *)
(* meshes as ifc-geometry arranges them, the fragments, glTF and Parquet    *)
(* files, and the hash that tells a changed geometry.                       *)
(*                                                                          *)
(* Space is a plane of integer points (a unit is the quantum of the hashes) *)
(* and a transform a quarter turn and a shift.  A product is an entity with *)
(*   placement, decodes, and subs, the meshes of the geometry library:      *)
(*   [ item, key, own, mesh ], the item or material it was made from, the   *)
(*   identity of the definition (0: none), its transform in the product and *)
(*   a mesh [ points, triangles ] in the space of its definition.           *)
(* Styles are trees [ colour, styles ].  Indices start at 1.                *)
EXTENDS EntitySection, TLC

(* ----- transforms --------------------------------------------------------- *)
Shift(p) == [ turn |-> 0, by |-> p ]
Origin == <<0, 0>>
Identity == Shift(Origin)
Plus(p, q) == <<p[1] + q[1], p[2] + q[2]>>
Minus(p, q) == <<p[1] - q[1], p[2] - q[2]>>
Turned(p, turn) == << p, <<-p[2], p[1]>>, <<-p[1], -p[2]>>, <<p[2], -p[1]>> >>[turn + 1]
Apply(m, p) == Plus(Turned(p, m.turn), m.by)
Mul(a, b) == [ turn |-> (a.turn + b.turn) % 4, by |-> Apply(a, b.by) ]
Inverted(m) == [ turn |-> (4 - m.turn) % 4, by |-> Turned(Minus(Origin, m.by), (4 - m.turn) % 4) ]
Moved(m, points) == [ i \in DOMAIN points |-> Apply(m, points[i]) ]
(* A y-up rotation, as IFC_TO_GLTF turns z up.                              *)
IfcToGltf == [ turn |-> 3, by |-> Origin ]

(* ----- build_color_map and the styles it resolves ------------------------ *)
RECURSIVE StyleColour(_)
FirstOf(colours) == IF SelectSeq(colours, LAMBDA c : c # "") = <<>> THEN "" ELSE SelectSeq(colours, LAMBDA c : c # "")[1]
StyleColour(style) ==
    IF style.styles = <<>> THEN style.colour
    ELSE FirstOf([ i \in DOMAIN style.styles |-> StyleColour(style.styles[i]) ])
StylesColour(styles) == FirstOf([ i \in DOMAIN styles |-> StyleColour(styles[i]) ])
Colours(list, target) ==
    LET hits == SelectSeq(list, LAMBDA s : s.target = target)
    IN  SelectSeq([ i \in DOMAIN hits |-> StylesColour(hits[i].styles) ], LAMBDA c : c # "")
(* The last styled item wins, then the first representation of a material.  *)
ColourFor(x, target) ==
    CASE Colours(x.styled, target) # <<>> -> Last(Colours(x.styled, target))
      [] Colours(x.styled, target) = <<>> /\ Colours(x.materials, target) # <<>> -> Head(Colours(x.materials, target))
      [] OTHER -> "grey"

(* ----- the geometry preprocessor and tessellate_chunk -------------------- *)
IsCandidate(e) == (e.kind = "element" /\ ~Opening(e)) \/ (e.kind = "spatial" /\ e.name # "IFCPROJECT")
Candidates(x) == SelectSeq(x.entities, LAMBDA e : IsCandidate(e))
Instance(x, e, i) ==
    [ key |-> e.subs[i].key, mesh |-> e.subs[i].mesh, colour |-> ColourFor(x, e.subs[i].item),
      world |-> Mul(e.placement, e.subs[1].own),
      local |-> IF i = 1 THEN Identity ELSE Mul(Inverted(e.subs[1].own), e.subs[i].own) ]
Geometries(x, e) ==
    IF e.decodes THEN SelectSeq([ i \in DOMAIN e.subs |-> Instance(x, e, i) ], LAMBDA g : g.mesh.points # <<>>) ELSE <<>>
FlatMesh(x, e) == [ id |-> e.id, category |-> e.name, geometries |-> Geometries(x, e) ]
FlatMeshes(x, candidates) ==
    SelectSeq([ i \in DOMAIN candidates |-> FlatMesh(x, candidates[i]) ], LAMBDA f : f.geometries # <<>>)
Meshes(x) == FlatMeshes(x, Candidates(x))

(* ----- world_bounding_boxes ---------------------------------------------- *)
MinCorner(points) == [ k \in 1..2 |-> Least({ p[k] : p \in points }) ]
MaxCorner(points) == [ k \in 1..2 |-> -Least({ -p[k] : p \in points }) ]
WorldPoints(flat) == UNION { Range(Moved(Mul(g.world, g.local), g.mesh.points)) : g \in Range(flat.geometries) }
WorldBox(flat) == <<MinCorner(WorldPoints(flat)), MaxCorner(WorldPoints(flat))>>

(* ----- build_meshes: tables without duplicates, and samples over them ---- *)
Offset(mesh) == IF mesh.points = <<>> THEN Origin ELSE MinCorner(Range(mesh.points))
(* What hash_ifc_mesh hashes, taken for its hash.                           *)
Relative(mesh) ==
    [ points |-> [ i \in DOMAIN mesh.points |-> Minus(mesh.points[i], Offset(mesh)) ], triangles |-> mesh.triangles ]
(* get_raw_shell_data: points met in triangles, welded; one profile each.   *)
RECURSIVE Welded(_, _)
Welded(points, more) ==
    IF more = <<>> THEN points
    ELSE Welded(IF Head(more) \in Range(points) THEN points ELSE Append(points, Head(more)), Tail(more))
PlaceIn(table, value) == CHOOSE i \in DOMAIN table : table[i] = value
Corners(mesh) == FlattenSeq([ i \in DOMAIN mesh.triangles |-> [ k \in 1..3 |-> mesh.points[mesh.triangles[i][k]] ] ])
ShellOver(mesh, points) ==
    [ points |-> points,
      profiles |-> [ i \in DOMAIN mesh.triangles |-> [ k \in 1..3 |-> PlaceIn(points, mesh.points[mesh.triangles[i][k]]) ] ] ]
Shell(mesh) == ShellOver(mesh, Welded(<<>>, Corners(mesh)))

Interned(table, value) == IF value \in Range(table) THEN table ELSE Append(table, value)
NoTables ==
    [ shells |-> <<>>, keys |-> [ k \in {} |-> 0 ], materials |-> <<>>, locals |-> <<Identity>>,
      globals |-> <<>>, items |-> <<>>, samples |-> <<>> ]
(* Mutation: the offset of the shell is not put back.                       *)
KeptPlace(geometry) == geometry.local
LocalPlace(geometry) == Mul(geometry.local, Shift(Offset(geometry.mesh)))
KeyFor(tables, geometry, shell) ==
    IF geometry.key = 0 \/ geometry.key \in DOMAIN tables.keys THEN tables.keys
    ELSE tables.keys @@ (geometry.key :> PlaceIn(tables.shells, shell))
Prepared(tables, geometry, place) ==
    [ tables EXCEPT !.materials = Interned(@, geometry.colour), !.locals = Interned(@, place),
                    !.shells = IF geometry.key \in DOMAIN tables.keys THEN @ ELSE Interned(@, Relative(geometry.mesh)) ]
WithKey(tables, geometry) == [ tables EXCEPT !.keys = KeyFor(tables, geometry, Relative(geometry.mesh)) ]
ShellFor(tables, geometry) ==
    IF geometry.key # 0 THEN tables.keys[geometry.key] ELSE PlaceIn(tables.shells, Relative(geometry.mesh))
Sampled(tables, geometry, item, place) ==
    [ tables EXCEPT !.samples = Append(@, [ item |-> item, material |-> PlaceIn(tables.materials, geometry.colour),
                                            shell |-> ShellFor(tables, geometry), local |-> PlaceIn(tables.locals, place) ]) ]
AddGeometry(tables, geometry, item, place) ==
    Sampled(WithKey(Prepared(tables, geometry, place), geometry), geometry, item, place)
RECURSIVE AddGeometries(_, _, _)
AddGeometries(tables, geometries, item) ==
    IF geometries = <<>> THEN tables
    ELSE AddGeometries(AddGeometry(tables, Head(geometries), item, LocalPlace(Head(geometries))), Tail(geometries), item)
StartItem(tables, flat, ids) ==
    [ tables EXCEPT !.globals = Append(@, flat.geometries[1].world), !.items = Append(@, PlaceIn(ids, flat.id)) ]
RECURSIVE AddMeshes(_, _, _)
AddMeshes(tables, meshes, ids) ==
    IF meshes = <<>> THEN tables
    ELSE AddMeshes(AddGeometries(StartItem(tables, Head(meshes), ids), Head(meshes).geometries, Len(tables.items) + 1),
                   Tail(meshes), ids)
Listed(meshes, ids) == \A flat \in Range(meshes) : flat.id \in Range(ids)
Fragments(x, mode) ==
    [ section |-> Section(x, mode), missing |-> ~Listed(Meshes(x), LocalIds(x, mode)),
      tables |-> IF Listed(Meshes(x), LocalIds(x, mode)) THEN AddMeshes(NoTables, Meshes(x), LocalIds(x, mode)) ELSE NoTables ]

(* ----- one list of vertices: the glTF and the Parquet writer -------------- *)
Baked(view, geometries) ==
    FlattenSeq([ i \in DOMAIN geometries |-> Moved(Mul(view, Mul(geometries[i].world, geometries[i].local)), geometries[i].mesh.points) ])
VerticesBefore(geometries, i) == Len(FlattenSeq([ k \in 1..(i - 1) |-> geometries[k].mesh.points ]))
Rebased(triangles, base) == [ i \in DOMAIN triangles |-> [ k \in 1..3 |-> triangles[i][k] + base ] ]
Indexed(geometries, base) ==
    FlattenSeq([ i \in DOMAIN geometries |-> Rebased(geometries[i].mesh.triangles, base + VerticesBefore(geometries, i)) ])
GltfMesh(flat) ==
    [ name |-> <<"iri", flat.id>>, colour |-> flat.geometries[1].colour,
      positions |-> Baked(IfcToGltf, flat.geometries), indices |-> Indexed(flat.geometries, 0) ]
GltfMeshes(meshes) ==
    SelectSeq([ i \in DOMAIN meshes |-> GltfMesh(meshes[i]) ], LAMBDA m : m.indices # <<>>)
NoRows == [ vertices |-> <<>>, indices |-> <<>>, entries |-> <<>> ]
Entry(rows, flat, vertices, indices) ==
    [ id |-> flat.id, category |-> flat.category, vertexStart |-> Len(rows.vertices), vertexCount |-> Len(vertices),
      indexStart |-> Len(rows.indices), indexCount |-> Len(indices) ]
WithRows(rows, flat, vertices, indices) ==
    [ vertices |-> rows.vertices \o vertices, indices |-> rows.indices \o indices,
      entries |-> Append(rows.entries, Entry(rows, flat, vertices, indices)) ]
RECURSIVE AddRows(_, _)
AddRows(rows, meshes) ==
    IF meshes = <<>> THEN rows
    ELSE AddRows(WithRows(rows, Head(meshes), Baked(Identity, Head(meshes).geometries),
                          Indexed(Head(meshes).geometries, Len(rows.vertices))), Tail(meshes))
ParquetType(name) ==
    CASE name = "IFCRELAGGREGATES" -> "IsDecomposedBy"
      [] name = "IFCRELCONTAINEDINSPATIALSTRUCTURE" -> "ContainsElements"
      [] name = "IFCRELDEFINESBYPROPERTIES" -> "IsDefinedBy"
      [] OTHER -> ""
RelationshipRows(file) ==
    UNION { { <<r.one, id, ParquetType(r.name)>> : id \in Range(r.many) } : r \in { s \in Range(file.rels) : ParquetType(s.name) # "" } }
IsMember(e) ==
    e.name \in {"IFCPROPERTYSINGLEVALUE", "IFCQUANTITYAREA", "IFCQUANTITYCOUNT", "IFCQUANTITYLENGTH", "IFCQUANTITYNUMBER",
                "IFCQUANTITYTIME", "IFCQUANTITYVOLUME", "IFCQUANTITYWEIGHT"}
Members(file, set) ==
    { e.id : e \in { m \in Range(file.entities) : IsMember(m) /\ \E a \in Range(set.args) :
                        a.attr \in {"HasProperties", "Quantities"} /\ m.id \in Range(a.refs) } }
RowsOfSet(file, set, r) == { <<id, set.id, p>> : id \in Range(r.many), p \in Members(file, set) }
SetRows(file) ==
    UNION { UNION { RowsOfSet(file, e, r) : r \in { s \in Range(file.rels) : s.name = "IFCRELDEFINESBYPROPERTIES" /\ s.one = e.id } }
            : e \in { s \in Range(file.entities) : s.name \in {"IFCPROPERTYSET", "IFCELEMENTQUANTITY"} } }
Parquet(x, mode) ==
    [ rows |-> AddRows(NoRows, Meshes(x)), categories |-> (mode = "full"),
      relationships |-> IF mode = "full" THEN RelationshipRows(x) ELSE {}, sets |-> IF mode = "full" THEN SetRows(x) ELSE {} ]

(* ----- stable_element_geometry_hashes ------------------------------------ *)
(* A hash is taken for what is fed into it, so equal means the same bytes.  *)
PartHash(geometry) == <<geometry.mesh, geometry.local>>
PartHashes(geometries) ==
    [ h \in { PartHash(g) : g \in Range(geometries) } |-> Cardinality({ i \in DOMAIN geometries : PartHash(geometries[i]) = h }) ]
(* Mutation: where the element stands is not fed.                           *)
HashOfParts(flat) == <<Identity, PartHashes(flat.geometries)>>
ElementHash(flat) == <<flat.geometries[1].world, PartHashes(flat.geometries)>>

(* ----- what a reader makes of the files ----------------------------------- *)
Triangles(m, points, triangles) ==
    [ i \in DOMAIN triangles |-> [ k \in 1..3 |-> Apply(m, points[triangles[i][k]]) ] ]
FromSample(f, t, s) ==
    << f.section.localIds[t.items[s.item]], t.materials[s.material],
       Triangles(Mul(t.globals[s.item], t.locals[s.local]), t.shells[s.shell].points, t.shells[s.shell].profiles) >>
ReadFragments(f) ==
    [ i \in DOMAIN f.tables.samples |->
        FromSample(f, [ f.tables EXCEPT !.shells = [ k \in DOMAIN @ |-> Shell(@[k]) ] ], f.tables.samples[i]) ]
ReadGltf(meshes) ==
    [ i \in DOMAIN meshes |->
        << meshes[i].name, meshes[i].colour, Triangles(Inverted(IfcToGltf), meshes[i].positions, meshes[i].indices) >> ]
ReadEntry(rows, e) ==
    << e.id, Triangles(Identity, rows.vertices, SubSeq(rows.indices, e.indexStart + 1, e.indexStart + e.indexCount)) >>
ReadParquet(rows) == [ i \in DOMAIN rows.entries |-> ReadEntry(rows, rows.entries[i]) ]

(* What the model says: every mesh of a product where its own transform and *)
(* the product's placement put it.                                          *)
Solid(e) == SelectSeq(e.subs, LAMBDA s : s.mesh.points # <<>>)
Products(x) == SelectSeq(x.entities, LAMBDA e : IsCandidate(e) /\ e.decodes /\ Solid(e) # <<>>)
Placed(e, s) == Triangles(Mul(e.placement, s.own), s.mesh.points, s.mesh.triangles)
PlacedPoints(e) == UNION { Range(Moved(Mul(e.placement, s.own), s.mesh.points)) : s \in Range(Solid(e)) }
Samples(x, e) == [ i \in DOMAIN Solid(e) |-> <<e.id, ColourFor(x, Solid(e)[i].item), Placed(e, Solid(e)[i])>> ]
Whole(e) == FlattenSeq([ i \in DOMAIN Solid(e) |-> Placed(e, Solid(e)[i]) ])

(* Whatever tables share, a reader of the fragments file sees each mesh of  *)
(* each product in its place and colour and finds the product it belongs    *)
(* to; a reader of the other two formats sees the same triangles (glTF in   *)
(* the colour of the first mesh), and the boxes the converter writes are    *)
(* those of what is seen.  Parquet tables and fragments tell the same       *)
(* relations (build_meshes, gltf_writer, parquet_writer,                    *)
(* compute_world_bounding_boxes).                                           *)
FragmentsShow(x, f) ==
    /\ ~f.missing
    /\ ReadFragments(f) = FlattenSeq([ i \in DOMAIN Products(x) |-> Samples(x, Products(x)[i]) ])
    /\ \A i \in Range(f.tables.items) :
          /\ <<f.section.localIds[i], <<"iri", f.section.localIds[i]>>>> \in f.section.resources
          /\ f.section.categories[i] = EntityOf(x, f.section.localIds[i]).name
OthersShow(x, products) ==
    /\ ReadGltf(GltfMeshes(Meshes(x))) =
          SelectSeq([ i \in DOMAIN products |-> << <<"iri", products[i].id>>, Samples(x, products[i])[1][2], Whole(products[i])>> ],
                    LAMBDA m : m[3] # <<>>)
    /\ ReadParquet(Parquet(x, "full").rows) = [ i \in DOMAIN products |-> <<products[i].id, Whole(products[i])>> ]
    /\ \A i \in DOMAIN products : WorldBox(Meshes(x)[i]) = <<MinCorner(PlacedPoints(products[i])), MaxCorner(PlacedPoints(products[i]))>>
Pairs(relations, name) == UNION { { <<r[1], id>> : id \in Range(r[3]) } : r \in { q \in relations : q[2] = name } }
PairsInRows(rows, name) == { <<r[1], r[2]>> : r \in { q \in rows : q[3] = name } }
TablesAgree(relations, tables) ==
    /\ \A n \in { <<"IsDecomposedBy", "IsDecomposedBy">>, <<"ContainsElements", "ContainsElements">>, <<"DefinesOccurrence", "IsDefinedBy">> } :
          Pairs(relations, n[1]) = PairsInRows(tables.relationships, n[2])
    /\ \A row \in tables.sets : <<row[2], row[1], "IsDefinedBy">> \in tables.relationships
ViewerSeesModel(x, mode) ==
    /\ FragmentsShow(x, Fragments(x, mode))
    /\ OthersShow(x, Products(x))
    /\ TablesAgree(Relations(x, LocalIds(x, "full")), Parquet(x, "full"))

(* Two elements, or two revisions of one, whose hashes agree look the same  *)
(* in the world; and the order of the meshes after the first is not seen    *)
(* (stable_element_geometry_hashes).                                        *)
SameBag(s, t) ==
    \A v \in Range(s) \cup Range(t) :
       Cardinality({ i \in DOMAIN s : s[i] = v }) = Cardinality({ i \in DOMAIN t : t[i] = v })
HashTellsChanges(x) ==
    \A i, j \in DOMAIN Meshes(x) :
       /\ ElementHash(Meshes(x)[i]) = ElementHash(Meshes(x)[j]) => SameBag(Whole(Products(x)[i]), Whole(Products(x)[j]))
       /\ \A a \in {Products(x)[i]}, b \in {Products(x)[j]} :
             a.placement = b.placement /\ Head(a.subs) = Head(b.subs) /\ SameBag(Tail(a.subs), Tail(b.subs))
                => ElementHash(Meshes(x)[i]) = ElementHash(Meshes(x)[j])
=============================================================================
