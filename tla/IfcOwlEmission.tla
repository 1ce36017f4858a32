--------------------------- MODULE IfcOwlEmission ---------------------------
(* The ifcOWL graph (lbd-converter lib.rs IfcOwlEmitter, modules/ifcowl.rs): *)
(* every entity of the STEP file with all its arguments, by one worker or   *)
(* by several, each with its own share of the entities, its own numbers for *)
(* new nodes and its own cache of scalar nodes.                             *)
(*                                                                          *)
(* An entity is [id, class, args], an argument [pred, range, value]: what   *)
(* the tables of the schema say of it.  A class is <<name, depth>>, depth 1 *)
(* for name_List.  A value is [kind, ...]: "ref" to, "scalar" type text,    *)
(* "enum" text, "null", "list" items, "typed" name value.                   *)
EXTENDS Integers, Sequences, FiniteSets, Functions, SequencesExt, TLC

NoRange == <<"", 0>>
IsListClass(class) == class[2] > 0
Compound == <<"IfcCompoundPlaneAngleMeasure", 0>>

(* A node is named after its class and a number, or its entity and one.     *)
Node(class, of, n) == [ class |-> class, of |-> of, n |-> n ]
Iri(node) == [ iri |-> <<node>>, literal |-> <<>> ]
Literal(type, text) == [ iri |-> <<>>, literal |-> <<type, text>> ]
EntityNode(e) == Node(<<e.class, 0>>, 0, e.id)

(* What one emitter holds; `triples` is sent after each entity.             *)
Emitter(start) == [ triples |-> {}, counter |-> start, cache |-> <<>>, entity |-> 0, local |-> 0 ]
Put(em, s, p, o) == [ em EXCEPT !.triples = @ \cup {<<s, p, o>>} ]
Result(em, object) == [ em |-> em, object |-> object ]
Push(r, s, p) == IF r.object = <<>> THEN r.em ELSE Put(r.em, s, p, r.object[1])

(* ----- scalars: emit_scalar_value, emit_scalar_resource, cache_value ----- *)
Type(range, v) == IF v.type = "boolean" /\ range[1] \in {"LOGICAL", "IfcLogical"} THEN "logical" ELSE v.type
(* The class is part of the key of a string, not of a number's or of a      *)
(* boolean's, where only logicals are told apart.                           *)
CacheKey(range, v) == << Type(range, v), v.text, IF v.type = "string" THEN range[1] ELSE "" >>
ScalarResource(em, range, v) ==
    LET key == CacheKey(range, v)
        node == Node(range, 0, em.counter + 1)
        named == [ em EXCEPT !.counter = @ + 1, !.cache = key :> node @@ @ ]
    IN  IF key \in DOMAIN em.cache THEN Result(em, << Iri(em.cache[key]) >>)
        ELSE Result(Put(Put(named, node, "a", Iri(Node(range, 0, 0))), node, "has", Literal(Type(range, v), v.text)), << Iri(node) >>)
Scalar(em, mode, range, v) ==
    IF range = NoRange THEN Result(em, <<>>)
    ELSE IF mode = "projected" THEN Result(em, << Literal(Type(range, v), v.text) >>)
    ELSE ScalarResource(em, range, v)

(* ----- lists: infer_list_class_name, resolve_list_shape ------------------ *)
RECURSIVE Inferred(_)
Inferred(items) ==
    LET first == items[1]
    IN  CASE items = <<>> -> NoRange
          [] first.kind = "scalar" -> << CASE first.type = "string" -> "IfcLabel" [] first.type = "integer" -> "IfcInteger"
                                           [] first.type = "double" -> "IfcReal" [] OTHER -> "IfcBoolean", 1 >>
          [] first.kind = "typed" -> << first.name, 1 >>
          [] first.kind = "list" -> IF Inferred(first.items) = NoRange THEN NoRange
                                    ELSE << Inferred(first.items)[1], Inferred(first.items)[2] + 1 >>
          [] OTHER -> << "IfcValue", 1 >>
ListClass(range, items) ==
    IF range # NoRange THEN range ELSE IF Inferred(items) # NoRange THEN Inferred(items) ELSE << "IfcValue", 1 >>
ItemRange(class) ==
    IF class = Compound THEN << "INTEGER", 0 >> ELSE IF class[2] > 0 THEN << class[1], class[2] - 1 >> ELSE NoRange

(* ----- emit_value, emit_typed_value, emit_list --------------------------- *)
(* The nodes of a list are named before its items; those of an angle after  *)
(* their entity.                                                            *)
ListNode(em, class, i) == IF class = Compound THEN Node(class, em.entity, em.local + i - 1) ELSE Node(class, 0, em.counter + i)
Named(em, class, n) == IF class = Compound THEN [ em EXCEPT !.local = @ + n ] ELSE [ em EXCEPT !.counter = @ + n ]
RECURSIVE Value(_, _, _, _, _)
ListFull(em, file, class, items) ==
    LET node(i) == ListNode(em, class, i)
        item(acc, i) ==
            LET typed == Put(acc, node(i), "a", Iri(Node(class, 0, 0)))
                filled == Push(Value(typed, file, "full", ItemRange(class), items[i]), node(i), "hasContents")
            IN  IF i < Len(items) THEN Put(filled, node(i), "hasNext", Iri(node(i + 1))) ELSE filled
    IN  Result(FoldLeft(item, Named(em, class, Len(items)), [ i \in DOMAIN items |-> i ]), << Iri(node(1)) >>)
ListProjected(em, file, class, items) ==
    LET container == Node(class, 0, em.counter + 1)
        item(acc, i) == Push(Value(acc, file, "projected", ItemRange(class), items[i]), container, "_" \o ToString(i))
    IN  Result(FoldLeft(item, Put([ em EXCEPT !.counter = @ + 1 ], container, "a", Iri(Node(<<"Seq", 0>>, 0, 0))),
                        [ i \in DOMAIN items |-> i ]), << Iri(container) >>)
List(em, file, mode, range, items) ==
    CASE items = <<>> -> Result(em, <<>>)
      [] mode = "full" -> ListFull(em, file, ListClass(range, items), items)
      [] OTHER -> ListProjected(em, file, ListClass(range, items), items)
Value(em, file, mode, range, v) ==
    CASE v.kind = "ref" -> Result(em, IF \E e \in ToSet(file) : e.id = v.to
                                      THEN << Iri(EntityNode(CHOOSE e \in ToSet(file) : e.id = v.to)) >> ELSE <<>>)
      [] v.kind = "scalar" -> Scalar(em, mode, range, v)
      [] v.kind = "enum" -> Result(em, << Iri(Node(<<v.text, 0>>, 0, 0)) >>)
      [] v.kind = "null" -> Result(em, <<>>)
      [] v.kind = "list" -> List(em, file, mode, range, v.items)
      [] v.kind = "typed" ->
             IF v.value.kind \in {"scalar", "list"} THEN Value(em, file, mode, << v.name, 0 >>, v.value)
             ELSE Value(em, file, mode, IF range # NoRange THEN range ELSE << v.name, 0 >>, v.value)

(* ----- emit_predicate_value ---------------------------------------------- *)
Inline(pred) == IF pred = "coordinates" THEN << "coordinateX", "coordinateY", "coordinateZ" >> ELSE <<>>
Each(em, file, mode, s, preds, ranges, items) ==
    FoldLeft(LAMBDA acc, i : Push(Value(acc, file, mode, ranges[i], items[i]), s, preds[i]), em,
             [ i \in 1..(IF Len(preds) < Len(items) THEN Len(preds) ELSE Len(items)) |-> i ])
Predicate(em, file, mode, s, arg) ==
    LET items == IF arg.value.kind = "list" THEN arg.value.items ELSE <<>>
        kinds == { items[i].kind : i \in DOMAIN items }
        all(x) == [ i \in DOMAIN items |-> x ]
        item == ItemRange(ListClass(arg.range, items))
    IN  IF arg.value.kind # "list" THEN Push(Value(em, file, mode, arg.range, arg.value), s, arg.pred)
        ELSE IF mode = "projected" /\ Inline(arg.pred) # <<>>
             THEN Each(em, file, mode, s, Inline(arg.pred), all(item), items)
        ELSE IF mode = "projected" /\ ~IsListClass(arg.range) /\ "list" \notin kinds
             THEN Each(em, file, mode, s, all(arg.pred), all(arg.range), items)
        ELSE IF ~IsListClass(arg.range) /\ kinds \subseteq {"ref", "typed"}
             THEN Each(em, file, mode, s, all(arg.pred),
                       [ i \in DOMAIN items |-> IF items[i].kind = "ref" THEN arg.range ELSE NoRange ], items)
        ELSE Push(Value(em, file, mode, arg.range, arg.value), s, arg.pred)

(* ----- emit_entity, convert_ifcowl, stream_ifcowl ------------------------ *)
EmitEntity(em, file, mode, e) ==
    FoldLeft(LAMBDA acc, arg : Predicate(acc, file, mode, EntityNode(e), arg),
             Put([ em EXCEPT !.entity = e.id, !.local = 0 ], EntityNode(e), "a", Iri(Node(<<e.class, 0>>, 0, 0))), e.args)
Header == << Node(<<"base", 0>>, 0, 0), "a", Iri(Node(<<"Ontology", 0>>, 0, 0)) >>
Work(file, mode, chunk, start) ==
    FoldLeft(LAMBDA em, e : EmitEntity(em, file, mode, e), Emitter(start), chunk).triples

(* The code's stride is 10^9: no worker makes as many nodes.                *)
Stride == 1000
LastId(file) == CHOOSE n \in { e.id : e \in ToSet(file) } : \A e \in ToSet(file) : e.id <= n
(* Mutation: the workers' numbers start alike.                              *)
StartAlike(file, i) == LastId(file)
Start(file, i) == LastId(file) + i * Stride
Chunks(file, workers) ==
    LET size == (Len(file) + workers - 1) \div workers
    IN  [ i \in 1..((Len(file) + size - 1) \div size) |->
            SubSeq(file, (i - 1) * size + 1, IF i * size < Len(file) THEN i * size ELSE Len(file)) ]
StreamIfcOwl(file, mode, workers) ==
    (IF mode = "full" THEN {Header} ELSE {})
    \cup (IF workers <= 1 THEN Work(file, mode, file, LastId(file))
          ELSE UNION { Work(file, mode, Chunks(file, workers)[i], Start(file, i)) : i \in DOMAIN Chunks(file, workers) })
-----------------------------------------------------------------------------
(* What a graph says of a node: every way from it to an entity, an          *)
(* individual or a literal.  The class of a scalar that is no string is left *)
(* out: it is the one under which the worker met the number or the boolean  *)
(* first (BOOLEAN and IfcBoolean share a node, LOGICAL and IfcLogical).     *)
Leaf(class, n, text) == [ class |-> class, n |-> n, text |-> text ]
KeyHasNoClass(G, node) == \E t \in G : t[1] = node /\ t[2] = "has" /\ t[3].literal[1] # "string"
RECURSIVE Ways(_, _, _, _)
Ways(G, file, node, depth) ==
    IF depth = 0 THEN {}
    ELSE UNION { LET o == t[3]
                 IN  IF o.literal # <<>> THEN { [ steps |-> <<t[2]>>, leaf |-> Leaf(<<o.literal[1], 0>>, 0, o.literal[2]) ] }
                     ELSE IF o.iri[1].of = 0 /\ o.iri[1].n \in { e.id : e \in ToSet(file) } \cup {0}
                     THEN { [ steps |-> <<t[2]>>, leaf |-> Leaf(o.iri[1].class, o.iri[1].n, "") ] }
                     ELSE { [ w EXCEPT !.steps = <<t[2]>> \o @ ] : w \in Ways(G, file, o.iri[1], depth - 1) }
                 : t \in { x \in G : x[1] = node /\ ~(x[2] = "a" /\ KeyHasNoClass(G, node)) } }
Depth == 8
(* What the graph says of an entity does not depend on the other entities   *)
(* nor on how many workers share the file: no node stands for two values,   *)
(* whatever is cached (ifcowl.rs 104-105, lib.rs 1498-1505 and 1583-1598);  *)
(* but for the classes of numbers and booleans, which do depend on both.    *)
EntitiesStandAlone(file, mode, workers) ==
    LET G == StreamIfcOwl(file, mode, workers)
    IN  \A e \in ToSet(file) :
            Ways(G, file, EntityNode(e), Depth) = Ways(Work(file, mode, <<e>>, LastId(file)), file, EntityNode(e), Depth)
=============================================================================
