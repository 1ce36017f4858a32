------------------------------ MODULE IfcModel ------------------------------
(* The model built from a STEP file (ifc-model): each entity is classified  *)
(* into a partial model, the partial models are merged in the order the     *)
(* hash map and the worker threads happen to give, and the sets of          *)
(* properties and quantities are attached to the objects.                   *)
(*                                                                          *)
(* An entity is [id, kind, guid, name, refs, to]: refs is the list of       *)
(* references and `to` the single one of a relation, 0 where it is missing; *)
(* guid and name are "" where the argument is not a string.                 *)
EXTENDS Naturals, Sequences, FiniteSets, Functions

(* ----- classify_entity and the parsers: what is kept --------------------- *)
(* A spatial node without a GUID gets an empty one; an element or a set     *)
(* without one is dropped, and so is a relation without its single end.     *)
Kept(e) ==
    CASE e.kind = "spatial" -> TRUE
      [] e.kind \in {"element", "pset", "qset"} -> e.guid # ""
      [] e.kind \in {"definesProperties", "definesType", "contained"} -> e.to # 0
      [] OTHER -> FALSE
Parsed(file, kind) == { e \in Range(file) : e.kind = kind /\ Kept(e) }
IdsOf(file, kind) == { e.id : e \in Parsed(file, kind) }
Entity(file, id) == CHOOSE e \in Range(file) : e.id = id

(* ----- PartialModelBuild::merge: of equal keys the later one wins -------- *)
LaterWins(f, g) == [ k \in DOMAIN f \cup DOMAIN g |-> IF k \in DOMAIN g THEN g[k] ELSE f[k] ]
ContainedIn(file) ==
    LET merged[i \in 0..Len(file)] ==
            IF i = 0 THEN [ k \in {} |-> 0 ]
            ELSE IF file[i] \in Parsed(file, "contained")
                 THEN LaterWins(merged[i - 1], [ e \in Range(file[i].refs) |-> file[i].to ])
                 ELSE merged[i - 1]
    IN  merged[Len(file)]

(* ----- build_model: the sets of an object -------------------------------- *)
(* `of` is "pset" or "qset": the two kinds of sets are treated alike.       *)
OwnSets(file, of) ==
    LET objects == UNION { Range(r.refs) : r \in Parsed(file, "definesProperties") }
    IN  [ o \in objects |-> { r.to : r \in { x \in Parsed(file, "definesProperties") :
                                                 o \in Range(x.refs) /\ x.to \in IdsOf(file, of) } } ]
SetsOf(attached, o) == IF o \in DOMAIN attached THEN attached[o] ELSE {}
NamesOf(file, sets) == { Entity(file, s).name : s \in sets } \ {""}

(* referenced_property_definitions: every set the type refers to, anywhere. *)
TypeSets(file, type) ==
    IF \E e \in Range(file) : e.id = type
    THEN Range(Entity(file, type).refs) \cap (IdsOf(file, "pset") \cup IdsOf(file, "qset"))
    ELSE {}

(* The type's sets are defaults: one named like a set of the occurrence is  *)
(* not attached.  The names are those before the type's sets are added.     *)
Inherit(file, of, attached, r) ==
    LET unshadowed(o) ==
            { s \in TypeSets(file, r.to) \cap IdsOf(file, of) :
                  Entity(file, s).name \notin NamesOf(file, SetsOf(attached, o)) }
    IN  [ o \in DOMAIN attached \cup Range(r.refs) |->
            SetsOf(attached, o) \cup (IF o \in Range(r.refs) THEN unshadowed(o) ELSE {}) ]

(* Mutation: one pass over the relations in the order of the file.          *)
OnePass(file, of) ==
    LET attach(attached, r) ==
            [ o \in DOMAIN attached \cup Range(r.refs) |->
                SetsOf(attached, o) \cup (IF o \in Range(r.refs) /\ r.to \in IdsOf(file, of) THEN {r.to} ELSE {}) ]
        attached[i \in 0..Len(file)] ==
            IF i = 0 THEN [ k \in {} |-> {} ]
            ELSE IF file[i] \in Parsed(file, "definesProperties") THEN attach(attached[i - 1], file[i])
            ELSE IF file[i] \in Parsed(file, "definesType") THEN Inherit(file, of, attached[i - 1], file[i])
            ELSE attached[i - 1]
    IN  attached[Len(file)]
(* The occurrences' own sets first, then the types' in the relations' order. *)
Attached(file, of) ==
    LET attached[i \in 0..Len(file)] ==
            IF i = 0 THEN OwnSets(file, of)
            ELSE IF file[i] \in Parsed(file, "definesType") THEN Inherit(file, of, attached[i - 1], file[i])
            ELSE attached[i - 1]
    IN  attached[Len(file)]

-----------------------------------------------------------------------------
(* The entities of a file are told apart by their ids.                      *)
IsFile(file) ==
    /\ file \in Seq(Range(file))
    /\ \A i, j \in DOMAIN file : file[i].id = file[j].id => i = j

(* Whatever the order of the entities, an object of one type has its own    *)
(* sets and those sets of its type that no own set of the same kind shadows *)
(* (the comment at ifc-model lib.rs 371-378), ...                           *)
TypesOf(file, o) == { r \in Parsed(file, "definesType") : o \in Range(r.refs) }
Expected(file, of, o) ==
    LET own == SetsOf(OwnSets(file, of), o)
        types == { r.to : r \in TypesOf(file, o) }
        defaults == { e \in Range(file) : e.kind = of /\ e.guid # ""
                        /\ \E t \in types : \E x \in Range(file) : x.id = t /\ e.id \in Range(x.refs) }
    IN  own \cup { e.id : e \in { d \in defaults : d.name = "" \/ \A s \in own : Entity(file, s).name # d.name } }
(* ... and is contained in a structure that claims it.                      *)
InheritedSets(file) ==
    /\ \A of \in {"pset", "qset"} : \A o \in IdsOf(file, "element") \cup IdsOf(file, "spatial") :
          Cardinality(TypesOf(file, o)) <= 1 => SetsOf(Attached(file, of), o) = Expected(file, of, o)
    /\ \A e \in IdsOf(file, "element") :
          { r \in Parsed(file, "contained") : e \in Range(r.refs) } # {} =>
             \E r \in Parsed(file, "contained") : e \in Range(r.refs) /\ r.to = ContainedIn(file)[e]
=============================================================================
