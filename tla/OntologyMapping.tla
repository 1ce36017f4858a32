--------------------------- MODULE OntologyMapping --------------------------
(* The ontology mapper (ontology-mapper-producer) and the reasoner under it *)
(* (owl-reasoner).  A document is the sequence of its triples <<s, p, o>>,  *)
(* an object is <<kind, text>> with kind "iri", "blank" or "literal"; the   *)
(* converter's triples are a set.  A class expression is a record; the      *)
(* fields an operator does not use are empty.                               *)
EXTENDS Naturals, Sequences, FiniteSets, SequencesExt

CONSTANT BlankNodes   \* the texts that name blank nodes

Thing == "owl:Thing"
Node(op, name, parts, value, n) ==
    [ op |-> op, name |-> name, parts |-> parts, value |-> value, n |-> n ]
Named(iri) == Node("named", iri, <<>>, <<"", "">>, 0)

(* ----- parser: blank nodes to expressions ------------------------------- *)
Objects(doc, s, p) == { t[3] : t \in { u \in Range(doc) : u[1] = s /\ u[2] = p } }
Only(S) == CHOOSE x \in S : TRUE
(* A list property has one value per node; of several others the last counts. *)
LastObject(doc, s, p) ==
    doc[CHOOSE i \in DOMAIN doc : doc[i][1] = s /\ doc[i][2] = p
            /\ \A j \in DOMAIN doc : doc[j][1] = s /\ doc[j][2] = p => j <= i][3]
Has(doc, s, p) == Objects(doc, s, p) # {}

RECURSIVE List(_, _)
List(doc, o) ==
    IF o = <<"iri", "rdf:nil">> THEN <<>>
    ELSE <<LastObject(doc, o[2], "rdf:first")>> \o List(doc, LastObject(doc, o[2], "rdf:rest"))

Kinds == {"someValuesFrom", "allValuesFrom", "hasValue", "cardinality", "minCardinality", "maxCardinality"}
Count(text) == CASE text = "0" -> 0 [] text = "1" -> 1 [] OTHER -> 2

(* Intersection before union before complement before restriction; of       *)
(* several restriction kinds on one node the last one counts.               *)
RECURSIVE Expression(_, _)
Expression(doc, o) ==
    LET b == o[2]
        parts(p) == LET l == List(doc, LastObject(doc, b, p))
                    IN  [ i \in DOMAIN l |-> Expression(doc, l[i]) ]
        last == CHOOSE i \in DOMAIN doc : doc[i][1] = b /\ doc[i][2] \in Kinds
                    /\ \A j \in DOMAIN doc : doc[j][1] = b /\ doc[j][2] \in Kinds => j <= i
        kind == doc[last][2]
        value == doc[last][3]
        property == LastObject(doc, b, "onProperty")[2]
    IN  CASE o[1] = "iri" -> Named(b)
          [] o[1] = "blank" /\ Has(doc, b, "intersectionOf") ->
                Node("and", "", parts("intersectionOf"), <<"", "">>, 0)
          [] o[1] = "blank" /\ ~ Has(doc, b, "intersectionOf") /\ Has(doc, b, "unionOf") ->
                Node("or", "", parts("unionOf"), <<"", "">>, 0)
          [] o[1] = "blank" /\ ~ Has(doc, b, "intersectionOf") /\ ~ Has(doc, b, "unionOf")
             /\ Has(doc, b, "complementOf") ->
                Node("not", "", <<Expression(doc, LastObject(doc, b, "complementOf"))>>, <<"", "">>, 0)
          [] OTHER ->
                CASE kind \in {"someValuesFrom", "allValuesFrom"} ->
                        Node(kind, property, <<Expression(doc, value)>>, <<"", "">>, 0)
                  [] kind = "hasValue" ->
                        Node(kind, property, <<>>, <<IF value[1] = "blank" THEN "iri" ELSE value[1], value[2]>>, 0)
                  [] OTHER -> Node(kind, property, <<>>, <<"", "">>, Count(value[2]))

(* What parse_expression refuses: the rule is skipped with a warning.       *)
RECURSIVE Parses(_, _)
RECURSIVE ParsesList(_, _)
ParsesList(doc, o) ==
    \/ o = <<"iri", "rdf:nil">>
    \/ /\ o[1] = "blank"
       /\ Has(doc, o[2], "rdf:first") /\ Has(doc, o[2], "rdf:rest")
       /\ Parses(doc, LastObject(doc, o[2], "rdf:first"))
       /\ ParsesList(doc, LastObject(doc, o[2], "rdf:rest"))
Parses(doc, o) ==
    LET b == o[2]
        restriction ==
            /\ <<"iri", "owl:Restriction">> \in Objects(doc, b, "rdf:type")
            /\ Has(doc, b, "onProperty") /\ \A p \in Objects(doc, b, "onProperty") : p[1] = "iri"
            /\ \E k \in Kinds : Has(doc, b, k)
            /\ \A k \in {"someValuesFrom", "allValuesFrom"} : \A v \in Objects(doc, b, k) : Parses(doc, v)
            /\ \A k \in {"cardinality", "minCardinality", "maxCardinality"} :
                  \A v \in Objects(doc, b, k) : v[1] = "literal" /\ v[2] \in {"0", "1", "2"}
    IN  \/ o[1] = "iri"
        \/ /\ o[1] = "blank"
           /\ IF Has(doc, b, "intersectionOf") THEN ParsesList(doc, LastObject(doc, b, "intersectionOf"))
              ELSE IF Has(doc, b, "unionOf") THEN ParsesList(doc, LastObject(doc, b, "unionOf"))
              ELSE IF Has(doc, b, "complementOf") THEN Parses(doc, LastObject(doc, b, "complementOf"))
              ELSE restriction

RulesOf(doc) ==
    { [ class |-> t[1], condition |-> Expression(doc, t[3]) ] :
        t \in { u \in Range(doc) : u[1] \notin BlankNodes /\ u[2] = "equivalentClass"
                                   /\ u[3][1] = "blank" /\ Parses(doc, u[3]) } }

(* ----- index and evaluator ---------------------------------------------- *)
Values(g, s, p) == { t[3] : t \in { u \in g : u[1] = s /\ u[2] = p } }
HasType(g, s, class) == <<"iri", class>> \in Values(g, s, "rdf:type")
Subjects(g) == { t[1] : t \in g }
IsThing(e) == e.op = "named" /\ e.name = Thing

RECURSIVE Evaluate(_, _, _)
Evaluate(g, s, e) ==
    LET values == Values(g, s, e.name)
        holds(o) == IF o[1] = "iri" THEN Evaluate(g, o[2], e.parts[1]) ELSE FALSE
    IN  CASE e.op = "named" -> e.name = Thing \/ HasType(g, s, e.name)
          [] e.op = "and" -> \A i \in DOMAIN e.parts : Evaluate(g, s, e.parts[i])
          [] e.op = "or" -> \E i \in DOMAIN e.parts : Evaluate(g, s, e.parts[i])
          [] e.op = "not" -> ~ Evaluate(g, s, e.parts[1])
          [] e.op = "someValuesFrom" -> \E o \in values : holds(o)
          [] e.op = "allValuesFrom" -> \A o \in values : holds(o)
          [] e.op = "hasValue" -> e.value \in values
          [] e.op = "cardinality" -> Cardinality(values) = e.n
          [] e.op = "minCardinality" -> Cardinality(values) >= e.n
          [] e.op = "maxCardinality" -> Cardinality(values) <= e.n

MustHaveProperty(op) == op \in {"someValuesFrom", "hasValue", "allValuesFrom"}
NeedsProperty(op) == op \in {"someValuesFrom", "hasValue"}

(* candidate_subjects: the subjects that are looked at for a rule.          *)
RECURSIVE Candidates(_, _)
Candidates(g, e) ==
    CASE e.op = "named" -> { s \in Subjects(g) : e.name = Thing \/ HasType(g, s, e.name) }
      [] e.op = "and" -> { s \in Subjects(g) : e.parts # <<>>
                            /\ \A i \in DOMAIN e.parts : s \in Candidates(g, e.parts[i]) }
      [] e.op = "or" -> { s \in Subjects(g) : \E i \in DOMAIN e.parts : s \in Candidates(g, e.parts[i]) }
      [] e.op = "not" -> Subjects(g)
      [] OTHER -> { s \in Subjects(g) :
                    NeedsProperty(e.op) =>
                        \E o \in Values(g, s, e.name) :
                            e.op = "someValuesFrom" /\ IsThing(e.parts[1]) => o[1] = "iri" }

Inferred(rules, g) ==
    UNION { { <<s, "rdf:type", <<"iri", r.class>> >> :
              s \in { c \in Candidates(g, r.condition) : Evaluate(g, c, r.condition) } } : r \in rules } \ g

(* ----- the renaming tables ---------------------------------------------- *)
Equivalent(kind) == IF kind = "class" THEN "equivalentClass" ELSE "equivalentProperty"
Sub(kind) == IF kind = "class" THEN "subClassOf" ELSE "subPropertyOf"

(* The pairs in the order they are pushed: per axiom, then the alignment    *)
(* cells, then the reverse of a sub axiom whose parent has one child.       *)
AxiomPairs(doc, kind) ==
    FoldLeft(LAMBDA pairs, t :
        IF t[3][1] # "iri" THEN pairs
        ELSE IF t[2] = Equivalent(kind) THEN pairs \o << <<t[1], t[3][2]>>, <<t[3][2], t[1]>> >>
        ELSE IF t[2] = Sub(kind) THEN Append(pairs, <<t[1], t[3][2]>>) ELSE pairs, <<>>, doc)
CellPairs(doc, kind) ==
    IF kind = "class" THEN <<>>
    ELSE LET cells == { c \in { t[1] : t \in Range(doc) } : Has(doc, c, "entity1") /\ Has(doc, c, "entity2") }
             both == { <<Only(Objects(doc, c, "entity1"))[2], Only(Objects(doc, c, "entity2"))[2]>> : c \in cells }
         IN  SetToSeq(both \cup { <<p[2], p[1]>> : p \in both })
Children(doc, kind, parent) == { i \in DOMAIN doc : doc[i][2] = Sub(kind) /\ doc[i][3] = <<"iri", parent>> }
ReversePairs(doc, kind) ==
    SetToSeq({ <<t[3][2], t[1]>> :
        t \in { u \in Range(doc) : u[2] = Sub(kind) /\ u[3][1] = "iri"
                                   /\ Cardinality(Children(doc, kind, u[3][2])) = 1 } })
Pairs(doc, kind) == AxiomPairs(doc, kind) \o CellPairs(doc, kind) \o ReversePairs(doc, kind)

(* insert: the last pair of the alignment holds; or_insert: the first pair  *)
(* of the ontology, for names the alignment leaves alone.                   *)
Renamed(alignment, ontology, kind, x) ==
    LET a == SelectSeq(Pairs(alignment, kind), LAMBDA p : p[1] = x)
        o == SelectSeq(Pairs(ontology, kind), LAMBDA p : p[1] = x)
    IN  IF a # <<>> THEN Last(a)[2] ELSE IF o # <<>> THEN Head(o)[2] ELSE x

RenamedTriple(alignment, ontology, t) ==
    << t[1], Renamed(alignment, ontology, "property", t[2]),
       IF t[2] = "rdf:type" /\ t[3][1] = "iri"
       THEN <<"iri", Renamed(alignment, ontology, "class", t[3][2])>> ELSE t[3] >>

(* ----- apply_ontology_mapping ------------------------------------------- *)
Changed(in) ==
    { RenamedTriple(in.alignment, in.ontology, t) :
        t \in { u \in in.data : RenamedTriple(in.alignment, in.ontology, u) # u } }
Rules(in) == RulesOf(in.alignment) \cup RulesOf(in.ontology)
Apply(in) == Changed(in) \cup Inferred(Rules(in), in.data \cup Changed(in))

(* ----- property --------------------------------------------------------- *)
(* The document licenses x to become y: it says they are equivalent, that x *)
(* is under y, or that y is the one name under x.                           *)
Licensed(doc, kind, x, y) ==
    \/ \E t \in Range(doc) : t[2] = Equivalent(kind) /\ {<<x, y>>} \cap {<<t[1], t[3][2]>>, <<t[3][2], t[1]>>} # {}
    \/ \E t \in Range(doc) : t[2] = Sub(kind) /\ t[1] = x /\ t[3][2] = y
    \/ \E t \in Range(doc) : t[2] = Sub(kind) /\ t[1] = y /\ t[3][2] = x
            /\ \A u \in Range(doc) : u[2] = Sub(kind) /\ u[3][2] = x => u[1] = y
    \/ kind = "property" /\ \E c \in { t[1] : t \in Range(doc) } :
            {x, y} = { o[2] : o \in Objects(doc, c, "entity1") \cup Objects(doc, c, "entity2") }

RECURSIVE HasEmptyPart(_)
HasEmptyPart(e) ==
    \/ e.op = "and" /\ e.parts = <<>>
    \/ \E i \in DOMAIN e.parts : HasEmptyPart(e.parts[i])

(* A name becomes another one only when the alignment licenses it, or the   *)
(* ontology does and the alignment says nothing of the name; every subject  *)
(* that satisfies the condition of a rule ends up with its class, though    *)
(* only candidates are looked at, and no other subject does; what was not   *)
(* renamed is not repeated.  (An empty intersection, which holds for every  *)
(* subject and has no candidate, is left out.)                              *)
OntologyIsApplied(in) ==
    LET seen == in.data \cup Changed(in)
        added == Apply(in)
    IN  /\ \A k \in {"class", "property"} : \A x \in { t[3][2] : t \in in.data } \cup { t[2] : t \in in.data } :
              LET y == Renamed(in.alignment, in.ontology, k, x) IN
              y # x => \/ Licensed(in.alignment, k, x, y)
                       \/ Licensed(in.ontology, k, x, y) /\ \A z \in { t[1] : t \in Range(in.alignment) } :
                                                               ~ Licensed(in.alignment, k, x, z)
        /\ \A r \in Rules(in) : ~ HasEmptyPart(r.condition) =>
              \A s \in Subjects(seen) :
                  Evaluate(seen, s, r.condition) => <<s, "rdf:type", <<"iri", r.class>> >> \in in.data \cup added
        /\ \A t \in added \ Changed(in) :
              \E r \in Rules(in) : t[3][2] = r.class /\ Evaluate(seen, t[1], r.condition)
        /\ (added \ Changed(in)) \cap in.data = {}
=============================================================================
