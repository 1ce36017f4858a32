----------------------------- MODULE RmlMapping -----------------------------
(* From a mapping document to the terms its generators make (rml-mapper-lib: *)
(* conformer, mapping, termgenerator, records).  A mapping is a set of       *)
(* triples <<subject, <<namespace, name>>, object>>; namespaces are "new"    *)
(* (W3C RML), "rml" (the old one), "rr" (R2RML) and "fnml".  A node is       *)
(* <<kind, text>>.  The text of a template is a sequence, its place names in *)
(* order; every other text is a sequence of one word.                        *)
EXTENDS Naturals, Sequences, FiniteSets, SequencesExt

CONSTANTS
    Iris          \* the texts NamedNode::new accepts: they have a colon, no blank

(* ----- MappingConformer ------------------------------------------------- *)
OldNames == { "iterator", "logicalSource", "reference", "referenceFormulation",
              "source", "query", "subjectMap", "predicateObjectMap",
              "predicateMap", "objectMap", "graphMap", "languageMap", "parentTermMap" }
R2rmlNames == { "class", "constant", "datatype", "graph", "graphMap", "language",
                "object", "objectMap", "predicate", "predicateMap",
                "predicateObjectMap", "subject", "subjectMap", "template", "termType",
                "joinCondition", "parent", "child", "parentTriplesMap", "column" }

RenamedPartly(p) ==
    CASE p = <<"rr", "column">> -> <<"new", "reference">>
      [] p[1] = "rml" /\ p[2] \in OldNames -> <<"new", p[2]>>
      [] p[1] = "rr" /\ p[2] \in R2rmlNames \ {"child", "parent", "column"} -> <<"new", p[2]>>
      [] OTHER -> p

Renamed(p) ==
    CASE p = <<"rr", "column">> -> <<"new", "reference">>
      [] p = <<"rml", "query">> -> <<"new", "iterator">>
      [] p[1] = "rml" /\ p[2] \in OldNames \ {"query"} -> <<"new", p[2]>>
      [] p[1] = "rr" /\ p[2] \in R2rmlNames \ {"column"} -> <<"new", p[2]>>
      [] OTHER -> p

(* An R2RML logical table becomes a logical source of its own name, which   *)
(* has a formulation and an iterator but, without database options, no      *)
(* source.                                                                  *)
TableSource(t) == <<"iri", t[1][2] \o <<"source">> >>
Tables(g) == { t \in g : t[2] = <<"rr", "logicalTable">> }
FromTables(g) ==
    UNION { { <<t[1], <<"new", "logicalSource">>, TableSource(t)>> } \cup
            UNION { { <<TableSource(t), <<"new", "iterator">>, u[3]>>,
                      <<TableSource(t), <<"new", "referenceFormulation">>, <<"iri", <<"RDB">> >> >> } :
                    u \in { v \in g : v[1] = t[3] /\ v[2] \in {<<"rr", "tableName">>, <<"rr", "sqlQuery">>} } } :
            t \in Tables(g) }

Conform(g) ==
    { <<t[1], Renamed(t[2]), t[3]>> : t \in (g \ Tables(g)) \cup FromTables(g) }

(* ----- MappingFactory --------------------------------------------------- *)
Objects(g, s, names) ==
    { t[3] : t \in { u \in g : u[1] = s /\ u[2][1] \in {"new", "rr"} /\ u[2][2] \in names } }
Only(S) == CHOOSE x \in S : TRUE
First(S, default) == IF S = {} THEN default ELSE Only(S)

TriplesMaps(g) == { t[1] : t \in { u \in g : u[2] \in {<<"new", "logicalSource">>, <<"rr", "logicalSource">>} } }

Generator(type, from, node, g) ==
    [ type |-> type, from |-> from, text |-> node[2],
      language |-> type = "literal" /\ Objects(g, node, {"language"}) # {},
      datatype |-> type = "literal" /\ Objects(g, node, {"datatype"}) # {} ]

(* create_term_generator: the first of these that is stated, and only the   *)
(* first is looked at; a subject map that states none is its own constant.  *)
Tried == << <<"new", "constant">>, <<"rr", "constant">>, <<"new", "template">>,
            <<"rr", "template">>, <<"new", "reference">>, <<"rr", "reference">> >>
Stated(g, node, p) == { t[3] : t \in { u \in g : u[1] = node /\ u[2] = p } }
Sources(g, node) == { i \in DOMAIN Tried : Stated(g, node, Tried[i]) # {} }
Chosen(g, node) == Tried[CHOOSE i \in Sources(g, node) : \A j \in Sources(g, node) : i <= j]
TermMap(g, node, type) ==
    IF Sources(g, node) = {} THEN Generator(type, "constant", node, {})
    ELSE LET from == Chosen(g, node)
         IN  [ Generator(type, from[2], node, IF from[2] = "constant" THEN {} ELSE g)
               EXCEPT !.text = Only(Stated(g, node, from))[2] ]
Shortcut(node) ==
    Generator(IF node[1] = "iri" THEN "iri" ELSE node[1], "constant", node, {})
TypeOf(g, node, default) == First(Objects(g, node, {"termType"}), <<"", default>>)[2]

Subject(g, m) ==
    IF Objects(g, m, {"subjectMap"}) # {}
    THEN LET node == Only(Objects(g, m, {"subjectMap"})) IN TermMap(g, node, TypeOf(g, node, "iri"))
    ELSE [ Shortcut(Only(Objects(g, m, {"subject"}))) EXCEPT !.type = "iri" ]
(* child and parent are looked up in the namespace of their condition.      *)
Conditions(g, node) == { t \in g : t[1] = node /\ t[2] \in {<<"new", "joinCondition">>, <<"rr", "joinCondition">>} }
Side(g, t, name) == { u[3] : u \in { v \in g : v[1] = t[3] /\ v[2] = <<t[2][1], name>> } }
JoinOf(g, node) ==
    [ parent |-> Only(Objects(g, node, {"parentTriplesMap"})),
      on |-> { <<Only(Side(g, t, "child"))[2], Only(Side(g, t, "parent"))[2]>> :
               t \in Conditions(g, node) } ]
IsJoin(g, node) == Objects(g, node, {"parentTriplesMap"}) # {}
ObjectNodes(g, pom) == Objects(g, pom, {"objectMap"})

PredicateObject(g, pom) ==
    [ predicates |-> { TermMap(g, n, "iri") : n \in Objects(g, pom, {"predicateMap"}) }
                     \cup { Shortcut(n) : n \in { o \in Objects(g, pom, {"predicate"}) : o[1] = "iri" } },
      objects |-> { TermMap(g, n, TypeOf(g, n, "literal")) :
                    n \in { o \in ObjectNodes(g, pom) : ~ IsJoin(g, o) } }
                  \cup { Shortcut(n) : n \in Objects(g, pom, {"object"}) },
      joins |-> { JoinOf(g, n) : n \in { o \in ObjectNodes(g, pom) : IsJoin(g, o) } } ]

TriplesMap(g, m) ==
    LET source == Only(Objects(g, m, {"logicalSource"})) IN
    [ id |-> m,
      source |-> Only(Objects(g, source, {"source"}))[2],
      subject |-> Subject(g, m),
      classes |-> UNION { { c[2] : c \in { o \in Objects(g, n, {"class"}) : o[1] = "iri" } } :
                          n \in Objects(g, m, {"subjectMap"}) },
      poms |-> { PredicateObject(g, pom) : pom \in Objects(g, m, {"predicateObjectMap"}) } ]

Document(g) == { TriplesMap(g, m) : m \in TriplesMaps(g) }

(* What conform and create_mapping refuse: functions, two values where one  *)
(* is looked at, a template without a place.                                *)
Unclear(g, node, name) ==
    LET first == Stated(g, node, <<"new", name>>)
    IN  Cardinality(IF first # {} THEN first ELSE Stated(g, node, <<"rr", name>>)) > 1
HasGenerator(g, node, type, subject) ==
    /\ Stated(g, node, <<"fnml", "functionValue">>) = {}
    /\ IF Sources(g, node) = {} THEN subject /\ node[1] = "iri"
       ELSE LET from == Chosen(g, node)
                text == Stated(g, node, from)
            IN  /\ Cardinality(text) = 1
                /\ from[2] = "template" => Only(text)[2] # <<>>
                /\ from[2] # "constant" /\ type = "literal" =>
                       \A name \in {"language", "datatype"} : ~ Unclear(g, node, name)

Accepted(g) ==
    /\ { t \in g : t[2] = <<"new", "logicalSource">> } # {}
    /\ \A m \in TriplesMaps(g) :
        LET one(s, name) == Cardinality(Objects(g, s, {name})) = 1
            subjects == Objects(g, m, {"subjectMap"})
        IN  /\ \/ subjects # {}
               \/ <<m, <<"new", "logicalSource">>, Only(Objects(g, m, {"logicalSource"}))>> \notin g
            /\ one(m, "logicalSource")
            /\ \A s \in Objects(g, m, {"logicalSource"}) :
                  one(s, "source") /\ one(s, "referenceFormulation")
            /\ IF subjects # {} THEN Cardinality(subjects) = 1 /\ \A n \in subjects : HasGenerator(g, n, TypeOf(g, n, "iri"), TRUE)
               ELSE one(m, "subject")
            /\ \A pom \in Objects(g, m, {"predicateObjectMap"}) :
                  /\ Objects(g, pom, {"predicateMap", "predicate"}) # {}
                  /\ \A n \in Objects(g, pom, {"predicateMap"}) : HasGenerator(g, n, "iri", FALSE)
                  /\ Objects(g, pom, {"objectMap", "object"}) # {}
                  /\ \A n \in ObjectNodes(g, pom) :
                        IF IsJoin(g, n)
                        THEN \A t \in Conditions(g, n) : \A side \in {"child", "parent"} :
                                 Cardinality(Side(g, t, side)) = 1
                        ELSE HasGenerator(g, n, TypeOf(g, n, "literal"), FALSE)

(* ----- terms ------------------------------------------------------------ *)
(* A record maps a field to the sequence of its values: <<>> for an empty   *)
(* cell, one for text, several for an array.                                *)
Fillings(record, fields) ==
    { [ i \in DOMAIN fields |-> c[i] ] :
        c \in { d \in [ DOMAIN fields -> UNION { Range(record[f]) : f \in DOMAIN record } ] :
                \A i \in DOMAIN fields : d[i] \in Range(record[fields[i]]) } }

(* The values of a generator; none means that it fails on this record: a    *)
(* field that is absent or empty is an error, not a term left out.          *)
Extracted(gen, record) ==
    CASE gen.from = "constant" -> {gen.text}
      [] gen.from # "constant" /\ \E f \in Range(gen.text) : f \notin DOMAIN record -> {}
      [] OTHER -> Fillings(record, gen.text)

Values(gen, record) ==
    IF gen.type # "iri" THEN Extracted(gen, record)
    ELSE { v \in Extracted(gen, record) : gen.from = "template" \/ v \in Iris }

Iri(text) == [ kind |-> "iri", text |-> text, from |-> <<>>, tag |-> "plain" ]
RdfType == Iri(<<"type">>)

Terms(gen, record) ==
    { [ kind |-> gen.type, text |-> v, from |-> IF gen.from = "template" THEN gen.text ELSE <<>>,
        tag |-> IF gen.language THEN "langString" ELSE IF gen.datatype THEN "typed" ELSE "plain" ] :
      v \in Values(gen, record) }
=============================================================================
