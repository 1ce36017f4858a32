---------------------------- MODULE MCAlgorithms ----------------------------
(* One step of this module hands one input to one of the pure algorithms;   *)
(* an invariant says what that algorithm promises about it.  The inputs of  *)
(* ConversionCalls are listed here, and the algorithms of the modules that  *)
(* are no part of it added.                                                 *)
EXTENDS ConversionCalls, TLC

Ontology == INSTANCE OntologyMapping WITH BlankNodes <- {"b", "e", "l1", "l2", "n", "r"}
Step == INSTANCE StepFile
Geometry == INSTANCE GeometryFile
IfcOwl == INSTANCE IfcOwlEmission
Rdf == INSTANCE RdfText

MCScore == (<<"fir", "fire">> :> 97) @@ (<<"fir", "firs">> :> 96) @@ (<<"fir", "firm">> :> 94) @@ (<<"fir", "flat">> :> 60)
MCPlace == (<<"wall", "flat">> :> 1) @@ (<<"wall", "fire">> :> 2) @@ (<<"wall", "firm">> :> 3)
           @@ (<<"door", "firs">> :> 4) @@ (<<"common", "firs">> :> 1)
MCTable ==
    << << <<"wall", "">>, <<"Qto_Wall", "">>, <<"GrossFootprintArea", "GrossVolume", "Height", "NetVolume", "NetFootprintArea">> >>,
       << <<"slab", "">>, <<"Qto_Slab", "">>, <<"Depth", "GrossArea", "GrossVolume", "NetVolume", "Width">> >>,
       << <<"column", "">>, <<"Qto_Column", "">>, <<"GrossSurfaceArea", "Length", "NetVolume">> >> >>
MCSetName == <<"BaseQuantities", "">>

Init == topic \in CallTopics \cup {"geometry", "step", "ontology", "ifcowl", "rdf"} /\ input = <<>>

(* ----- ontology mapping ------------------------------------------------- *)
I(x) == <<"iri", x>>
B(x) == <<"blank", x>>
L(x) == <<"literal", x>>
Axioms == { <<"A", "equivalentClass", I("B")>>, <<"A", "subClassOf", I("B")>>, <<"C", "subClassOf", I("B")>>,
            <<"p", "equivalentProperty", I("q")>>, <<"p", "subPropertyOf", I("q")>>,
            <<"cell", "entity1", I("q")>>, <<"cell", "entity2", I("p")>> }
Some(b, kind, value) ==
    << <<b, "rdf:type", I("owl:Restriction")>>, <<b, "onProperty", I("p")>>, <<b, kind, value>> >>
ListOf(b, p, x, y) ==
    << <<b, p, B("l1")>>, <<"l1", "rdf:first", x>>, <<"l1", "rdf:rest", B("l2")>>,
       <<"l2", "rdf:first", y>>, <<"l2", "rdf:rest", I("rdf:nil")>> >>
Restrictions ==
    { Some("r", k, v) : k \in {"someValuesFrom", "allValuesFrom"}, v \in { I("B"), I("owl:Thing"), B("e") } }
    \cup { Some("r", "hasValue", v) : v \in { I("t"), L("1") } }
    \cup { Some("r", k, L(n)) : k \in {"cardinality", "minCardinality", "maxCardinality"}, n \in {"0", "1"} }
Conditions ==
    Restrictions
    \cup { << <<"n", "complementOf", B("r")>> >> \o r : r \in Restrictions }
    \cup { ListOf("n", p, x, B("r")) \o r : p \in {"intersectionOf", "unionOf"}, x \in { I("B"), I("A") }, r \in Restrictions }
RootOf(condition) == IF condition[1][1] = "n" THEN B("n") ELSE B("r")
RuleDocs ==
    { << <<x, "equivalentClass", RootOf(c)>>, <<"e", "complementOf", I("B")>> >> \o c : x \in {"X", "b"}, c \in Conditions }
Facts == { <<"s", "rdf:type", I("A")>>, <<"s", "p", I("t")>>, <<"s", "p", L("1")>>,
           <<"t", "rdf:type", I("B")>>, <<"t", "q", I("s")>>, <<"s", "rdf:type", I("X")>> }
SeqsUpTo(S, n) == { q \in UNION { [ 1..k -> S ] : k \in 0..n } : \A i, j \in DOMAIN q : q[i] = q[j] => i = j }
GiveOntology ==
    /\ Asked("ontology")
    /\ \/ \E a \in SeqsUpTo(Axioms, 2), o \in SeqsUpTo(Axioms, 1) :
             Give([ alignment |-> a, ontology |-> o, data |-> Facts ])
       \/ \E a \in {<<>>, << <<"A", "equivalentClass", I("B")>> >>}, o \in RuleDocs,
             d \in { x \in SUBSET Facts : Cardinality(x) = 3 } :
             Give([ alignment |-> a, ontology |-> o, data |-> d ])

(* A name is replaced only where a document licenses it and a rule adds its *)
(* class to exactly the subjects that satisfy its condition.                *)
OntologyIsApplied == Promised("ontology", Ontology!OntologyIsApplied)

(* ----- building topology ------------------------------------------------ *)
(* A storey, a space, a stair and two flights (one may fill an opening that *)
(* is not an element itself).                                               *)
BuildingKinds == <<"storey", "space", "element", "element", "element">>
BuildingClasses == <<"", "", "IFCSTAIR", "IFCSTAIRFLIGHT", "IFCDOOR">>
Aggregates == { {<<1, {2}>>, <<3, {4, 5}>>}, {<<1, {2}>>, <<3, {4}>>, <<4, {5}>>}, {<<1, {2}>>, <<3, {4}>>} }
Opening == 9
Buildings ==
    { [ kind |-> BuildingKinds, class |-> BuildingClasses, guid |-> <<3, 5, 4, 1, 2>>, aggregates |-> a,
        voids |-> (Opening :> h), fills |-> {<<Opening, 5>>}, boundaries |-> b,
        contained |-> {<<3, 1>>, <<5, 2>>, <<5, 1>>}, containedIn |-> (3 :> 1) @@ (5 :> s) ]
      : a \in Aggregates, h \in {3, Opening}, b \in { {}, {<<2, 3>>}, {<<2, 5>>} }, s \in {1, 2} }
Verdicts == {"separated", "touching", "intersecting", "contains"}
Outcomes ==
    { [ p \in { x \in (1..5) \X (1..5) : x[1] < x[2] } |->
            IF p \in DOMAIN f THEN f[p] ELSE "separated" ]
      : f \in { (<<2, 3>> :> x) @@ (<<2, 4>> :> y) @@ (<<2, 5>> :> z) @@ (<<4, 5>> :> IF x = "contains" THEN "separated" ELSE "touching")
                : x \in Verdicts, y \in Verdicts, z \in Verdicts \ {"contains"} } }
MCBuildings == { [ model |-> m, outcome |-> o ] : m \in Buildings, o \in Outcomes }

(* ----- IFC model -------------------------------------------------------- *)
Ent(id, kind, name, refs, to) ==
    [ id |-> id, kind |-> kind, guid |-> "g", name |-> name, refs |-> refs, to |-> to ]
Permutations5 == { q \in [1..5 -> 1..5] : \A i, j \in 1..5 : q[i] = q[j] => i = j }
SetKinds == {"pset", "qset"}
Files ==
    { LET e == << Ent(4, "definesProperties", "", <<1>>, 10), Ent(5, k, n, <<>>, 0), Ent(6, "definesType", "", <<1, 2>>, 20),
                  Ent(7, "contained", "", <<1>>, 2), Ent(8, "contained", "", c, 3) >>
      IN  << Ent(1, "element", "", <<>>, 0), Ent(10, "pset", "A", <<>>, 0), Ent(11, j, "A", <<>>, 0),
             Ent(20, "type", "", <<5, 11>>, 0), Ent(2, "spatial", "", <<>>, 0) >>
          \o [ i \in 1..5 |-> e[q[i]] ]
      : k \in SetKinds, n \in {"A", "B", ""}, j \in SetKinds, c \in {<<1>>, <<9>>}, q \in Permutations5 }

(* ----- properties as RDF ------------------------------------------------ *)
Value(raw, text) == [ raw |-> raw, text |-> text ]
Plain(v) == Value(v, v)
(* What the dictionary may answer: one code, two candidates or nothing.     *)
Answered(code, candidates, status, method, confidence) ==
    [ a |-> code \cup { IF status = "unmapped" THEN "CustomProperty" ELSE "DictionaryProperty" }, candidateProperty |-> candidates,
      mappingStatus |-> {status}, matchingMethod |-> {method}, matchingConfidence |-> confidence, classPropertyCode |-> {} ]
Exactly(code) == Answered({code}, {}, "mapped", "exact", {"1.0000"})
Ambiguous == Answered({}, {"Height", "Depth"}, "ambiguous", "class", {"0.9700"})
Unanswered == Answered({}, {}, "unmapped", "none", {})
Prop(name, form, values, unit) ==
    [ name |-> name, local |-> name \o "_p", form |-> form, values |-> values, unit |-> unit, match |-> Exactly("Height") ]
(* A door's height is matched otherwise than a wall's, and a name that is   *)
(* spelled otherwise may have the same local name.                          *)
Otherwise == { [ p EXCEPT !.match = a, !.name = n ]
               : p \in { Prop("H", "single", <<Plain("3")>>, u) : u \in {"", "m"} }, a \in { Ambiguous, Unanswered }, n \in {"H", "H " } }
GivenProps == { Prop("H", "single", <<Plain("3")>>, u) : u \in {"", "m", "mm"} }
         \cup { Prop("H", "single", <<v>>, "") : v \in { Plain("H"), Value(" ", ""), Value(" 3", "3"), Plain("4") } }
         \cup { Prop("E", "list", <<Plain("3"), v>>, "") : v \in { Value(" a", "a"), Plain("E"), Value(" ", "") } }
SetOf(of, name, guid, props) == [ of |-> of, name |-> name, guid |-> guid, props |-> props ]
OneSet(guid) ==
    { << SetOf("properties", n, "set" \o guid, <<p>>) >> : n \in {"W", ""}, p \in GivenProps }
    \cup { << SetOf("quantities", n, "set" \o guid, <<p>>) >> : n \in {"W", ""}, p \in { x \in GivenProps : x.form = "single" } }
TwoSets(guid) ==
    { << SetOf("properties", "W", "set" \o guid, <<p>>), SetOf(of, n, "other" \o guid, <<q>>) >>
      : p \in { x \in GivenProps : x.unit = "m" \/ x.form = "list" }, q \in { x \in GivenProps : x.form = "single" },
        of \in {"properties", "quantities"}, n \in {"W", ""} }
Attributes(kind) ==
    IF kind = "spatial"
    THEN { ("globalId" :> Plain("1")) @@ ("longName" :> Plain("7")) @@ ("description" :> Plain(d)) @@ ("elevation" :> Value("0.30000000000000004", "0.3"))
           : d \in {"", "5"} }
    ELSE { ("globalId" :> Plain("1")) @@ ("name" :> Plain("")) @@ ("overallHeight" :> Plain("3")) @@ ("treadLength" :> Value(r, "0.3"))
           : r \in {"0.3", "0.30000000000000004"} }
Kinds == { <<"spatial", "Storey">>, <<"element", "Door">>, <<"element", "StairFlight">> }
Objects(s, t, k, a, schema) ==
    << [ guid |-> "1", sets |-> s, kind |-> k[1], class |-> k[2], attrs |-> a, schema |-> schema, length |-> "m" ],
       [ guid |-> "2", sets |-> t, kind |-> "element", class |-> "Wall", attrs |-> ("globalId" :> Plain("2")), schema |-> schema, length |-> "m" ] >>
(* Each kind of object occurs with one set of properties; with all the      *)
(* others the object is a door.                                             *)
Owned ==
    { Objects(s, t, <<"element", "Door">>, x, "IFC4")
      : s \in OneSet("1") \cup TwoSets("1"), t \in { y \in OneSet("2") : y[1].of = "properties" /\ y[1].name = "W" },
        x \in { y \in Attributes("element") : y["treadLength"].raw = "0.3" } }
Attributed ==
    { Objects(<< SetOf(of, "W", "set1", <<p>>) >>, << SetOf("properties", "W", "set2", <<q>>) >>, <<"element", "Door">>, a, "IFC4")
      : p \in Otherwise, q \in GivenProps, of \in {"properties", "quantities"}, a \in { x \in Attributes("element") : x["treadLength"].raw = "0.3" } }
    \cup UNION { UNION { { Objects(s, s, k, a, schema) : s \in { << SetOf("properties", "W", "set", <<p>>) >> : p \in GivenProps } }
                    : a \in Attributes(k[1]), schema \in {"IFC2X3", "IFC4"} } : k \in Kinds }
MCProperties ==
    { [ model |-> m, order |-> [ i \in 1..2 |-> m[o[i]] ], level |-> l ]
      : m \in Owned \cup Attributed, o \in {<<1, 2>>, <<2, 1>>}, l \in {"L2", "L3"} }
(* ModulesShareNodes says something of every one of them, also of those in  *)
(* which other values are not written alike.                                *)
ASSUME MCAssumption ==
    /\ \A x \in MCProperties : \E v \in ValuesIn(x.model) : WrittenAlike(x.model, v)
    /\ \E x \in MCProperties : \E v \in ValuesIn(x.model) : ~ WrittenAlike(x.model, v)

(* ----- matching with the data dictionary -------------------------------- *)
Name(sep, words) == [ sep |-> sep, words |-> words ]
Word(w) == Name(" ", <<w>>)
Nothing == [ k \in {} |-> 0 ]
Fuzzy(enabled, scope, default) == [ enabled |-> enabled, scope |-> scope, default |-> default ]
Profile(id, props, scoped, schemas, hard, fuzzy) ==
    [ id |-> id, classes |-> Nothing, sets |-> ("own" :> Word("common")), props |-> props, scoped |-> scoped,
      schemas |-> schemas, hard |-> hard, fuzzy |-> fuzzy ]
Schemas == "2x3" :> ("std" :> Word("wall"))
StatedKey == <<"wall", "common", "fire">>
Base(props, hard) == Profile("base", props, Nothing, Schemas, hard, Fuzzy(TRUE, "class", TRUE))
Overlay(id, scoped, hard, fuzzy) == Profile(id, Nothing, scoped, Nothing, hard, fuzzy)
Profiles ==
    { << Base(Nothing, Nothing), Overlay("", Nothing, Nothing, f) >>
      : f \in { Fuzzy(TRUE, "class", TRUE), Fuzzy(TRUE, "pset", FALSE), Fuzzy(FALSE, "class", TRUE) } }
    \cup { << Base("brand" :> Word("fire"), StatedKey :> "Hard"),
              Overlay("revit", "common" :> ("brand" :> Word("height")), h, Fuzzy(TRUE, "class", TRUE)) >>
            : h \in { Nothing, <<"2x3">> \o StatedKey :> "Harder" } }
Dictionaries ==
    { [ exact |-> e, bySet |-> s, byProp |-> p,
        byClass |-> (<<"wall", "fire">> :> <<"Fire", "Blaze">>) @@ (<<"door", "firs">> :> <<"DoorFire">>) @@ (<<"wall", "firm">> :> <<"Firm">>)
                   @@ (<<"wall", "flat">> :> <<"Flat">>) ]
      : e \in { Nothing, StatedKey :> "Fire" },
        s \in { <<"common", "firs">> :> <<"SetFire">> }, p \in { Nothing, "height" :> <<"Height">> } }
Classes == { <<"2x3", Word("std")>>, <<"4", Word("std")>>, <<"4", Word("wall")>>, <<"4", Word("door")>> }
Found ==
    { [ schema |-> c[1], class |-> c[2], set |-> s, prop |-> p ]
      : c \in Classes, s \in { Word("common"), Name(" ", <<"psetrevit", "common">>), Name(" ", <<>>) },
        p \in { Word(w) : w \in {"fire", "fir", "brand", "xheight"} } }
Beside(o) == { [ o EXCEPT !.set = Word("own") ], [ o EXCEPT !.set = Word("other"), !.prop = Name(":", <<"x", "height">>) ],
                   [ o EXCEPT !.prop = Name(":", <<"x", "height">>) ] }
NextTo == UNION { { <<o, n>> : n \in Beside(o) } : o \in Found }
MCDictionary ==
    { [ index |-> i, base |-> p[1], overlay |-> p[2], asked |-> a, occurrences |-> o ]
      : i \in Dictionaries, p \in Profiles, a \in {"base", "revit", "my.json"}, o \in NextTo }

(* ----- ifcOWL ------------------------------------------------------------ *)
Scalar(type, text) == [ kind |-> "scalar", type |-> type, text |-> text ]
ListValue(items) == [ kind |-> "list", items |-> items ]
Typed(name, value) == [ kind |-> "typed", name |-> name, value |-> value ]
Ref(id) == [ kind |-> "ref", to |-> id ]
Absent == [ kind |-> "null" ]
Arg(pred, name, depth, value) == [ pred |-> pred, range |-> <<name, depth>>, value |-> value ]
Three == Scalar("integer", "3")
OneArgument ==
    { Arg("count", "IfcInteger", 0, Three), Arg("dim", "IfcDimensionCount", 0, Three), Arg("label", "IfcLabel", 0, Scalar("string", "3")),
      Arg("flag", "BOOLEAN", 0, Scalar("boolean", "t")), Arg("is", "IfcBoolean", 0, Scalar("boolean", "t")),
      Arg("may", "LOGICAL", 0, Scalar("boolean", "t")), Arg("might", "IfcLogical", 0, Scalar("boolean", "t")), Arg("arg_2", "", 0, Three) }
Nested ==
    { Arg("latitude", "IfcCompoundPlaneAngleMeasure", 0, ListValue(<<Three, Scalar("integer", "4")>>)),
      Arg("coordinates", "IfcLengthMeasure", 1, ListValue(<<Scalar("double", "1."), Absent, Scalar("double", "3.")>>)),
      Arg("related", "IfcObject", 0, ListValue(<<Ref(2), Ref(9)>>)), Arg("points", "IfcPoint", 1, ListValue(<<Ref(2), Ref(1)>>)),
      Arg("trim", "IfcTrimmingSelect", 0, ListValue(<<Typed("IfcParameterValue", Three), Ref(1)>>)),
      Arg("rows", "", 0, ListValue(<<ListValue(<<Three>>), ListValue(<<Scalar("string", "3"), Three>>)>>)),
      Arg("kind", "IfcKind", 0, [ kind |-> "enum", text |-> "NOTDEFINED" ]), Arg("value", "IfcValue", 0, Typed("IfcLabel", Scalar("string", "3"))) }
StepEntity(id, args) == [ id |-> id, class |-> IF id = 2 THEN "IfcSite" ELSE "IfcWall", args |-> args ]
GiveIfcOwl ==
    /\ Asked("ifcowl")
    /\ \E a \in OneArgument, b \in OneArgument \cup Nested, c \in Nested, m \in {"full", "projected"}, w \in 1..3 :
           Give([ file |-> << StepEntity(1, <<a, b>>), StepEntity(2, <<c>>), StepEntity(4, <<b>>) >>, mode |-> m, workers |-> w ])
EntitiesStandAlone == Promised("ifcowl", LAMBDA x : IfcOwl!EntitiesStandAlone(x.file, x.mode, x.workers))

(* ----- quantity take-off ------------------------------------------------- *)
Item(id, kind, items) == [ id |-> id, kind |-> kind, ok |-> TRUE, volume |-> id, rectangular |-> TRUE, items |-> items ]
Unmeasurable(item) == [ item EXCEPT !.ok = FALSE ]
Swept == Item(1, "sweep", <<>>)
Brep == Item(2, "brep", <<>>)
Bodies ==
    { << b >> : b \in { <<Swept>>, <<Item(3, "sweep", <<>>), Swept>>, <<Unmeasurable(Item(3, "sweep", <<>>)), Swept>>, <<Brep, Swept>>,
                       <<Brep, Item(4, "brep", <<>>)>>, <<Brep, Unmeasurable(Item(4, "brep", <<>>))>>,
                       <<Item(5, "boolean", <<Swept>>)>>, <<Item(6, "mapped", <<Brep, Item(4, "brep", <<>>)>>)>>,
                       <<Item(6, "mapped", <<Item(5, "boolean", <<Brep>>)>>), Swept>>, <<Item(7, "box", <<>>)>> } }
    \cup { << <<Item(8, "curve", <<>>)>>, <<Brep>> >> }
Meshes ==
    { <<>>, << [ solid |-> TRUE, sound |-> TRUE, volume |-> 3, footprint |-> TRUE, flat |-> TRUE, outline |-> TRUE, box |-> TRUE ] >>,
      << [ solid |-> TRUE, sound |-> FALSE, volume |-> 9, footprint |-> TRUE, flat |-> FALSE, outline |-> FALSE, box |-> TRUE ] >> }
Declared ==
    LET unit(type, power, si) == [ type |-> type, power |-> power, si |-> si ]
        si == << unit("LENGTHUNIT", -3, TRUE), unit("AREAUNIT", 0, TRUE), unit("VOLUMEUNIT", 0, TRUE) >>
    IN  { <<>>, si, Append(si, unit("LENGTHUNIT", 0, TRUE)), Append(si, unit("VOLUMEUNIT", 0, FALSE)), <<unit("AREAUNIT", -3, TRUE)>> }
Authored(text) == [ name |-> <<text, "authored">>, figure |-> <<>>, scale |-> 0 ]
QuantitySet(name, names) == [ name |-> <<name, "">>, quantities |-> [ i \in DOMAIN names |-> Authored(names[i]) ] ]
QuantitySets ==
    << QuantitySet("BaseQuantities", <<"NetVolume">>), QuantitySet("Qto_Wall", <<>>), QuantitySet("Other", <<"Height", "GrossArea">>) >>
MCQuantities ==
    { [ objects |-> << [ id |-> 1, class |-> c, voided |-> v, reps |-> b, mesh |-> mesh, sets |-> s ],
                       [ id |-> 2, class |-> other, voided |-> FALSE, reps |-> << <<Brep>> >>, mesh |-> <<>>, sets |-> t ] >>,
        sets |-> QuantitySets, units |-> u ]
      : b \in Bodies, mesh \in Meshes, u \in Declared, v \in BOOLEAN, other \in { <<"wall", "">>, <<"alarm", "">> },
        c \in { <<"wall", "standardcase">>, <<"slab", "">>, <<"column", "">> },
        s \in { <<>>, <<1>>, <<1, 2>>, <<3>>, <<3, 2>> }, t \in { <<>>, <<2>> } }

(* ----- RDF files ---------------------------------------------------------- *)
W3 == <<"w3id.org", "/">>
Wall1 == W3 \o <<"a", "%", "4", "A">>
IriNames == { Wall1, W3 \o <<"bot#", "a">>, W3 \o <<"bot#", "1">>, W3 \o <<"a", "%", "4", "~">>, W3 \o <<"a", "/", "b">>,
           <<"xsd#", "_", "-">>, <<"~">>, W3 \o <<"bot#", "a", ".">> }
Texts == { <<>>, <<"\"">>, <<"a", "\n", "\t", "\r">>, <<"\\", "n">>, <<"\\", "\\", "\"">> }
RdfObjects == { Rdf!Iri(x) : x \in IriNames \cup {Rdf!RdfType} } \cup { [ text |-> t ] : t \in Texts }
              \cup { [ text |-> t, type |-> d ] : t \in { <<>>, <<"\"">> }, d \in { <<"xsd#", "a">>, <<"schema.org", "/", "a">> } }
Triple(s, p, o) == [ s |-> s, p |-> p, o |-> o ]
SomeTriples ==
    { Triple(s, W3 \o <<"bot#", "a">>, o) : s \in IriNames, o \in RdfObjects }
    \cup { Triple(Wall1, p, o) : p \in {Rdf!RdfType} \cup IriNames, o \in { Rdf!Iri(<<"~">>), [ text |-> <<"a">> ], [ text |-> <<"a">>, type |-> <<"xsd#", "a">> ] } }
Pairs == { Triple(Wall1, Rdf!RdfType, Rdf!Iri(<<"~">>)), Triple(Wall1, W3 \o <<"bot#", "a">>, [ text |-> <<"a">> ]) }
         \X { Triple(Wall1, W3 \o <<"bot#", "a">>, Rdf!Iri(<<"~">>)), Triple(<<"~">>, Rdf!RdfType, [ text |-> <<"a">> ]) }
Batches(t, u, v) == << [ graph |-> <<"~", "a">>, triples |-> <<t, u>> ], [ graph |-> <<"~", "b">>, triples |-> <<v, t>> ], [ graph |-> <<"~", "a">>, triples |-> <<v>> ] >>
Settings == { << "separate", "sorted", "producers" >>, << "separate", "stream", "filename" >>, << "joined", "sorted", "filename" >>, << "joined", "stream", "producers" >> }
GiveTriples ==
    /\ Asked("rdf")
    /\ \E t \in SomeTriples, u \in Pairs, c \in Settings, base \in { <<>>, << <<"w3id.org">> >>, << W3 \o <<"a", "/">> >>, << <<"schema.org", "/">> >> } :
           Give([ batches |-> Batches(t, u[1], u[2]), layout |-> c[1], grouping |-> c[2], naming |-> c[3], base |-> base ])
GraphsReadBack == Promised("rdf", LAMBDA x : Rdf!GraphsReadBack(x.batches, x.layout, x.grouping, x.naming, <<"~", "1">>, x.base))

(* ----- STEP files -------------------------------------------------------- *)
StepVal(kind, text) == Step!Val(kind, text, <<>>)
Strings == { StepVal("string", s) : s \in UNION { [ 1..k -> {"'", ";", "(", ",", "#", "=", "a"} ] : k \in 0..2 } }
           \cup { StepVal("string", s) : s \in { <<"\n", "ENDSEC", ";">>, <<"'", "'", ")">>, <<"A", "'", ";", "#", "1", "=">> } }
Numbers == { StepVal("int", <<"-", "1">>), StepVal("real", <<"1", ".">>), StepVal("real", <<"2", ".", "1", "E", "-", "2">>) }
Simple == { StepVal("ref", <<"1", "2">>), StepVal("null", <<>>), StepVal("derived", <<>>), StepVal("bool", <<"T">>),
            StepVal("enum", <<"A", "_", "1">>) } \cup Numbers
Nests(v) == { v, Step!Val("list", <<>>, <<v>>), Step!Val("typed", <<"A", "E">>, <<v>>),
              Step!Val("list", <<>>, <<Step!Val("list", <<>>, <<>>), v, Step!Val("typed", <<"T">>, <<v>>)>>) }
StepEnt(id, args) == [ id |-> id, name |-> <<"A", "1">>, args |-> args ]
StepFiles ==
    { [ schema |-> "IFC4X2", description |-> <<d>>, entities |-> << StepEnt(<<"1">>, <<v, w>>), StepEnt(i, <<v>>) >> ]
      : d \in { StepVal("string", <<"'", ";", ")">>) }, v \in Strings, w \in UNION { Nests(x) : x \in Simple }, i \in { <<"1">>, <<"1", "2">> } }
    \cup { [ schema |-> n, description |-> d, entities |-> << StepEnt(<<"2">>, <<w>>), StepEnt(<<"1">>, <<>>) >> ]
            : n \in Step!Named, d \in { <<>>, <<StepVal("string", <<>>), StepVal("string", <<"(">>)>> }, w \in UNION { Nests(v) : v \in Strings } }
GiveFile ==
    /\ Asked("step")
    /\ \E f \in StepFiles, layout \in { << <<>>, <<"\n">> >>, << <<" ">>, <<>> >>, << <<"\n">>, <<"\n">> >> } :
           Give([ file |-> f, gap |-> layout[1], other |-> layout[2] ])
GiveText ==
    /\ Asked("step")
    /\ \E t \in UNION { [ 1..k -> {65, 50, 233, 8364, 128512} ] : k \in 1..3 } :
          \E f \in { x \in [ DOMAIN t -> {"plain", "byte", "units", "high"} ] : \A k \in DOMAIN t : x[k] \in Step!Forms(t[k]) } :
           Give([ text |-> t, forms |-> f ])
FilesReadBack ==
    Promised("step", LAMBDA x : IF "file" \in DOMAIN x THEN Step!FileReadsBack(x.file, x.gap, x.other)
                                ELSE Step!TextReadsBack(x.text, x.forms))

(* ----- geometry files ---------------------------------------------------- *)
Quarter(turn, x, y) == [ turn |-> turn, by |-> <<x, y>> ]
Still == Quarter(0, 0, 0)
Flag == [ points |-> << <<0, 0>>, <<2, 0>>, <<0, 1>>, <<0, 0>> >>, triangles |-> << <<1, 2, 3>>, <<2, 3, 4>> >> ]
MovedFlag == [ points |-> << <<3, 1>>, <<5, 1>>, <<3, 2>>, <<3, 1>> >>, triangles |-> << <<1, 2, 3>>, <<2, 3, 4>> >> ]
TurnedFlag == [ points |-> << <<0, 0>>, <<0, 2>>, <<-1, 0>>, <<0, 0>> >>, triangles |-> << <<1, 2, 3>>, <<2, 3, 4>> >> ]
Bare == [ points |-> << <<1, 1>> >>, triangles |-> <<>> ]
Sub(item, key, own, mesh) == [ item |-> item, key |-> key, own |-> own, mesh |-> mesh ]
Subs == << Sub(1, 7, Still, Flag), Sub(2, 0, Quarter(1, 1, 0), MovedFlag), Sub(1, 7, Quarter(2, 0, 3), Flag), Sub(3, 0, Still, TurnedFlag),
           Sub(2, 8, Still, MovedFlag), Sub(3, 0, Still, Bare), Sub(1, 0, Quarter(3, 2, 2), [ points |-> <<>>, triangles |-> <<>> ]) >>
SubLists == { [ i \in DOMAIN q |-> Subs[q[i]] ] : q \in { r \in UNION { [ 1..k -> DOMAIN Subs ] : k \in 0..2 } \cup { <<1, 2, 4>>, <<1, 4, 2>>, <<7, 3, 5>> } :
                                                        Len(r) < 2 \/ r[1] # r[2] } }
Leaf(colour) == [ colour |-> colour, styles |-> <<>> ]
Styled(target, styles) == [ target |-> target, styles |-> styles ]
Swapped(q) == IF Len(q) = 3 THEN << q[1], q[3], q[2] >> ELSE q
StyleSets == << << Styled(1, << Leaf("red") >>), Styled(1, << Leaf(""), [ colour |-> "", styles |-> << Leaf(""), Leaf("blue") >> ] >>), Styled(2, << Leaf("") >>) >>,
                << Styled(2, << Leaf("green") >>), Styled(2, << Leaf("red") >>), Styled(1, << Leaf("white") >>) >> >>
Thing(id, kind, name, args) ==
    [ id |-> id, kind |-> kind, name |-> name, args |-> args, units |-> <<>>, placement |-> Still, decodes |-> TRUE, subs |-> <<>> ]
StepArg(attr, kind, refs) == [ attr |-> attr, kind |-> kind, refs |-> refs ]
Standing(e, placement, subs) == [ e EXCEPT !.placement = placement, !.subs = subs ]
Relate(name, one, many) == [ name |-> name, one |-> one, many |-> many ]
Assignment == [ Thing(1, "units", "IFCUNITASSIGNMENT", << StepArg("Units", "refs", <<10, 10>>) >>) EXCEPT !.units = <<10, 99, 10>> ]
Model(site, wall, door, room) ==
    << Assignment, site, Thing(3, "spatial", "IFCPROJECT", << StepArg("Name", "scalar", <<>>), StepArg("UnitsInContext", "ref", <<1>>) >>), wall, door,
       Thing(6, "element", "IFCOPENINGELEMENT", <<>>), room,
       Thing(8, "other", "IFCPROPERTYSET", << StepArg("GlobalId", "scalar", <<>>), StepArg("HasProperties", "refs", <<9>>) >>),
       Thing(9, "other", "IFCPROPERTYSINGLEVALUE", << StepArg("NominalValue", "scalar", <<>>), StepArg("Unit", "null", <<>>) >>),
       Thing(10, "other", "IFCSIUNIT", << StepArg("Dimensions", "derived", <<>>) >>), Thing(11, "other", "IFCCARTESIANPOINT", <<>>) >>
Site == Thing(2, "spatial", "IFCSITE", << StepArg("RefElevation", "scalar", <<>>) >>)
Wall == Thing(4, "element", "IFCWALL", << StepArg("Name", "scalar", <<>>), StepArg("ObjectPlacement", "ref", <<11>>) >>)
Door == Thing(5, "element", "IFCDOOR", << StepArg("Tag", "mixed", <<>>) >>)
Room == Thing(7, "spatial", "IFCSPACE", <<>>)
Furnished ==
    << Relate("IFCRELAGGREGATES", 3, <<2>>), Relate("IFCRELDEFINESBYPROPERTIES", 8, <<4, 5>>), Relate("IFCRELAGGREGATES", 2, <<7>>),
       Relate("IFCRELCONTAINEDINSPATIALSTRUCTURE", 7, <<5, 4>>), Relate("IFCRELVOIDSELEMENT", 4, <<6>>) >>
Plan ==
    << Relate("IFCRELCONTAINEDINSPATIALSTRUCTURE", 2, <<4>>), Relate("IFCRELCONTAINEDINSPATIALSTRUCTURE", 2, <<5>>),
       Relate("IFCRELAGGREGATES", 3, <<2, 7>>), Relate("IFCRELAGGREGATES", 4, <<5>>), Relate("IFCRELDEFINESBYTYPE", 8, <<>>) >>
GiveGeometry ==
    /\ Asked("geometry")
    /\ \E w \in SubLists, m \in {"full", "stripped"}, at \in { Quarter(0, 1, 2), Quarter(3, 0, -2) }, r \in {1, 2} :
       \E d \in { w, Swapped(w), <<Subs[1]>>, <<Subs[5], Subs[4]>> } :
           Give([ mode |-> m,
                  file |-> [ entities |-> Model(Standing(Site, Still, SubSeq(w, 1, IF w = <<>> THEN 0 ELSE 1)), Standing(Wall, at, w),
                                                [ Standing(Door, Quarter(0, 1, 2), d) EXCEPT !.decodes = r = 1 \/ Len(d) # 2 ], Room),
                             rels |-> <<Furnished, Plan>>[r], shuffle |-> << <<2, 7, 3>>, <<7, 3, 2>> >>[r],
                             styled |-> StyleSets[r], materials |-> StyleSets[3 - r] ] ])
ViewerSeesModel == Promised("geometry", LAMBDA x : Geometry!ViewerSeesModel(x.file, x.mode))
HashTellsChanges == Promised("geometry", LAMBDA x : Geometry!HashTellsChanges(x.file))
SectionAgrees == Promised("geometry", LAMBDA x : Geometry!SectionAgrees(x.file, x.mode))

Next ==
    \/ GiveGeometry
    \/ GiveFile
    \/ GiveText
    \/ GiveTriples
    \/ GiveIfcOwl
    \/ GiveOntology
    \/ CallsNext
Spec == Init /\ [][Next]_callVars
=============================================================================
