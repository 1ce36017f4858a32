------------------------------ MODULE MCRmlRun ------------------------------
(* RmlRun for TLC: mappings of one to three triples maps over small tables. *)
EXTENDS RmlRun, TLC

N(x) == <<"iri", <<x>> >>
New(s, p, o) == <<s, <<"new", p>>, o>>
Lit(x) == <<"literal", <<x>> >>

Source(m, x) == { New(N(m), "logicalSource", N(m \o "S")), New(N(m \o "S"), "source", Lit(x)),
                  New(N(m \o "S"), "referenceFormulation", N("CSV")) }
Subj(m, how, fields) == { New(N(m), "subjectMap", N(m \o "J")),
                          New(N(m \o "J"), how, <<"literal", fields>>) }
Class(m, c) == { New(N(m \o "J"), "class", N(c)) }
Pom(m, k) == { New(N(m), "predicateObjectMap", N(k)) }
Says(m, k, p, how, f) == Pom(m, k) \cup
    { New(N(k), "predicate", N(p)), New(N(k), "objectMap", N(k \o "O")), New(N(k \o "O"), how, Lit(f)) }
Links(m, k, p, parent, child, field) == Pom(m, k) \cup
    { New(N(k), "predicateMap", N(k \o "P")), New(N(k \o "P"), "constant", N(p)),
      New(N(k), "objectMap", N(k \o "O")), New(N(k \o "O"), "parentTriplesMap", N(parent)),
      New(N(k \o "O"), "joinCondition", N(k \o "C")),
      New(N(k \o "C"), "child", Lit(child)), New(N(k \o "C"), "parent", Lit(field)) }

MCIris == { <<"name">>, <<"in">>, <<"Person">>, <<"urn:1">>, <<"s">> }

People(src) == Source("P", src) \cup Subj("P", "template", <<"id">>) \cup Class("P", "Person")
               \cup Says("P", "a", "name", "reference", "name")
Rooms(src, how) == Source("R", src) \cup Subj("R", how, <<"room">>)
Graphs ==
    { People("source.csv"),
      People("source.csv") \cup Links("P", "b", "in", "R", "room", "room") \cup Rooms("source.csv", "template"),
      People("source.csv") \cup Links("P", "b", "in", "P", "room", "id"),
      People("source.csv") \cup Links("P", "b", "in", "R", "room", "id") \cup Rooms("source.csv", "reference")
          \cup { New(N("aO"), "termType", <<"iri", <<"iri">> >>) },
      People("source.csv") \cup Rooms("data.csv", "template"),
      Source("P", "one.csv") \cup Subj("P", "constant", <<"s">>) \cup Says("P", "a", "name", "template", "name")
          \cup { New(N("aO"), "language", Lit("en")) },
      Rooms("source.csv", "template") \cup Pom("R", "a"),
      Source("P", "one.csv") \cup { New(N("P"), "subject", N("s")) },
      Source("P", "one.csv") \cup Subj("P", "template", <<>>),
      Source("P", "one.csv") \cup Subj("P", "constant", <<"s">>) \cup Class("P", "Person")
          \cup { New(N("PJ"), "template", Lit(f)) : f \in {"id", "name"} },
      Rooms("data.csv", "template") \cup Class("R", "Person") }

Row(i, n, r) == [ id |-> <<i>>, name |-> n, room |-> r ]
Tables1 == { << Row("1", <<"urn:1">>, <<"2">>), Row("2", <<"b">>, <<"2">>), Row("3", <<"c", "urn:1">>, <<"1">>) >>,
            << Row("1", <<"a">>, <<>>), Row("2", <<"urn:1">>, <<"1">>) >>,
            << Row("1", <<"a">>, <<"1">>), [ id |-> <<"2">>, name |-> <<"b">>, room |-> <<"1", "2">> ],
               [ id |-> <<"3">>, room |-> <<"1">> ] >> }

MCInputs ==
    { [ graph |-> g, files |-> << <<"one.csv">> >>, data |-> (<<"one.csv">> :> t) ] : g \in Graphs, t \in Tables1 }
    \cup { [ graph |-> g, files |-> << <<"one.csv">>, <<"two.csv">> >>,
             data |-> (<<"one.csv">> :> t) @@ (<<"two.csv">> :> << Row("9", <<"z">>, <<"9">>) >>) ] :
           g \in Graphs, t \in Tables1 }
    \cup { [ graph |-> g, files |-> << <<"my-source.csv">> >>, data |-> (<<"my-source.csv">> :> t) ] :
           g \in { Rooms("data.csv", "template") \cup Class("R", "Person"), Rooms("my-source.csv", "template") \cup Class("R", "Person"),
                   People("source.csv") }, t \in Tables1 }
    \cup { [ graph |-> Rooms("my-source.csv", "template"), files |-> << <<"one.csv">> >>, data |-> (<<"one.csv">> :> t) ] : t \in Tables1 }
MCPlaceholders == << <<"source.csv">>, <<"data.csv">> >>
MCEmbedded == { << <<"source.csv">>, <<"my-source.csv">> >> }
=============================================================================
