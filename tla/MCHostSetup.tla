---------------------------- MODULE MCHostSetup ----------------------------
(* HostSetup for TLC: the registries of the two hosts and the requests.     *)
EXTENDS HostSetup

MCHosts == {"cli", "browser"}
MCIds == Known \cup {"typo"}

(* bot < bsdd-match < cleanup < ... stand for the ids with their prefixes.  *)
Spelled ==
    << "beo", "bot", "bsdd-match", "bsdd", "cleanup", "file", "geometry-pre",
       "geometry", "ifcowl", "log", "nquads-chunked", "nquads", "omg", "ontology",
       "props", "qto", "rml", "stdout", "turtle", "typo" >>
MCPlace == [ p \in MCIds |-> CHOOSE i \in DOMAIN Spelled : Spelled[i] = p ]

MCRegistered ==
    [ h \in MCHosts |-> IF h = "cli" THEN Known ELSE Known \ {"stdout"} ]
MCRequires == [ p \in MCIds |-> IF p = "qto" THEN <<"cleanup">> ELSE <<>> ]
MCConflicts ==
    [ h \in MCHosts |-> [ p \in MCIds |->
        CASE p \in Serializers -> Serializers \ {p}
          [] h = "cli" /\ p \in {"file", "log"} -> {"stdout"}
          [] h = "cli" /\ p = "stdout" -> {"file"}
          [] OTHER -> {} ] ]

NoOptions == [ q \in {} |-> "" ]
Texts(m, k) ==
    CASE k \in Counts -> {"0", "7", "word"}
      [] k \in {"chunk_prefix", "output_stem", "rml_mapping", "alignment_file",
                "ontology_file", "typo"} -> {"", "word"}
      [] k = "profile" -> {"base", "a/b", "word"}
      [] k = "chunking" -> {"none", "lines", "bytes", "cores", "word"}
      [] k = "format" -> {"gltf", "word"}
      [] OTHER -> Keyword(m, k) \cup {"word"}

Keys(m) == {"typo"} \cup BrowserKeys(m) \cup
           (IF m \in CliUnchecked \cup {"typo"} THEN {} ELSE CliKeys(m))
Single == UNION { UNION { { (<<m, k>> :> v) : v \in Texts(m, k) } : k \in Keys(m) } :
                  m \in Known }

Quads == {"chunking", "chunk_size_lines", "chunk_core_count", "partitioning", "chunk_min_count"}
Pairs ==
    UNION { UNION { UNION { { (<<m, k>> :> v) @@ (<<m, l>> :> w) :
                              v \in Texts(m, k) \ {"word"}, w \in Texts(m, l) \ {"word"} } :
                    l \in Quads \ {k} } : k \in Quads \cap {"chunking", "chunk_core_count"} } :
            m \in {"nquads", "nquads-chunked"} }

Bases == { {}, {"bot"}, {"bot", "file"}, {"ontology", "log"}, {"geometry", "file"},
           {"props", "file", "turtle"}, {"props", "stdout", "turtle"}, {"rml", "log", "nquads"},
           {"bsdd", "file", "nquads-chunked"}, {"ontology", "file", "turtle"},
           {"ifcowl", "file", "ontology", "nquads-chunked"}, {"beo", "file", "log", "turtle"},
           {"beo", "turtle", "nquads", "file"}, {"typo", "bot"} }

Request(h, ids, opts, data, utf8) ==
    [ host |-> h, ids |-> SetToSeq(ids), opts |-> opts, data |-> data, utf8 |-> utf8 ]

Optioned ==
    { Request(h, b \cup Modules(o), o, {}, TRUE) :
        h \in MCHosts, b \in Bases, o \in Single \cup Pairs }
Unlisted ==
    { Request(h, {"bot", "file", "turtle"}, o, {}, TRUE) : h \in MCHosts, o \in Single }
Prepared ==
    { Request(h, {"bot", "file", "turtle"} \cup p, o, d, u) :
        h \in MCHosts, p \in SUBSET Preprocessors, u \in BOOLEAN,
        o \in { NoOptions, <<"bot", "mode">> :> "extended" },
        d \in SUBSET {"main", "extra"} }
MCCases == Optioned \cup Unlisted \cup { r \in Prepared : r.host = "cli" \/ "extra" \notin r.data }
=============================================================================
