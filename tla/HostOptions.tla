---------------------------- MODULE HostOptions ----------------------------
(* What the two hosts make of a request: the command line program (main.rs) *)
(* and the browser (validation.rs, runner.rs).  A request is a set of       *)
(* enabled module ids, already closed by the resolver, and the module       *)
(* options as a function from <<module, key>> to the text of the value.     *)
(* Values are members of a small set: the keywords of the code, "0" and "7" *)
(* for integers, "word" for any other text, "a/b" for a path and "" for the *)
(* empty text.                                                              *)
EXTENDS Naturals, Sequences, FiniteSets

(* ----- module ids, by stage (pipeline_plugins.rs, plugins.rs) ----------- *)
Lbd == {"bot", "beo", "bsdd", "props", "omg"}
Producers == Lbd \cup {"ifcowl", "rml", "geometry"}
Serializers == {"turtle", "nquads", "nquads-chunked"}
Exports == {"file", "log", "stdout"}
Preprocessors == {"bsdd-match", "cleanup", "geometry-pre", "qto"}
Postprocessors == {"ontology"}

Keyword(m, k) ==
    CASE k = "mode" /\ m = "bot" -> {"ifc", "extended"}
      [] k = "mode" /\ m = "ifcowl" -> {"full", "projected"}
      [] k \in {"compact", "include_standard_attrs", "dedup_properties",
                "emit_bounding_boxes"} -> {"true", "false"}
      [] k = "opm_level" -> {"l2", "l3"}
      [] k = "metadata" -> {"full", "stripped"}
      [] k = "format" -> {"fragments", "gltf", "parquet", "ifc5"}
      [] k = "compress" -> {"none", "gzip"}
      [] k = "grouping" -> {"sorted", "streaming"}
      [] k = "layout" -> {"joined", "separate"}
      [] k = "chunking" -> {"none", "lines", "bytes", "cores"}
      [] k = "graph_naming" -> {"producers", "filename"}
      [] k = "partitioning" -> {"mixed", "producers"}
      [] k = "profile" -> {"base", "revit-dach", "allplan-de", "tekla-en"}

IsInteger(v) == v \in {"0", "7"}
Integer(v) == IF v = "0" THEN 0 ELSE 7
Counts == {"chunk_size_lines", "chunk_size_bytes", "chunk_min_count",
           "chunk_core_count"}

(* ----- the tables of options each host accepts -------------------------- *)
CliKeys(m) ==
    CASE m = "bot" -> {"mode"}
      [] m = "ifcowl" -> {"mode"}
      [] m = "bsdd" -> {"profile", "compact", "include_standard_attrs",
                        "dedup_properties", "opm_level"}
      [] m = "props" -> {"opm_level"}
      [] m = "omg" -> {"opm_level", "emit_bounding_boxes"}
      [] m = "geometry" -> {"format", "metadata"}
      [] m = "file" -> {"output_stem", "compress"}
      [] m = "turtle" -> {"grouping", "layout"}
      [] m = "nquads" -> Counts \cup {"chunking", "graph_naming", "chunk_prefix"}
      [] m = "nquads-chunked" ->
            Counts \cup {"chunking", "graph_naming", "partitioning", "chunk_prefix"}

(* Modules whose options the command line never looks at.                   *)
CliUnchecked == {"beo", "rml", "ontology", "geometry-pre", "bsdd-match",
                 "cleanup", "qto", "log", "stdout"}

CliAccepts(m, k, v) ==
    \/ m \in CliUnchecked
    \/ /\ m \notin CliUnchecked
       /\ k \in CliKeys(m)
       /\ CASE k \in {"output_stem", "chunk_prefix"} -> TRUE
            [] k \in Counts -> IsInteger(v) /\ Integer(v) > 0
            [] k = "profile" -> v \in Keyword(m, k) \cup {"a/b"}
            [] OTHER -> v \in Keyword(m, k)

BrowserKeys(m) ==
    CASE m = "nquads" -> {"graph_naming"}
      [] m = "nquads-chunked" -> {"chunking", "chunk_size_lines", "chunk_size_bytes",
                                  "chunk_prefix", "graph_naming", "partitioning"}
      [] m = "geometry-pre" -> {"metadata"}
      [] m = "geometry" -> {"format"}
      [] m = "rml" -> {"rml_mapping"}
      [] m = "ontology" -> {"alignment_file", "ontology_file"}
      [] m \in {"beo", "bsdd-match", "cleanup", "qto", "log", "stdout"} -> {}
      [] OTHER -> CliKeys(m)

BrowserAccepts(m, k, v) ==
    /\ k \in BrowserKeys(m)
    /\ CASE k \in {"chunk_prefix", "rml_mapping", "alignment_file", "ontology_file"} -> TRUE
         [] k = "output_stem" -> v # ""
         [] k \in Counts -> IsInteger(v)
         [] OTHER -> v \in Keyword(m, k)

(* ----- options as the resolvers read them ------------------------------- *)
Modules(opts) == { q[1] : q \in DOMAIN opts }

Option(opts, m, k, default) ==
    IF <<m, k>> \in DOMAIN opts THEN opts[<<m, k>>] ELSE default

Number(opts, m, k, default) ==
    IF <<m, k>> \in DOMAIN opts /\ IsInteger(opts[<<m, k>>])
    THEN Integer(opts[<<m, k>>]) ELSE default

(* requested_with_bot_dependencies, and the same push in main.rs: extended  *)
(* BOT needs the geometry preprocessor.                                     *)
WithBotDependencies(requested, opts) ==
    requested \o IF Option(opts, "bot", "mode", "ifc") = "extended"
                 THEN <<"geometry-pre">> ELSE <<>>

(* The serializer whose options hold: the chunked one when it is active; in *)
(* the browser the plain one stands in for it when it has no options.       *)
QuadModule(active) == IF "nquads-chunked" \in active THEN "nquads-chunked" ELSE "nquads"
PlainQuadModule(active, opts) == "nquads"
BrowserQuadModule(active, opts) ==
    IF "nquads-chunked" \in active /\ "nquads-chunked" \in Modules(opts)
    THEN "nquads-chunked" ELSE "nquads"

DefaultChunking(active) == IF "nquads-chunked" \in active THEN "lines" ELSE "none"

CommonSettings(active, opts, quads) ==
    [ naming    |-> Option(opts, quads, "graph_naming", "producers"),
      partition |-> Option(opts, quads, "partitioning", "mixed"),
      prefix    |-> Option(opts, quads, "chunk_prefix", "out"),
      lines     |-> Number(opts, quads, "chunk_size_lines", 2000000),
      bytes     |-> Number(opts, quads, "chunk_size_bytes", 268435456),
      layout    |-> Option(opts, "turtle", "layout", "joined"),
      ifcowl    |-> Option(opts, "ifcowl", "mode", "full"),
      profile   |-> Option(opts, "bsdd", "profile", "automatic"),
      compact   |-> Option(opts, "bsdd", "compact", "false") = "true",
      standard  |-> Option(opts, "bsdd", "include_standard_attrs", "true") # "false",
      dedup     |-> Option(opts, "bsdd", "dedup_properties", "false") = "true",
      opm       |-> [ m \in {"bsdd", "props", "omg"} |-> Option(opts, m, "opm_level", "l2") ],
      boxes     |-> Option(opts, "omg", "emit_bounding_boxes", "true") # "false" ]

(* TurtleGrouping when nothing is said: by the size of the input, in both   *)
(* hosts (main.rs overrides the default of its own resolver).               *)
Grouping(opts, large) ==
    Option(opts, "turtle", "grouping", IF large THEN "streaming" ELSE "sorted")

CliSettings(active, opts, large) ==
    [ common   |-> CommonSettings(active, opts, QuadModule(active)),
      chunking |-> Option(opts, QuadModule(active), "chunking", DefaultChunking(active)),
      minCount |-> Number(opts, QuadModule(active), "chunk_min_count", 1),
      coreSet  |-> <<QuadModule(active), "chunk_core_count">> \in DOMAIN opts,
      grouping |-> Grouping(opts, large),
      turtle   |-> "turtle" \in active \/ Serializers \cap active = {} ]

(* chunking=cores is lines in the browser.                                  *)
BrowserSettings(active, opts, large) ==
    LET quads == BrowserQuadModule(active, opts)
        asked == Option(opts, quads, "chunking", DefaultChunking(active))
    IN  [ common   |-> CommonSettings(active, opts, quads),
          chunking |-> IF asked = "cores" THEN "lines" ELSE asked,
          asked    |-> asked,
          grouping |-> Grouping(opts, large),
          turtle   |-> "turtle" \in active ]

(* ----- the checks, in the order the hosts make them --------------------- *)
OptionsAreActive(active, opts) == Modules(opts) \subseteq active

CliPlanOk(active) ==
    /\ active \cap Producers # {}
    /\ Cardinality(active \cap Exports) = 1
    /\ Serializers \cap active # {} \/ "geometry" \in active

CliArgsUnpartitioned(s) ==
    /\ s.turtle => s.chunking = "none"
    /\ s.common.lines > 0 /\ s.common.bytes > 0 /\ s.minCount > 0
    /\ s.coreSet => s.chunking = "cores"

CliArgsOk(s) ==
    /\ s.turtle => s.chunking = "none"
    /\ s.common.lines > 0 /\ s.common.bytes > 0 /\ s.minCount > 0
    /\ s.coreSet => s.chunking = "cores"
    /\ s.common.partition = "producers" => s.chunking \in {"lines", "bytes"}

CliValid(active, opts) ==
    /\ OptionsAreActive(active, opts)
    /\ \A q \in DOMAIN opts : CliAccepts(q[1], q[2], opts[q])
    /\ CliPlanOk(active)
    /\ CliArgsOk(CliSettings(active, opts, FALSE))

(* After the preprocessors main refuses partitioned output with a           *)
(* postprocessor.                                                           *)
CliStageOk(active, opts) ==
    \/ CliSettings(active, opts, FALSE).common.partition = "mixed"
    \/ active \cap Postprocessors = {}

BrowserPlanOk(active) ==
    /\ active \cap ((Producers \ {"geometry"}) \cup Postprocessors) # {}
    /\ active \cap {"file", "log"} # {}
    /\ active \cap Serializers # {}

BrowserValid(active, opts) ==
    LET s == BrowserSettings(active, opts, FALSE) IN
    /\ OptionsAreActive(active, opts)
    /\ \A q \in DOMAIN opts : BrowserAccepts(q[1], q[2], opts[q])
    /\ BrowserPlanOk(active)
    /\ s.common.partition = "producers" =>
          "ontology" \notin active /\ s.asked \in {"lines", "bytes"}
=============================================================================
