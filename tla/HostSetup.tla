----------------------------- MODULE HostSetup -----------------------------
(* The front half of a conversion, on either host: the request is resolved  *)
(* to a plan (Activation), its options are checked and turned into settings *)
(* (HostOptions), the context is filled, and the preprocessors run one      *)
(* after another in the order of their ids; the browser tessellates first,  *)
(* in a context of its own, and hands the mesh over.                        *)
EXTENDS Activation, HostOptions

CONSTANTS
    Cases,        \* the requests: [host, ids, opts, data, utf8]
    Place         \* [Ids -> Nat]: the place of an id in the order of their text

(* The ids handed to the resolver.                                          *)
FirstIds(r) == WithBotDependencies(r.ids, r.opts)

ASSUME CasesAssumption ==
    \A r \in Cases :
        /\ r.host \in Hosts /\ r.ids \in Seq(Ids)
        /\ \A q \in DOMAIN r.opts : q = <<q[1], q[2]>>

(* What the manifests of the built-in plugins say: there are two hosts, and *)
(* serializers exclude each other, as standard output excludes files.  A    *)
(* preprocessor requires preprocessors only, which are spelled before it;   *)
(* the quantity takeoff requires the cleanup.                               *)
Known == Producers \cup Serializers \cup Exports \cup Preprocessors \cup Postprocessors
ASSUME ManifestsAssumption ==
    /\ Hosts \subseteq {"cli", "browser"} /\ Known \subseteq Ids /\ Place \in [Ids -> Nat]
    /\ \A h \in Hosts :
          /\ Registered[h] \subseteq Known
          /\ \A p, q \in Serializers : p # q => q \in Conflicts[h][p]
          /\ "stdout" \in Registered[h] => "stdout" \in Conflicts[h]["file"] \cap Conflicts[h]["log"]
    /\ \A p \in Preprocessors : \A d \in Needs(p) : d \in Preprocessors /\ Place[d] < Place[p]
    /\ "cleanup" \in Needs("qto") /\ Needs("geometry-pre") = {}

VARIABLES
    asked,        \* the request
    stage,        \* "plan" | "preprocess" | "produce" | "refused" | "failed"
    ran,          \* the preprocessors that ran, in order
    context       \* PipelineContext.data: of each type, the values in order

setup == <<resolver, asked, stage, ran, context>>

(* insert appends; replace removes the values of the type first; get finds  *)
(* the first value of the type.                                             *)
Insert(c, t, v) == [c EXCEPT ![t] = Append(@, v)]
Replace(c, t, v) == [c EXCEPT ![t] = <<v>>]
Get(c, t) == IF c[t] = <<>> THEN {} ELSE Head(c[t])

(* The ids to run: the preprocessors of the plan, and in the browser the    *)
(* geometry preprocessor also when the plan has the geometry producer.      *)
ToRun(active) ==
    (active \cap Preprocessors) \cup
    IF host = "browser" /\ "geometry" \in active THEN {"geometry-pre"} ELSE {}

(* They run in the order of their text, but in the browser the geometry     *)
(* preprocessor has a pipeline of its own, which is first.                  *)
InPlanOrder(p, q) ==
    IF host = "browser" /\ "geometry-pre" \in {p, q} THEN p = "geometry-pre"
    ELSE \E i, j \in DOMAIN enabled : i < j /\ enabled[i] = p /\ enabled[j] = q
Before(p, q) ==
    IF host = "browser" /\ "geometry-pre" \in {p, q} THEN p = "geometry-pre"
    ELSE Place[p] < Place[q]

(* The context before the preprocessors run: the model as it was built, and *)
(* the structured data.  The command line inserts it once for               *)
(* --input-format structured-data and once more for --structured-data.  A   *)
(* value is the set of what went into it.                                   *)
FirstContext(r) ==
    LET c == [ t \in {"model", "data", "bsdd", "mesh"} |-> IF t = "model" THEN <<{}>> ELSE <<>> ]
        main == IF "main" \in r.data THEN Insert(c, "data", {"main"}) ELSE c
    IN  IF "extra" \in r.data THEN Insert(main, "data", {"extra"}) ELSE main

SetupInit ==
    \E r \in Cases :
        /\ asked = r
        /\ ResolveInit(r.host, FirstIds(r))
        /\ stage = "plan"
        /\ ran = <<>>
        /\ context = FirstContext(r)

Resolve ==
    /\ stage = "plan"
    /\ ResolveNext
    /\ stage' = IF outcome' \in {"resolving", "accepted"} THEN "plan" ELSE "refused"
    /\ UNCHANGED <<asked, ran, context>>

(* Everything between the resolver and the preprocessors: option checks,    *)
(* plan checks, settings.                                                   *)
Valid(h, active, opts) ==
    IF h = "cli" THEN CliValid(active, opts) ELSE BrowserValid(active, opts)

Validate ==
    /\ stage = "plan" /\ outcome = "accepted"
    /\ stage' = IF Valid(host, Seen, asked.opts) THEN "preprocess" ELSE "refused"
    /\ UNCHANGED <<resolver, asked, ran, context>>

(* What a preprocessor leaves in the context.  The cleanup and the quantity *)
(* takeoff replace the model by one they made from it, unless the latter    *)
(* has nothing to add; the matcher caches what it finds in the model of the *)
(* moment; the tessellation inserts its mesh.                               *)
Effects(p, c) ==
    CASE p = "cleanup" -> { Replace(c, "model", Get(c, "model") \cup {"cleanup"}) }
      [] p = "qto" -> { Replace(c, "model", Get(c, "model") \cup {"qto"}), c }
      [] p = "bsdd-match" -> { Replace(c, "bsdd", Get(c, "model") \cup {"bsdd"}) }
      [] p = "geometry-pre" -> { Insert(c, "mesh", Get(c, "model") \cup {"mesh"}) }

Left == ToRun(Seen) \ Range(ran)
NextToRun(p) == stage = "preprocess" /\ p \in Left /\ \A q \in Left \ {p} : Before(p, q)

RunPreprocessor ==
    \E p \in Left :
        /\ NextToRun(p)
        /\ p = "geometry-pre" => asked.utf8
        /\ ran' = Append(ran, p)
        /\ context' \in Effects(p, context)
        /\ UNCHANGED <<resolver, asked, stage>>

(* The matcher fails when it cannot load its index or profile, the          *)
(* tessellation when the input is not text.  A failure ends the run, except *)
(* in the browser's geometry pipeline, where it is reported and skipped.    *)
PreprocessorFails ==
    \E p \in Left :
        /\ NextToRun(p)
        /\ p = "bsdd-match" \/ (p = "geometry-pre" /\ ~ asked.utf8)
        /\ IF host = "browser" /\ p = "geometry-pre"
           THEN ran' = Append(ran, p) /\ UNCHANGED stage
           ELSE stage' = "failed" /\ UNCHANGED ran
        /\ UNCHANGED <<resolver, asked, context>>

StartProducing ==
    /\ stage = "preprocess" /\ Left = {}
    /\ stage' = IF host = "cli" /\ ~ CliStageOk(Seen, asked.opts) THEN "failed" ELSE "produce"
    /\ UNCHANGED <<resolver, asked, ran, context>>

SetupNext ==
    \/ Resolve
    \/ Validate
    \/ RunPreprocessor
    \/ PreprocessorFails
    \/ StartProducing

SetupSpec == SetupInit /\ [][SetupNext]_setup

(* ----- properties ------------------------------------------------------- *)
(* Every producer that reads the context gets the last value written: the   *)
(* model with the work of each preprocessor that changed it, although get   *)
(* returns the FIRST value of a type (PipelineContext, lib.rs:119-147).     *)
LatestIsSeen ==
    \A t \in {"model", "bsdd", "mesh"} :
        context[t] # <<>> => Get(context, t) = Last(context[t])

(* A preprocessor runs after every preprocessor it requires, and what it    *)
(* required has been done to the model it sees.  Nothing in the loop looks  *)
(* at requires: the order is that of the ids, and it is right because of    *)
(* how they are spelled (spawn_preprocessors_with, lib.rs:769-790).         *)
RequiredRunFirst ==
    /\ \A i \in DOMAIN ran : \A d \in Needs(ran[i]) :
          \E j \in DOMAIN ran : j < i /\ ran[j] = d
    /\ "qto" \in Get(context, "model") => "cleanup" \in Get(context, "model")
    /\ LatestIsSeen

(* A command line run that reaches the produce stage can do what the later  *)
(* stages take for granted: there is exactly one exporter (main.rs:526      *)
(* fails otherwise), one serializer unless only geometry is produced, a     *)
(* chunk has room for something, cores are counted only in cores mode,      *)
(* Turtle is not chunked, output is partitioned only when no postprocessor  *)
(* needs it whole, extended BOT has its mesh; and in the browser there is   *)
(* a serializer for every run.                                              *)
ProduceIsPrepared ==
    stage = "produce" =>
        /\ host = "cli" =>
              LET s == CliSettings(Seen, asked.opts, FALSE) IN
              /\ Cardinality(Seen \cap Exports) = 1
              /\ s.common.lines > 0 /\ s.common.bytes > 0
              /\ Seen \cap Serializers = {} => "geometry" \in Seen
              /\ s.turtle => s.chunking = "none"
              /\ s.coreSet => s.chunking = "cores" /\ s.minCount > 0
              /\ s.common.partition = "producers" =>
                    s.chunking \in {"lines", "bytes"} /\ Seen \cap Postprocessors = {}
        /\ host = "browser" =>
              LET s == BrowserSettings(Seen, asked.opts, FALSE) IN
              /\ s.common.partition = "producers" =>
                    s.chunking \in {"lines", "bytes"} /\ "ontology" \notin Seen
        /\ Cardinality(Seen \cap Serializers) <= 1
        /\ Option(asked.opts, "bot", "mode", "ifc") = "extended" /\ asked.utf8 =>
              context["mesh"] # <<>>

(* Reasons for which one host takes a request and the other does not.       *)
CliOnly(active, opts) ==
    \/ "stdout" \in active
    \/ active \cap Serializers = {}
    \/ active \cap Producers \subseteq {"geometry"} /\ "ontology" \notin active
    \/ \E q \in DOMAIN opts :
          \/ q[1] \in CliUnchecked
          \/ q \in {<<"geometry", "metadata">>, <<"file", "output_stem">>}
          \/ q[1] = "nquads" /\ q[2] # "graph_naming"
          \/ q[2] \in {"chunk_min_count", "chunk_core_count"}
          \/ opts[q] = "a/b"

BrowserOnly(active, opts) ==
    \/ active \cap Producers = {}
    \/ {"file", "log"} \subseteq active
    \/ \E q \in DOMAIN opts :
          q \in {"nquads-chunked"} \X {"chunk_size_lines", "chunk_size_bytes"} /\ opts[q] = "0"

(* The two hosts read a request the same way.  They accept the same         *)
(* requests, apart from the reasons above, and a request both accept gives  *)
(* the same settings, for a small and for a large input, except that the    *)
(* browser writes cores as lines.  Two hand-written parsers have to agree.  *)
HostsAgree ==
    outcome = "accepted" =>
        LET opts == asked.opts
            cli == CliValid(Seen, opts) /\ CliStageOk(Seen, opts)
            browser == BrowserValid(Seen, opts)
        IN  /\ cli /\ ~ browser => CliOnly(Seen, opts)
            /\ browser /\ ~ cli => BrowserOnly(Seen, opts)
            /\ cli /\ browser =>
                  \A large \in BOOLEAN :
                      LET c == CliSettings(Seen, opts, large)
                          b == BrowserSettings(Seen, opts, large)
                      IN  /\ c.common = b.common
                          /\ c.grouping = b.grouping
                          /\ c.turtle = b.turtle
                          /\ b.chunking = IF c.chunking = "cores" THEN "lines" ELSE c.chunking
=============================================================================
