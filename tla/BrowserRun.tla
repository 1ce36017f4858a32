----------------------------- MODULE BrowserRun ----------------------------
(* A worker of the browser front end and the conversions it is asked for,   *)
(* one after another, in one WebAssembly instance (runner.rs).  What one    *)
(* request leaves in thread-local variables is there when the next begins;  *)
(* what the page knows of a run is what its stage events say and how it     *)
(* ended.                                                                   *)
(* The plan of a request is resolved as in HostSetup; how producers share   *)
(* the thread pool is BrowserPool's subject.                                *)
EXTENDS Naturals, Sequences

CONSTANTS
    MaxRequests,  \* bound: requests the worker serves
    Requests      \* [api, active, files, mapping, ifc, order]

(* Spawn order; the sorted Turtle output drains RML before IfcOWL.          *)
SpawnOrder == <<"bot", "ifcowl", "rml">>
SortedOrder == <<"bot", "rml", "ifcowl">>
Runners == {"bot", "ifcowl", "rml"}
(* Producers whose "running" is announced as soon as the input is parsed.   *)
Announced == {"bot", "ifcowl"}
Exporters == {"file", "log"}
Plugins == Runners \cup Exporters \cup {"geometry-pre", "geometry", "cleanup", "ontology"}
Stages == Plugins \cup {"parse", "serializer"}

ASSUME RequestsAssumption ==
    /\ MaxRequests \in Nat
    /\ \A r \in Requests : r.active \subseteq Plugins

VARIABLES
    store,      \* the thread-locals: which request each value came from, 0: none
    n,          \* the current request is the n-th
    req,        \* the request
    phase,      \* where run_to_sink is
    drained,    \* the producers whose receivers are drained
    failures,   \* producers whose error is recorded
    used,       \* what the RML producer found in its context
    statuses,   \* the page's status of each stage
    outcome     \* "none" | "ok" | "error" | "panic"

worker == <<store, n, req, phase, drained, failures, used, statuses, outcome>>

Has(p) == p \in req.active
ActiveOf(S) == S \cap req.active
DrainOrder == IF req.order = "sorted" THEN SortedOrder ELSE SpawnOrder
Undrained(p) == Has(p) /\ p \notin drained

(* A stage event replaces what the page shows of its plugin                 *)
(* (updateStageStatus, state.js), which forgets everything when a run       *)
(* begins.  Of the events of one step the last of each plugin is told.      *)
Told(shown, ids, status) == [p \in Stages |-> IF p \in ids THEN status ELSE shown[p]]
NothingTold == [p \in Stages |-> "none"]
Geometry == req.active \cap {"geometry", "geometry-pre"} # {}

Return(o) == phase' = "idle" /\ outcome' = o

(* ----- the thread-locals ------------------------------------------------ *)
StoreIfEmpty(s, r, k) ==
    [mesh |-> 0,
     data |-> IF r.files /\ s.data = 0 THEN k ELSE s.data,
     rml |-> IF r.mapping /\ s.rml = 0 THEN k ELSE s.rml]

(* set_structured_data_from_request: the mesh is dropped; data and mapping  *)
(* are replaced by the request's if it brings any, and stay otherwise.      *)
SetStructuredData(s, r, k) ==
    [mesh |-> 0,
     data |-> IF r.files THEN k ELSE s.data,
     rml |-> IF r.mapping THEN k ELSE s.rml]

(* ----- one request ------------------------------------------------------ *)
NoRequest == [api |-> "none", active |-> {}, files |-> FALSE, mapping |-> FALSE,
              ifc |-> FALSE, order |-> "spawn"]

(* A request that does not resolve ends here and changes nothing; a         *)
(* benchmark does not look at structured data.                              *)
Begin ==
    /\ phase = "idle" /\ n < MaxRequests
    /\ req' \in Requests
    /\ n' = n + 1
    /\ drained' = {} /\ failures' = {} /\ statuses' = NothingTold
    /\ used' = [data |-> 0, rml |-> 0, mesh |-> 0]
    /\ \/ phase' = "idle" /\ outcome' = "error" /\ UNCHANGED store
       \/ /\ store' = IF req'.api = "benchmark" THEN store ELSE SetStructuredData(store, req', n')
          /\ phase' = IF req'.api = "sink" THEN "parse" ELSE "inline"
          /\ outcome' = "none"

(* convertIfc and benchmarkConvertIfc: no stage events, no producers of the *)
(* registry.  convertIfc refuses the low-memory mode; both can fail.        *)
Inline ==
    /\ phase = "inline"
    /\ \E o \in {"ok", "error"} : Return(o)
    /\ UNCHANGED <<store, n, req, drained, failures, used, statuses>>

ParseSucceeds ==
    /\ phase = "parse"
    /\ statuses' = Told(Told(statuses, {"parse"}, "success"), ActiveOf(Announced), "running")
    /\ phase' = IF Geometry THEN "tessellate" ELSE "preprocess"
    /\ UNCHANGED <<store, n, req, drained, failures, used, outcome>>

(* Structured data is not parsed as IFC.                                    *)
ParseFails ==
    /\ phase = "parse" /\ req.ifc
    /\ statuses' = Told(statuses, {"parse"}, "running")
    /\ Return("error")
    /\ UNCHANGED <<store, n, req, drained, failures, used>>

(* run_geometry_pipeline parses the input again, structured data too, and   *)
(* expects that to succeed.                                                 *)
ReparsePanics ==
    /\ phase = "tessellate" /\ ~ req.ifc
    /\ Return("panic")
    /\ UNCHANGED <<store, n, req, drained, failures, used, statuses>>

(* The geometry producer's stage is a success whatever produce returned.    *)
Tessellate ==
    /\ phase = "tessellate"
    /\ phase' = "preprocess"
    /\ \/ /\ statuses' = Told(statuses, {"geometry-pre"}, "failed")
          /\ UNCHANGED store
       \/ /\ statuses' = Told(Told(statuses, {"geometry-pre"}, "success"),
                             ActiveOf({"geometry"}), "success")
          /\ store' = [store EXCEPT !.mesh = n]
    /\ UNCHANGED <<n, req, drained, failures, used, outcome>>

(* The other preprocessors, here one; then the values of the thread-locals  *)
(* go into the context and the producers start.                             *)
Preprocess ==
    /\ phase = "preprocess"
    /\ statuses' = Told(Told(statuses, ActiveOf({"cleanup"}), "success"),
                        IF Has("ontology") THEN {} ELSE {"serializer"}, "running")
    /\ used' = store
    /\ phase' = "drain"
    /\ UNCHANGED <<store, n, req, drained, failures, outcome>>

PreprocessFails ==
    /\ phase = "preprocess" /\ Has("cleanup")
    /\ statuses' = Told(statuses, {"cleanup"}, "running")
    /\ Return("error")
    /\ UNCHANGED <<store, n, req, drained, failures, used>>

(* A receiver is at its end: the stage is a success, whatever produce       *)
(* returned.  RML fails without data or mapping.                            *)
Drain ==
    /\ phase = "drain"
    /\ \E i \in 1..3 : LET p == DrainOrder[i] IN
          /\ Undrained(p) /\ \A j \in 1..(i - 1) : ~ Undrained(DrainOrder[j])
          /\ \E fails \in BOOLEAN :
                /\ p = "rml" /\ (used.data = 0 \/ used.rml = 0) => fails
                /\ failures' = IF fails THEN failures \cup {p} ELSE failures
          /\ statuses' = Told(statuses, {p}, "success")
          /\ drained' = drained \cup {p}
    /\ UNCHANGED <<store, n, req, phase, used, outcome>>

DrainsOver == phase = "drain" /\ \A p \in Runners : ~ Undrained(p)

(* Errors of producers are told after the last receiver; then the sidecar   *)
(* of the log and the closing events.                                       *)
ErrorsFirst ==
    /\ DrainsOver /\ ~ Has("ontology")
    /\ statuses' = Told(Told(Told(statuses, failures, "failed"), drained, "success"),
                        ActiveOf(Exporters), "running")
    /\ phase' = "finish"
    /\ UNCHANGED <<store, n, req, drained, failures, used, outcome>>
Serialize ==
    /\ DrainsOver /\ ~ Has("ontology")
    /\ statuses' = Told(Told(statuses, ActiveOf(Exporters), "running"), failures, "failed")
    /\ phase' = "finish"
    /\ UNCHANGED <<store, n, req, drained, failures, used, outcome>>

(* postprocess_to_sink: the mapper sees all batches; if it fails, the run   *)
(* ends before the errors of the producers were told.                       *)
PostprocessAndSerialize ==
    /\ DrainsOver /\ Has("ontology")
    /\ statuses' = Told(Told(Told(statuses, {"ontology"}, "success"),
                             ActiveOf(Exporters) \cup {"serializer"}, "running"),
                        failures, "failed")
    /\ phase' = "finish"
    /\ UNCHANGED <<store, n, req, drained, failures, used, outcome>>

PostprocessFails ==
    /\ DrainsOver /\ Has("ontology")
    /\ Return("error")
    /\ UNCHANGED <<store, n, req, drained, failures, used, statuses>>

Finish ==
    /\ phase = "finish"
    /\ statuses' = Told(statuses, ActiveOf(Exporters) \cup {"serializer"}, "success")
    /\ Return("ok")
    /\ UNCHANGED <<store, n, req, drained, failures, used>>

(* The page's callback throws; in the geometry pipeline that is ignored.    *)
SinkThrows ==
    /\ phase \in {"parse", "drain", "finish"}
    /\ Return("error")
    /\ UNCHANGED <<store, n, req, drained, failures, used, statuses>>

BrowserInit ==
    /\ store = [data |-> 0, rml |-> 0, mesh |-> 0]
    /\ n = 0 /\ req = NoRequest /\ phase = "idle"
    /\ drained = {} /\ failures = {} /\ statuses = NothingTold
    /\ used = [data |-> 0, rml |-> 0, mesh |-> 0]
    /\ outcome = "none"

BrowserNext ==
    \/ Begin
    \/ Inline
    \/ ParseSucceeds
    \/ ParseFails
    \/ ReparsePanics
    \/ Tessellate
    \/ Preprocess
    \/ PreprocessFails
    \/ Drain
    \/ Serialize
    \/ PostprocessAndSerialize
    \/ PostprocessFails
    \/ Finish
    \/ SinkThrows

BrowserSpec == BrowserInit /\ [][BrowserNext]_worker

(* ----- properties ------------------------------------------------------- *)
(* A producer never works on another request's data when its own request    *)
(* brought some, nor on another request's mesh.  The reverse does not hold: *)
(* a request without files, or without a mapping, silently gets those of an *)
(* earlier one (runner.rs:97-123, the values are replaced, never cleared).  *)
OwnDataFirst ==
    phase \in {"drain", "finish"} =>
        /\ req.files => used.data = n
        /\ req.mapping => used.rml = n
        /\ used.mesh \in {0, n}
        /\ used.mesh # 0 => Geometry

(* What the page shows of a run that ended well is the truth: every active  *)
(* stage has ended, as a failure exactly if it failed, although a failed    *)
(* producer is first told to be a success.  The geometry producer is left   *)
(* out: its errors are not told, and without a mesh nothing is.             *)
EventsTellTheTruth ==
    outcome = "ok" /\ req.api = "sink" =>
        \A p \in req.active \ {"geometry"} :
            statuses[p] =
                CASE p \in failures -> "failed"
                  [] p = "geometry-pre" -> (IF used.mesh = n THEN "success" ELSE "failed")
                  [] OTHER -> "success"
=============================================================================
