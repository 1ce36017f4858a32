---------------------------- MODULE MCBrowserRun ---------------------------
(* Three requests to one worker.                                            *)
EXTENDS BrowserRun

MCPlans ==
    { {"bot", "file"}, {"rml", "ifcowl", "log"}, {"bot", "rml", "cleanup", "geometry-pre", "file"},
      {"rml", "ontology", "file", "log"}, {"ifcowl", "geometry", "geometry-pre", "cleanup", "file"} }
MCRequests ==
    [api : {"sink"}, active : MCPlans, files : BOOLEAN, mapping : BOOLEAN,
     ifc : BOOLEAN, order : {"spawn", "sorted"}]
    \cup [api : {"memory", "benchmark"}, active : {{"bot", "file"}}, files : {TRUE},
          mapping : BOOLEAN, ifc : {TRUE}, order : {"spawn"}]
=============================================================================
