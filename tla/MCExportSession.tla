-------------------------- MODULE MCExportSession --------------------------
(* Two runs in one directory, with every exporter and layout; zipped, one   *)
(* of each kind: a single file, chunks, chunks with an index.               *)
EXTENDS ExportSession

MCGraphs == {"bot", "beo"}
MCSizes ==
    [layout : {"joined", "separate"}, parts : {0}]
    \cup [layout : {"lines", "cores"}, parts : {2}]
    \cup [layout : {"lines", "producers"}, parts : {0}]
    \cup [layout : {"producers"}, parts : {1}]
MCRequest(exporter, compress, s) ==
    [exporter |-> exporter, compress |-> compress, layout |-> s.layout, parts |-> s.parts]
MCRequests ==
    {MCRequest("file", FALSE, s) : s \in MCSizes}
    \cup {MCRequest("file", TRUE, s) : s \in {t \in MCSizes : t.layout \in {"joined", "cores", "producers"}}}
    \cup {MCRequest("log", TRUE, s) : s \in {t \in MCSizes : t.layout = "lines"}}
    \cup {MCRequest("stdout", FALSE, s) : s \in {t \in MCSizes : t.layout \in {"joined", "cores"}}}
=============================================================================
