--------------------------- MODULE ExportSession ---------------------------
(* What a conversion leaves in its output directory: the export sessions of *)
(* the command line (pipeline_plugins.rs), driven through session.rs by the *)
(* writers of main.rs and chunk_writer.rs, file by file, over several runs  *)
(* in one directory.  A run can be killed or fail between any two steps,    *)
(* and the disk can be full at any write.                                   *)
(* A file is a tuple <<kind, series, number>>; a path adds whether the name *)
(* ends in .gz and whether it is the hidden .partial name.                  *)
EXTENDS Naturals, Sequences, SequencesExt, FiniteSets, Functions

CONSTANTS
    Runs,       \* bound: how many conversions use the directory
    Graphs,     \* the graphs, or producers, that get files of their own
    Requests    \* [exporter, compress, layout, parts]: parts bounds a series

VARIABLES
    disk,       \* path -> [run, whole, lists]
    request,    \* what this run writes, with the number of chunks
    session,    \* [opened, staged, derived]: the exporter's own state
    step,       \* file -> how far its writer is
    exits,      \* how each run ended; the last one is this run
    summary     \* what finalize of the last finished run returned

export == <<disk, request, session, step, exits, summary>>

Run == Len(exits)
Running == exits # <<>> /\ Last(exits) = "running"

(* ----- the files of a run ----------------------------------------------- *)
Manifest(g) == <<"manifest", g, 0>>
Sidecar == <<"sidecar", "lbd", 0>>
LogFile == <<"log", "preprocess", 0>>

(* A producer without a batch gets no writer, and so no manifest.           *)
SeriesOf(r) ==
    CASE r.layout \in {"lines", "cores"} -> {"lbd"}
      [] r.layout = "producers" /\ r.parts > 0 -> Graphs
      [] OTHER -> {}

Parts(r) == {"part"} \X SeriesOf(r) \X (0 .. r.parts - 1)

Files(r) ==
    CASE r.layout = "joined" -> {<<"data", "lbd", 0>>}
      [] r.layout = "separate" -> {"data"} \X Graphs \X {0}
      [] OTHER -> Parts(r) \cup {Manifest(g) : g \in SeriesOf(r) \cup {"lbd"}}

Staged(f) == f[1] # "data"
Aside(f) == f \in {Sidecar, LogFile}

(* What a manifest says is there: the chunks of its series, and the index   *)
(* of the partitions their manifests and chunks.                            *)
Members(r, f) ==
    IF f[1] # "manifest" THEN {}
    ELSE IF r.layout = "producers" /\ f[2] = "lbd" THEN Files(r) \ {f}
    ELSE {p \in Parts(r) : p[2] = f[2]}

(* ----- names ------------------------------------------------------------ *)
(* Only the file exporter compresses; the log exporter ignores the flag.    *)
Zipped(r) == r.exporter = "file" /\ r.compress

Path(f, gz, hidden) == [file |-> f, gz |-> gz, hidden |-> hidden]
LogicalName(r, f) == Path(f, FALSE, FALSE)
PublishedName(r, f) == Path(f, Zipped(r), FALSE)
TemporaryName(r, f) == Path(f, Zipped(r), TRUE)

(* Where the bytes go until the writer is closed.                           *)
SinkPath(r, f) == IF Staged(f) THEN TemporaryName(r, f) ELSE PublishedName(r, f)

(* The writers that call flush before they drop their sink; the one of a    *)
(* single output file leaves that to the destructor, which ignores errors.  *)
FlushesChunksOnly(r) == r.layout \notin {"joined", "separate"}
Flushes(r) == r.layout # "joined"

ContentByLogicalName(f, whole) ==
    [run |-> Run, whole |-> whole, lists |-> {LogicalName(request, m) : m \in Members(request, f)}]
Content(f, whole) ==
    [run |-> Run, whole |-> whole, lists |-> {PublishedName(request, m) : m \in Members(request, f)}]

OnDisk == request.exporter # "stdout"
Put(d, p, c) == [q \in DOMAIN d \cup {p} |-> IF q = p THEN c ELSE d[q]]
Fill(f, whole) == IF OnDisk THEN Put(disk, SinkPath(request, f), Content(f, whole)) ELSE disk

(* ----- the writers ------------------------------------------------------ *)
At(f, s) == step[f] = s
Closed(f) == At(f, IF Staged(f) THEN "published" ELSE "dropped")

(* A manifest follows what it lists.  Chunks of a series come one after     *)
(* another, in the mode cores all are open at once; separate Turtle files   *)
(* are written one by one.                                                  *)
MayOpen(f) ==
    /\ \A m \in Members(request, f) : Closed(m)
    /\ \A e \in Files(request) :
          e[1] = "part" /\ e[2] = f[2] /\ e[3] < f[3] =>
              IF request.layout = "cores" THEN ~ At(e, "none") ELSE Closed(e)
    /\ request.layout = "separate" => \A e \in Files(request) : At(e, "none") \/ Closed(e)

StagedIndex(f) == SelectInSeq(session.staged, LAMBDA s : s = f)

NewSession == [opened |-> <<>>, staged |-> <<>>, derived |-> <<>>]
NoRequest == [exporter |-> "none", compress |-> FALSE, layout |-> "joined", parts |-> 0]

Start ==
    /\ Run < Runs /\ ~ Running
    /\ request' \in Requests
    /\ session' = NewSession
    /\ step' = [f \in Files(request') |-> "none"]
    /\ exits' = Append(exits, "running")
    /\ summary' = {}
    /\ UNCHANGED disk

(* open_sink or open_staged_sink: File::create empties an older file.       *)
OpenSink(f) ==
    /\ At(f, "none") /\ MayOpen(f)
    /\ disk' = Fill(f, FALSE)
    /\ session' = [session EXCEPT
                     !.opened = Append(@, f),
                     !.staged = IF Staged(f) /\ OnDisk THEN Append(@, f) ELSE @]
    /\ step' = [step EXCEPT ![f] = "open"]
    /\ UNCHANGED <<request, exits, summary>>

(* All bytes reach the file, except the end of a gzip stream.               *)
Flush(f) ==
    /\ Flushes(request) /\ At(f, "open")
    /\ f \in Parts(request) /\ request.layout = "cores" =>
          \A e \in Parts(request) : ~ At(e, "none")
    /\ disk' = Fill(f, ~ Zipped(request))
    /\ step' = [step EXCEPT ![f] = "flushed"]
    /\ UNCHANGED <<request, session, exits, summary>>

(* The destructor writes what is left and cannot report an error.           *)
DropSink(f) ==
    /\ At(f, IF Flushes(request) THEN "flushed" ELSE "open")
    /\ f \in Parts(request) /\ request.layout = "cores" =>
          \A e \in Parts(request) : step[e] \in {"flushed", "dropped"}
    /\ \E whole \in BOOLEAN :
          /\ ~ Zipped(request) /\ Flushes(request) => whole
          /\ disk' = Fill(f, whole)
    /\ step' = [step EXCEPT ![f] = "dropped"]
    /\ UNCHANGED <<request, session, exits, summary>>

(* commit_staged_sink: the name leaves the table, the file is renamed over  *)
(* whatever has its final name.  Other exporters than to files do nothing.  *)
CommitSink(f) ==
    /\ Staged(f) /\ At(f, "dropped")
    /\ f \in Parts(request) /\ request.layout = "cores" =>
          \A e \in Parts(request) :
             /\ step[e] \in {"dropped", "published"}
             /\ e[3] < f[3] => At(e, "published")
    /\ IF OnDisk
       THEN /\ StagedIndex(f) > 0
            /\ session' = [session EXCEPT !.staged = RemoveAt(@, StagedIndex(f))]
            /\ disk' = Put(Restrict(disk, DOMAIN disk \ {TemporaryName(request, f)}),
                           PublishedName(request, f), disk[TemporaryName(request, f)])
       ELSE UNCHANGED <<session, disk>>
    /\ step' = [step EXCEPT ![f] = "published"]
    /\ UNCHANGED <<request, exits, summary>>

(* A sidecar and the log are written under their own names, never zipped,   *)
(* by std::fs::write: it empties the file, or creates it, and then fills it;*)
(* what goes wrong in between leaves the file as it is (Stop).              *)
PutAside(f, whole) == disk' = Put(disk, Path(f, FALSE, FALSE), Content(f, whole))
Begun(f) ==
    LET p == Path(f, FALSE, FALSE) IN
    p \in DOMAIN disk /\ disk[p].run = Run /\ ~ disk[p].whole

(* accept_derived_file, which names the sidecar only once it is written.    *)
CreateDerived ==
    /\ Running /\ OnDisk /\ session.derived = <<>>
    /\ ~ Begun(Sidecar) /\ ~ Begun(LogFile)
    /\ PutAside(Sidecar, FALSE)
    /\ UNCHANGED <<request, session, step, exits, summary>>

AcceptDerived ==
    /\ Running /\ Begun(Sidecar)
    /\ PutAside(Sidecar, TRUE)
    /\ session' = [session EXCEPT !.derived = <<Sidecar>>]
    /\ UNCHANGED <<request, step, exits, summary>>

(* finalize, after the writers and the sidecars: refuses a session with     *)
(* staged files, names the sidecars first, and the log exporter writes one  *)
(* file for every module that had logged when the session was STARTED: the  *)
(* preprocessors.                                                           *)
MayFinalize == Running /\ ~ Begun(Sidecar) /\ \A f \in Files(request) : Closed(f)

CreateLog ==
    /\ MayFinalize /\ session.staged = <<>>
    /\ request.exporter = "log" /\ ~ Begun(LogFile)
    /\ PutAside(LogFile, FALSE)
    /\ UNCHANGED <<request, session, step, exits, summary>>

Finalize ==
    /\ MayFinalize
    /\ LET logs == IF request.exporter = "log" THEN <<LogFile>> ELSE <<>>
           written == [i \in DOMAIN session.opened |-> PublishedName(request, session.opened[i])]
           plain == [i \in DOMAIN (session.derived \o logs) |->
                        Path((session.derived \o logs)[i], FALSE, FALSE)]
       IN  IF session.staged # <<>>
           THEN /\ exits' = Append(Front(exits), "failed")
                /\ UNCHANGED <<disk, summary>>
           ELSE /\ exits' = Append(Front(exits), "ok")
                /\ summary' = Range(plain \o written)
                /\ IF logs = <<>> THEN UNCHANGED disk
                   ELSE Begun(LogFile) /\ PutAside(LogFile, TRUE)
    /\ UNCHANGED <<request, session, step>>

(* Anything that ends the process early: an error main returns, a sidecar   *)
(* meant for stdout among them, while the writers are still at work; a full *)
(* disk; a signal.  The files stay as they are.                             *)
Stop ==
    /\ Running
    /\ exits' = Append(Front(exits), "failed")
    /\ request' = NoRequest
    /\ session' = NewSession
    /\ step' = [f \in {} |-> "none"]
    /\ UNCHANGED <<disk, summary>>

ExportInit ==
    /\ disk = [p \in {} |-> 0]
    /\ request = NoRequest
    /\ session = NewSession
    /\ step = [f \in {} |-> "none"]
    /\ exits = <<>>
    /\ summary = {}

ExportNext ==
    \/ Start
    \/ \E f \in DOMAIN step : Running /\ OpenSink(f)
    \/ \E f \in DOMAIN step : Running /\ Flush(f)
    \/ \E f \in DOMAIN step : Running /\ DropSink(f)
    \/ \E f \in DOMAIN step : Running /\ CommitSink(f)
    \/ CreateDerived
    \/ AcceptDerived
    \/ CreateLog
    \/ Finalize
    \/ Stop

ExportSpec == ExportInit /\ [][ExportNext]_export

(* ----- properties ------------------------------------------------------- *)
(* A chunk or manifest that can be seen under its own name is all there,    *)
(* whoever dies when and whatever was there before, unless it is zipped:    *)
(* the last bytes of a gzip stream are written by a destructor              *)
(* (open_staged_sink and commit_staged_sink, pipeline_plugins.rs:716-776).  *)
(* A sidecar or log, which std::fs::write fills under its own name (772,    *)
(* 908, 944), is all there once its run has ended well; while the run is at *)
(* work, or after it died, it can be cut short.                             *)
VisibleIsWhole ==
    \A p \in DOMAIN disk : Staged(p.file) /\ ~ p.hidden /\ ~ p.gz =>
        disk[p].whole \/ (Aside(p.file) /\ exits[disk[p].run] # "ok")

(* A manifest never names a file that is not there under that very name, or *)
(* one that an EARLIER run left.  It can name a file of a later run, whose  *)
(* chunks were renamed over those of its own before the later run wrote its *)
(* manifest; but then that later run has not ended well                     *)
(* (chunk_writer.rs:152-211, pipeline_plugins.rs:753-771).                  *)
ManifestIsBacked ==
    \A m \in DOMAIN disk : ~ m.hidden => \A f \in disk[m].lists :
        /\ f \in DOMAIN disk
        /\ disk[f].run >= disk[m].run
        /\ disk[f].run > disk[m].run => exits[disk[f].run] # "ok"

(* A run that ended well left every file of its request, as its summary     *)
(* says, under the name it says, written by this run; no hidden file of its *)
(* own; and every one is whole, unless it is zipped or is the single output *)
(* file, whose last bytes a destructor writes (main.rs:626-680).            *)
SuccessIsComplete ==
    Run > 0 /\ Last(exits) = "ok" /\ OnDisk =>
        /\ \A f \in Files(request) :
              LET p == PublishedName(request, f) IN
              /\ p \in summary /\ p \in DOMAIN disk
              /\ disk[p].run = Run
              /\ disk[p].whole \/ p.gz \/ request.layout = "joined"
        /\ \A p \in summary : p \in DOMAIN disk /\ disk[p].run = Run
        /\ \A p \in DOMAIN disk : disk[p].run = Run => p \in summary /\ ~ p.hidden
=============================================================================
