# A TLA+ model of IFC2LBD-Neo

IFC2LBD-Neo converts IFC building models into RDF (Linked Building Data). A
conversion is a pipeline of plugins

    Import -> Preprocess -> Produce -> Postprocess -> Serialize -> Export

run by two hosts: a command line program, which spreads the produce, serialize
and export stages over a rayon pool, OS threads and bounded channels, and a
WebAssembly build, where everything shares the threads of one pool. This
directory models the concurrent core of both hosts, what the outside world sees
of a run, the front half that decides what is run, and the algorithms whose
results depend on an order, a cache or a table; it checks all of it with TLC and
proves the results that matter most with TLAPS.

## 1. Inventory

| Part | Where (`src/crates`) | State it keeps | What makes it hard | Modelled in |
| --- | --- | --- | --- | --- |
| Producer scheduling | `lbd-pipeline`, `ifc2lbd-cli/src/pipeline_plugins.rs` | queue of producers, a raw and a tagged channel and a forwarder per producer, `producer_errors` | a shared pool, jobs stacked on waiting threads, the order of an error and the end of a stream | `ProducerPool` |
| CLI run | `ifc2lbd-cli/src/main.rs` | the serializer's channel, drain threads, the serializer thread, the export session | failures of one thread seen late by another, early returns while threads run on | `CliRun` |
| Chunk writer | `ifc2lbd-cli/src/chunk_writer.rs` | open chunk, partial line, counts, manifest entries, a writer thread in the mode `cores` | what a loader that watches the directory sees at any time | `ChunkWriter`, `CoreChunkWriter`, `ChunkCount` |
| Export sessions | `pipeline_plugins.rs`, `session.rs` | staged and opened files | rename, buffers and encoders finished on drop, a second run in the directory | `ExportSession` |
| Pipeline core | `lbd-pipeline` | registry, context, loops | transitive requirements, conflicts, the order of plugins | `Activation`, `HostSetup` |
| Options and plan | `main.rs`, `ifc2lbd-wasm/src/validation.rs` | module options, settings | two hand-written parsers of the same options | `HostOptions`, `HostSetup` |
| Browser produce stage | `ifc2lbd-wasm/src/plugins.rs`, `runner.rs` | deques and stacks of the pool's threads, channels | every job waits for another one on the same small pool | `BrowserPool` |
| Browser runner | `runner.rs`, `sink.rs` | thread-locals of the worker, the sink | state that outlives a request, events that are told too early | `BrowserRun` |
| RML mapper | `rml-mapper-producer`, `rml-mapper-lib` | quad channel, converter thread, cache of subjects | order of triples maps, cache keys, a sink that goes | `RmlMapping`, `RmlRun` |
| Properties, bSDD, ifcOWL | `lbd-converter` | sets of nodes already written, cache of matches, counters per worker | objects in any order share nodes | `PropertyGraph`, `BsddMatching`, `IfcOwlEmission` |
| Ontology mapper, reasoner | `ontology-mapper-producer`, `owl-reasoner` | tables of names, an index over triples | recursive conditions, a cheap choice of candidates | `OntologyMapping` |
| Topology | `lbd-topology`, `plugin-topology-full` | edges, evidence, a bounded cache of meshes | two paths that must agree, races on the cache | `Topology`, `MeshCache` |
| STEP parser | `ifc-step` | none | a scan and a parser that must agree on strings | `StepFile` |
| IFC model | `ifc-model`, `ifc-schema` | indexes over entities | merged in any order | `IfcModel` |
| Quantity take-off | `plugin-qto-preprocess` | the model it extends | sums of what can be measured, units | `QuantityTakeOff` |
| Geometry and its files | `plugin-geometry-*`, `ifc-geometry`, `tessellated-model`, `fragments-core` | tables of shells, transforms, samples | indices and offsets, entities listed twice | `GeometryFile`, `EntitySection` |
| Text of RDF | `lbd-serializer`, `lbd-ontology` | none | prefixes declared by one test and used by another, names, groups, escapes | `RdfText` |
| Solids, templates, validation tool, front end | `lbd-geometry`, `qto-geometry`, `plugin-template-*`, `qto-validate`, `web/`, `electron/` | none, or a user interface | floating point; wording | not modelled |

How the parts interact. A host resolves a request to a plan, checks its options,
fills a context and runs the preprocessors, which leave their results in that
context. `main` then starts the producers and gets one receiver per producer. One
drain thread per receiver forwards the batches to the serializer thread's
channel, writes them to a chunk writer of its own, or collects them for `main`, which
postprocesses them (the ontology mapper) and sends them on or writes them. Chunk writers get their files from the
shared export session. `main` learns of failures through `producer_errors`,
through the results of the threads it joins, and through `finalize`. In the
browser there are no OS threads to spare: `turtle_to_sink_joined` starts the
producers on the rayon pool, `forward_as_tagged` and `to_raw_receiver` spawn
further jobs on the same pool, and the main job drains one receiver after the
other into the sink. Inside producers, workers share what is named in the table:
nodes already written, a cache of matches or meshes, a channel to a converter.

What makes each part correct: every batch is delivered once, in order, and an
error is known by the time its stream ends (scheduling); a run that exits
successfully has published everything, and a manifest never promises more than is
there (CLI run, writers, sessions); a failed file operation surfaces and blocks
nobody (writers); a conversion in the browser ends and gives its pool back; a plan
holds what its plugins require, nothing that conflicts, and runs in an order that
respects it, equally on both hosts (set-up); no order of threads, map or file and
no cache changes what is written (RML, properties, dictionary, meshes, ifcOWL,
model, entity list); what is added to the data is earned by it (ontology,
topology, quantities).

The places where a test would hardly reach a violation are listed under
`hazards` in `PROJECT.json`, with the properties that would catch one.

## 2. Modules

| Module | What it is |
| --- | --- |
| `BatchStreams` | abstract: what whoever drains a producer's receiver may rely on |
| `ProducerPool` | the produce stage as coded: queue, chains, jobs, channels, forwarders, drains |
| `CliRun` | one run of the command line program over `BatchStreams` |
| `ChunkOutput` | abstract: what a loader may rely on for one chunk prefix |
| `ChunkWriter` | the chunk writer in the modes `lines` and `bytes`, byte by byte |
| `CoreChunkWriter` | the chunk writer in the mode `cores`: round robin, buffers, channel, thread |
| `ChunkCount` | the number of chunks of that mode |
| `ExportSession` | the files of several runs in one output directory |
| `Activation` | the plugin registry and its resolver |
| `HostOptions` | what the two hosts make of module options |
| `HostSetup` | from a request to the produce stage, over `Activation` and `HostOptions` |
| `BrowserPool` | the produce stage in the browser: every job on one rayon pool |
| `BrowserRun` | a worker of the page that serves requests one after the other |
| `RmlMapping` | from a mapping document to the terms its generators make |
| `RmlRun` | the RML producer: executor, quad channel, converter thread |
| `OntologyMapping` | the ontology mapper and the reasoner under it |
| `Topology` | topology edges of relations and geometry, and the BOT triples of both paths |
| `MeshCache` | the verdict phase over the bounded cache of meshes |
| `IfcModel` | classification, merge, inherited sets |
| `PropertyGraph` | properties and IFC's own attributes as RDF, by the props and bSDD modules, with shared nodes |
| `BsddMatching` | profiles, the cascade of look-ups in the data dictionary, the cache of matches |
| `IfcOwlEmission` | the ifcOWL graph, by one worker or several |
| `QuantityTakeOff` | which quantities are missing, which the geometry gives, how they get into the model |
| `StepFile` | header, scan, parser and string decoding of a STEP file |
| `EntitySection` | entities, attributes, relations and tree of a fragments file |
| `GeometryFile` | meshes to fragments, glTF and Parquet files, and geometry hashes |
| `RdfText` | the writers of Turtle and N-Quads and a reader of both |
| `ConversionCalls` | one call of an algorithm of `Topology`, `IfcModel`, `PropertyGraph`, `BsddMatching` or `QuantityTakeOff`, with any input the code can be given |
| `MC*` | instances for TLC; `MCAlgorithms` lists the inputs of `ConversionCalls`, and those of the other pure modules, one per step |
| `CliRun_proofs`, `ChunkWriter_proofs`, `ExportSession_proofs` | theorems about the module they are named after |
| `Producers_proofs` | theorems about `ProducerPool` and `RmlRun` |
| `CoreChunkWriter_proofs` | theorems about `CoreChunkWriter` and `ChunkCount` |
| `HostSetup_proofs` | theorems about `Activation` and `HostSetup` |
| `Browser_proofs` | theorems about `BrowserPool` and `BrowserRun` |
| `Conversion_proofs` | theorems about `MeshCache` and `ConversionCalls` |

`ProducerPool` implements `BatchStreams`, and `CliRun` is built on `BatchStreams`,
so what holds of it holds with the real produce stage below it. `ChunkWriter` and
`CoreChunkWriter` implement `ChunkOutput`. `HostSetup` extends `Activation` and
`HostOptions` and implements the former; `RmlRun` extends `RmlMapping`;
`GeometryFile` extends `EntitySection`; `MCAlgorithms` extends `ConversionCalls`,
which extends the five modules whose algorithms it calls.

### ProducerPool

`front` is the shared queue (producers `front .. N` are in it), `kicks` the loop
of `spawn_producers`, `pc[p]` where the rayon job of `p` is: spawned, entered,
producing, waiting in a parallel section, blocked in a send, returned, with its
error recorded, with its sender dropped, done. `host[p]` is the waiting job whose
thread picked up `p`; only a job without a host takes a thread of its own. `raw`
is the channel between `produce` and `forward_as_tagged`, `held` the batch in the
forwarder's hands, `tagged` the channel that `spawn_producers` returned. A
receiver sees the end of its stream when it is empty and both senders are gone:
the job's (`drop(tx)`) and the forwarder's clone. One action is one statement
that other threads can observe: `RecordProducerError`, `DropSender` and
`ContinueChain` are three actions because the drain side runs between them.

### CliRun

`main` is the place of the main thread, named after what it does next; `exit` is
what `main` returned; after that the other threads run on until `ProcessExits`.
`drain[p]` and `hand[p]` are the drain thread of `p`; `chan`, `ser` and `serHand`
the serializer's channel and thread; `pending[w]`, `visible[w]` and `status[w]`
what writer `w` has in hidden files, in published files, and whether its manifest
is out. Writer 0 belongs to the serializer thread, writer `p` to the partition of
producer `p`. `unsent` is a set: `Before` gives the order in which `all_batches`
has them. A run has one of five modes: chunked N-Quads that stream ("stream"), one
partition per producer ("partition"), chunked N-Quads that are collected for a
postprocessor first ("collect"), joined Turtle or N-Quads in one piece ("joined"), and
one Turtle file per graph ("separate"). With layout=separate `main` writes the files
itself (`MainWritesGraph`). In "joined" the serializer thread has a `BufWriter` that is
dropped without a flush (`DropBuffer`): `status` is then "written", or "cut" if that
last write failed, of which the run learns nothing. `delivered` is the derived file
that the geometry producer sends.

### ChunkWriter, CoreChunkWriter, ExportSession

In `ChunkWriter` a byte is a line end (`nl`) or anything else (`x`). `Write` is a
call of `Write::write`; `TakeLine` and `KeepRest` are its loop, `OpenChunk`,
`Rotate` and `PutLine` are `write_complete_line`, `Finish*` is `finish`. After
`Fail` the writer is dropped, as every caller does.

In `CoreChunkWriter` a line is its number, and buffers are counted in lines where
the code counts bytes. `todo` holds the buffers that a call is about to send: one
that is full, or all of them in `finish`. `written` is what the thread gave to its
`BufWriter`, `file` what a flush has put into the file: the files are certain only
once the thread flushed them all.

`ExportSession` has the directory (`path -> who wrote how much of it`), the table
of staged names and the sinks a run has open. `SinkPath` is the three exporters'
choice of a path, `Flushes` tells which writers flush and look at the result, and
`DropSink` is a sink that is dropped, its encoder finished without a look at
errors. A sidecar and the log are created and filled under their own names in two
steps each (`CreateDerived`, `AcceptDerived`, `CreateLog`, `Finalize`), as
`std::fs::write` does. `Stop` ends a run anywhere, `Start` begins the next one in what is left.

### Activation, HostOptions, HostSetup

`Activation` walks as `resolve_activation` does: `queue` is the stack, `pushing`
what the inner loop has still to push, `Visit` a turn of the loop, `Judge` the
search for conflicts. `HostOptions` has the tables of options of the two hosts
side by side (`CliKeys` and `BrowserKeys`, `CliAccepts` and `BrowserAccepts`), the
checks of the plan, and the settings they arrive at. `HostSetup` adds the context:
`Insert`, `Replace` and `Get` are its methods; it has a sequence of values for each
type (`get` looks at no others), and a value is the set of what went into it. The
preprocessors of `ToRun` run one at a time, the one with nothing `Before` it next;
`Effects` is what each leaves in the context.

### BrowserPool, BrowserRun

A rayon thread has a stack of jobs, of which the topmost runs, and a deque of jobs
spawned on it; jobs spawned from outside the pool are in `injected`. A thread takes
a job when it has none, or when the topmost one waits for a parallel section: from
its own deque, from another's, or from `injected`. A job that blocks on a channel
keeps its thread. Jobs are the producers, the forwarders of `forward_as_tagged`,
and the relays of `to_raw_receiver`. The main job drains the receivers in an `order`
that the options set: that of the queue, or another one (sorted joined Turtle).

`BrowserRun` has the thread-locals of the worker (structured data, mapping, mesh)
with the number of the request each came with, and what the page shows of each stage:
a stage event replaces what was shown (`Told`, updateStageStatus of state.js), and a
new run forgets all (`NothingTold`). Every stage may fail in its own way (`ParseFails`, `ReparsePanics`,
`PreprocessFails`, `PostprocessFails`, `SinkThrows`).

### RmlMapping, RmlRun

A mapping is a set of triples, as the store holds it. `Conform` rewrites old names,
`Document` reads the triples maps, `Terms` is what a generator makes of a record.
`RmlRun` runs the maps of a prepared mapping in the order the hash set gives them:
`StartMap`, `ProcessRecord` with its cache of subjects (`Cached`), `FinishMap`;
`Convert` is the converter thread, `Close` a forwarder that goes away.

### The pure modules

Each is a set of operators named after the functions they stand for, over records
whose fields the head comment explains. Where the code runs over a map in no
order, or on several threads, the order is part of the input and the property says
that it does not matter. `OntologyMapping` parses class expressions out of blank
nodes, evaluates them, picks candidates and applies the tables of names.
`Topology` makes edges from relations (`Semantic`) and from verdicts
(`Geometric`), keeps the strongest evidence (`Strongest`), and writes BOT both as
`bot.rs` (`Bot`) and as `emit_lbd` (`Lbd`). `PropertyGraph` gives the triples of
an object; `Shared` is what remains when nodes are written once, `Canonical` the
key that decides it. `BsddMatching` has the cascade: `Hard`, `Exact`, `Guess`, per
level of `Candidates`. `IfcOwlEmission` folds the entities with an emitter's
counters and cache. `QuantityTakeOff` goes from `Audited` over `Computed` to
`Accepted` and `Injected` figures. `StepFile` works on sequences of characters. `RdfText` writes words: `CompactIri`
shortens a name, `CollectUsedPrefixes` finds the prefixes to declare, `GroupedAt` is
what the loops of the sorted form add at one triple, `TurtleFiles` the choice of
layout in `main`; `Read` is a reader by the grammar.
`GeometryFile` goes from the meshes of the geometry library (`FlatMeshes`) through
welded shells and their tables (`AddGeometry`) to three files, and reads them back
as a viewer does; `EntitySection` does the same for entities, relations and tree.

## 3. Runs

| Run | What it shows | Bounds |
| --- | --- | --- |
| `pool_backpressure` | refinement of `BatchStreams`: batches arrive once and in order, an error is recorded before its stream ends; the stage ends | two producers, four batches between them, every channel of size 1, receivers that may go; a pool of five threads, where jobs run side by side and stack, and one of three, where there is one chain |
| `cli_run` | success means complete, markers never come early, the run ends | the five ways batches travel, three producers of up to two batches, one of them IfcOWL, one with a derived file, channel of size 1, any file operation may fail |
| `chunk_modes` | no byte is lost, chunks keep their limit, refinement of `ChunkOutput` | both modes, every buffer of up to three bytes, ten bytes in all, two lines or four bytes per chunk: five chunks, lines over several buffers, below, at and over the limit |
| `chunk_cores` | lines keep their chunk and order, refinement of `ChunkOutput`, calls return | three chunks (by `ChunkCount`), blocks of two lines, buffers of three, channel of two, 14 lines: two rounds and a block |
| `export` | what a final name shows is whole, a manifest is backed by what it lists, success means all bytes arrived | two runs in one directory, every exporter and layout, a single file, chunks and partitions also compressed, up to two parts, a crash or a full disk at any step |
| `setup` | plans are sound, preprocessors run after what they require, produce finds what it takes for granted, the hosts agree | the real registry and options of both hosts, every option at, below and over its limits, alone and in pairs, every set of preprocessors |
| `browser_stage` | what was drained is complete and its errors known, the pool is freed | two producers of four and two batches, one with a parallel section, drained in either order, channels of size 1, four threads, a sink that may refuse |
| `browser_exhaustion` | a disagreement with comments, section 5 | three producers on four threads |
| `browser_run` | a request's own data is used, events are true | three requests, five plans, with and without files, mapping and IFC, any stage failing |
| `rml` | what is delivered is what the mapping means; no spelling changes it | eleven mappings with joins, classes, shared parents, templates without a place and two placeholders over small tables with empty and missing cells, one or two files, one whose name has a placeholder in it, channel of two, a sink that goes |
| `mesh_cache` | the books of the cache are right, caching changes no verdict | three workers, four pairs, meshes below, at and over the budget, one that cannot be prepared |
| `algorithms` | what the pure modules promise, one property each or two | all inputs `MCAlgorithms` lists, about 87 000: each list holds the smallest inputs on which the code branches one way or the other; a fuzzy scan compares two names, a body has at most three items; TLC also evaluates, on all of those listed, `InputAssumption`, what the theorems suppose of inputs, and `MCAssumption`, the condition of `ModulesShareNodes` |

Two producers are enough for the channel properties because streams are
independent of each other but for the pool. Capacity 1 and one batch more than the
channels hold make every blocking send block. No property mentions the capacities,
and the proofs hold for all of them.

In the browser, N producers need `2 * min(N, max_concurrent) + N` threads: a
producer and its forwarder for each chain, a relay for every receiver.
`browser_stage` uses that number; `PoolIsFreed` excepts behaviours in which a
producer has entered a parallel section, and those in which the worker waits for one
producer while another, ahead of it in the queue and drained later, has sent more than
its channels hold (`Overtaken`). Four batches are one more than that is with channels
of size 1, so the run reaches both sides of the exception.

What the properties of `algorithms` say:

| Property | Says |
| --- | --- |
| `OntologyIsApplied` | names change only where a document licenses it; a rule reaches exactly the subjects that satisfy it, though only candidates are looked at |
| `BotIsConsistent` | a zone and an element are related by the strongest evidence there is, and by that only (BOT declares adjacency and intersection disjoint) |
| `PathsAgree` | the modular path and `emit_lbd` tell the same topology, and the hosts' call without topology loses no containment |
| `SetsAreInherited` | in any order of the file an object of one type has its own sets and those of its type that none of them shadows, and is contained in a structure that claims it |
| `ModulesShareNodes` | each value of a property or attribute that both modules write as it is (`WrittenAlike`, a condition on that value) they describe by the same node, state, value and unit, next to values that one of them leaves out or rewrites |
| `SharingChangesNothing` | whichever object is converted first, sharing equal nodes keeps every value the file states, and a node says in full what one of those who share it would say, and nothing that none of them would; whose unit, label and match it has is decided by the threads (section 5) |
| `MatchesAreEarned` | the strongest level that has an answer gives it, ambiguity is told, a guess stays with the properties of its class or set; with the cache every property gets the answer of one of those with its key, and nothing but guesses is lost without it or when it is refused for its name (section 5) |
| `EntitiesStandAlone` | what the graph says of an entity depends neither on the other entities nor on the number of workers: no node stands for two values; the class of a shared number or boolean is excepted (section 5) |
| `TakeOffIsEarned` | what an object gains was measured on it, in the unit every declaration states, under a name none of its sets had; what was authored stays. It was measured on the whole body or on exactly the items `Measured` tells: the sweeps that can be measured, one of a mapped item, of a mixed body one kind, but never on some of the polyhedra, which is less than the code promises (section 5). Sets that several objects share are excepted |
| `GraphsReadBack` | in any layout, grouping and naming of graphs the files read back as the triples that were produced, each in its graph; section 5 has the exceptions |
| `FilesReadBack` | what is written as STEP, with any gaps and any text in strings, is read back; every form of an encoded character decodes to it |
| `ViewerSeesModel` | each viewer sees every product where and in the colour it has in the model |
| `HashTellsChanges` | equal hashes mean equal looks in the world; the order of the meshes after the first is not seen |
| `SectionAgrees` | every edge of the spatial tree is told by the relations, from both ends, and no entity is listed twice |

Fairness. Every OS thread is scheduled (weak fairness of its next step), rayon
runs a spawned job once a thread is free, and `produce` works through a finite
model, so it returns. Nothing forces a waiting thread to pick up another job, a
producer to enter a parallel section, or a consumer to drop its receiver. The work
of a conversion is finite, so for the browser one weak fairness condition on all
progress of the pool is enough. In `CoreChunkWriter` the serializer may pause
between two lines for good; a call it has begun and the writer thread go on. The
other specifications state no fairness and no liveness.

## 4. Proofs

Everything below holds for every value of the constants; the runs of section 3
check the same formulas on small instances first.

`Producers_proofs`, assuming `PoolAssumption` (positive capacities and pool
size): type correctness (with the channel bounds), `PoolInv`, `SlotBound`,
`ErrorsBeforeEof`, `DeliveredInOrder`, and that `ProducerPool` implements
`BatchStreams`. `PoolInv` is inductive; `DeliveredInOrder` alone is not: it says
nothing of the batches under way. `FlowInv` adds that the raw channel, the
forwarder's hands and the receiver's channel hold, one after the other, exactly
the batches between what was received and what was produced; `HopInv` that an
exited forwarder left nothing behind; `JobInv` that the end of a stream implies
both senders are gone and that `errors` follows the job's place. `SlotBound`
follows from `Cardinality(Active) <= kicks`: a chain that continues replaces a
finished job by a new one, and only the kick-off loop adds one.

Of the RML engine it proves, assuming `InputsAssumption` (files are sequences of
records, a mapping uses names that the old vocabularies share), that a run that
succeeds while its triples are taken delivers exactly what the mapping means
(`MappingIsApplied`), and that spelling does not matter. The invariant `EngineInv`
squeezes the triples on their way (delivered, held by the converter, in the channel,
in the executor's batch) between two sets: nothing is there but what the mapping
means (`Upper`), and what the finished maps and records mean is all there (`Lower`).
A record adds its part (`RecordMeant`) because the cache of subjects is right whoever
filled it (`Known`), which rests on ids being unique (`OneId`).

`CliRun_proofs`, assuming `RunAssumption` and `StreamsAssumption` (any number of
producers, at most one IfcOWL producer and at most one with a derived file, any
number of batches, a positive capacity): type correctness; a run that exits with
success is complete (`SuccessMeansComplete`); and manifests, index and derived file
tell the truth (`MarkersTellTheTruth`), in all five modes and whatever fails, but for
the last bytes of a joined file, which `SuccessMeansComplete` excepts: it then says
that what the file lacks was in the buffer at the end. The last two are not inductive, since both speak of the end. `RunInv` says what holds on
the way: the end of a stream comes after its batches, its verdict and its error
(`StreamInv`); a drain thread that is over has seen that end (`DrainInv`); `main` is
past a phase only with all its drains over, and past `check` only without errors
(`PhaseInv`), which no step can undo because no error comes after the last end of a
stream (`NoLateErrors`); a partition holds what its thread took (`PartitionInv`),
and with layout=separate a graph is unsent or in its file (`GraphInv`); derived
files are those of producers that are over (`SidecarInv`); the serializer thread is
through only when nobody can send any more (`SerializerInv`); and until it fails
every batch that was taken is in the hands of its drain thread, unsent, in the
channel, being written, or in a file (`FlowInv`). At success the places in between
are empty.

`ChunkWriter_proofs`, assuming `ChunkAssumption` (positive limits, as `main`
validates): type correctness, `WholeLines`, `EntriesMatch`, `ChunksWithinLimit`, and
that the writer implements `ChunkOutput`, for both modes, any limits and any
buffers; and nothing is lost (`NothingLost`). `WriterInv` adds what holds of the line in hand (its only line end is its
last byte: `LineInv`) and of the open chunk (its counts are right, it holds complete
lines, and it is empty only while its first line is in hand: `FileInv`; it is
within its limit: `LimitInv`). The step that matters is that one more line adds one
line end (`AddLine`). `Concat`, which joins the chunks, is a recursive function on
`0..Len(chunks)`: that it is what its equations say is shown by induction over a set
of numbers (`EveryNumber`, from the well-founded order of the naturals), so that a
published chunk only appends to it (`JoinOneMore`).

`CoreChunkWriter_proofs`, assuming `CoreAssumption` (positive sizes): type
correctness, `Balanced`, `LinesFlow`, that a finished writer has published every line
of every chunk, and that the writer implements `ChunkOutput`, for any number of
chunks, any block and buffer size and any capacity. After any number of lines all
chunks have `done` lines, those before the current one a block more, and the current
one the lines of its block (`RoundInv`). `LinesFlow` needs to know in addition where a
line goes and which buffers a call has still to send; at the end (`EndInv`) the
channel and the buffers are empty, and what is left is in the files.
The same module shows that the two bounds that `clamp` gets in `ChunkCount` never
cross, so it cannot panic; chunks are neither larger than the maximum allows nor,
unless the caller asks for more, smaller than the minimum. The only assumption is
that the sizes are positive and ordered, as the constants of the code are. No run
could show more than an instance of this arithmetic; `chunk_cores` takes its number
of chunks from it.

`ExportSession_proofs`: for any sequence of runs in one directory, any requests and a
stop or a full disk at any step, `VisibleIsWhole`, `ManifestIsBacked` and
`SuccessIsComplete`. `ExportInv` follows the files of the run under way: one that was
opened is under its hidden or its final name, holds what this run wrote, lists what it
should, and is whole once flushed (`Written`); nothing else on the disk is of this run
but its sidecar and its log, of which one may be half written while it runs (`Mine`); and a manifest is opened only when all it lists is closed (`Writers`). Of
the files of earlier runs it says that what a visible manifest lists is there, from the
same run or a later one (`Chained`), and that a run that ended well has replaced the
manifests of every file it left (`Replaced`), so that no older one speaks for them.

`Browser_proofs`: `NothingMissing` for any number of producers and batches, any number
of threads and any capacities, although a thread may stack jobs and jobs may be
stolen. `PoolInv` says that the job of a producer is queued at most once and in one
place (`Apart`); that a producer that is queued, or whose turn has not come, has not
begun (`Waits`); that an error is recorded before the sender goes (`Verdicts`); that
batches in front of a forwarder have one (`Carried`); that until somebody drops a
receiver each batch is in one of the three channels, in a hand, or received (`Flow`);
and that a stream is at its end only with every batch received (`Finished`). Of
`BrowserRun` it proves `OwnDataFirst`: while a request is served the thread-locals it
brought values for have its number; and `EventsTellTheTruth`, from what the page shows
at each phase of a run (`ShownInv`).

`HostSetup_proofs`: accepted plans are sound (`AcceptedPlanIsSound`) for every
registry, with chains and circles of requirements, and every request. `ResolveInv`
is the invariant of the walk: whatever was asked for, or is required by the plan,
is in the plan, on the stack, or about to be pushed (`NothingForgotten`); nothing
else gets in (`NothingAdded`), nothing twice (`NothingTwice`). It shows on the way
that the code's `MissingDependency` error cannot occur. It also shows
that the set-up implements the resolver, so plans of either host are sound, and
that preprocessors and producers only ever run under an accepted plan.

The rest of `HostSetup` is proved under `ManifestsAssumption`, what the manifests of the
built-in plugins say: serializers exclude each other, as standard output excludes files;
a preprocessor requires preprocessors only, spelled before it. `SetupInv` says that the
plan was validated (`Validated`), that what ran had its requirements done before
(`Fulfilled`), and what the context holds (`Single`, `Effective`). From it follow
`RequiredRunFirst`; `ProduceIsPrepared`; and, for options with any keys and values,
`HostsAgree`. For the last, what one table takes and the other refuses is listed
(`CliOption`, `BrowserOption`), and the plain serializer stands in for the chunked one
only when neither has options (`SameQuads`), because the two exclude each other.

`Conversion_proofs` is about what the conversion makes of one model. Of the mesh
cache, assuming `CacheAssumption` (meshes have natural weights): its books are right
for any number of workers, meshes, weights and budget (`CacheIsAccounted`), and
verdicts and the copies that workers hold do not depend on races, evictions or the
budget (`CacheIsTransparent`). `MeshInv` adds what a worker may hold at each place
(`AtWork`), that only the worker with the lock evicts (`OneEvicts`), and that the
weights of the listed ids add up to the total (`Sums`), whose induction over the
list is done by the steps of the code: one id is appended or taken from the front
at a time.

The other theorems of that module are about `ConversionCalls`, whose inputs are
parameters, as large and as many as one likes, of which `InputAssumption` says what
the code grants. The invariant, `CallsInv`, is only that a call has an input of its
kind; the work is a theorem about every input of each algorithm, named below beside
the property that follows from it. The loops of the code are recursive functions of
the model. For each there is a lemma that the function satisfies its own equations
(`...Run`, the values one after the other, and `...Runs`, that the result is the last
of them); what holds of every value then follows by induction over a set of numbers
(`Induction`, `Least`, from the well-founded order of the naturals).

| Theorem, and what it rests on | `InputAssumption`, and why the code grants it | Argument |
| --- | --- | --- |
| `BotIsAlwaysConsistent`, `EveryBotIsConsistent` | `IsModel`: ids are numbers, finitely many; GUIDs tell objects apart, since IRIs are made of them; `containedIn` keeps one relation of an element | `Reached` within as many steps as there are ids is closed (the sets grow, and the first that does not grow is the last), so what propagates along parts, circles too, is the evidence of a part at any depth; no two edges share a triple |
| `PathsAlwaysAgree`, `AllPathsAgree` | `IsModel`, as above | both paths map the same edges; for the call without a topology, what is reached starts with the element itself |
| `SetsAreAlwaysInherited`, `EveryObjectInherits` | `IsFile`: a list of entities with different ids, as in the map of the parser | what is attached after `i` entities is what the first `i` gave; with one type there is one entity at which sets are inherited, after all sets of the object itself |
| `MatchesAreAlwaysEarned`, `EveryMatchIsEarned`, `EveryCacheIsFaithful` | `IsIndex`, `IsProfile`: what the code builds from JSON, lists of codes and tables of names | the first level with a hit decides, and its hit is one code or told as ambiguous; an entry of the cache never changes once it is there, and comes from an occurrence with its key |
| `SharingNeverChangesAnything`, `SharingIsAlwaysNeutral` | `IsOrder` and `Elem(order) = Elem(model)`: objects with lists of sets with lists of properties, each taken at some time | of the occurrences of a shared node one is earliest (places are well ordered), and what it writes is there in full; what is said of the node or of its state was written by an occurrence with the same node, since each node has a state of its own |
| `ModulesAlwaysShareNodes`, `NodesAreAlwaysShared` | nothing more, every model; the property is about each value for which `WrittenAlike` holds: wherever the model has it, neither module leaves it out or rewrites it (a single value that repeats the name of its property, a listed value that is blank or has blanks around it, a tread with noise), and no value with a unit repeats the name of its property, since at level L2 that unit is on a node the value may share | each graph has the triples of its statements of values and no others; of such a value both modules make the same statements, and for a node with a unit both state the unit, so what both say of the value is the same, next to values of which they do not (section 5 says how those differ) |
| `TakeOffIsAlwaysEarned`, `EveryTakeOffIsEarned` | `IsAuthored`: ids tell objects apart, sets that are named exist, and no quantity of the file was measured by the program | every figure of an object is of its whole body or of all the parts closed forms are taken of (`Measured`), and no gross volume of a cut body (`AreOf`, kept by each source of figures and by laying one over the other); `TakenOff` says after each object that what was there still is, that what is new was found for an object that has the set, and that no object has a name twice |

What stays with TLC: liveness (`StageEnds`, `RunEnds`, `PoolIsFreed`, `CallsReturn`),
for which fairness and ENABLED are needed; and of `algorithms` what walks trees or
texts of any depth: expressions (`OntologyIsApplied`), values of entities
(`EntitiesStandAlone`), placed meshes and the spatial tree (`ViewerSeesModel`,
`HashTellsChanges`, `SectionAgrees`), and the readers of STEP and RDF
(`FilesReadBack`, `GraphsReadBack`). Their modules declare RECURSIVE operators, and
what these compute would need induction over data.

## 5. Disagreements with the documentation, and other observations

One is checked as a violation: `spawn_producers` (lib.rs) and `forward_as_tagged`
say that the browser's pool cannot be exhausted. The relays of `to_raw_receiver`
take a thread each: with four threads and three producers the conversion stops
(`browser_exhaustion`). A producer with a parallel section may also run its own
forwarder on its own stack and never return, on a pool of any size; `PoolIsFreed`
excepts it. The same threads run out when sorted joined Turtle drains RML
(`runner.rs:1857`) before IfcOWL (1862) although the queue has IfcOWL first (207-215):
with one chain, IfcOWL fills its channels and RML never starts; `PoolIsFreed` excepts
that too (`Overtaken`). Comments say that the browser runs one producer at a time
(`main.rs:757`, `plugins.rs:153`); `MaxConcurrent` is 2 from five threads on, and the
front end asks for as many threads as the machine has.

The others came up while reading and are what the models do, since they follow the
code. Paths are below `src/crates`.

*Runs and output*
* The README calls the manifest the completion marker. The serializer thread
  publishes it at the end of its input, before `main` looks at the errors of the
  producers (`main.rs:649`): a failed conversion leaves it behind. A failing
  postprocessor even lets it publish a manifest without any chunk (`ManifestLast`
  names that exception). With layout=separate the files of all graphs are complete
  before the errors are looked at.
* Joined Turtle and N-Quads in one piece go through a `BufWriter` that is dropped
  without a flush (`main.rs:602-668`): if the last write fails, the run exits with
  success and the file is cut. Nothing promises otherwise of a single file, which has
  no manifest; `SuccessMeansComplete` and `SuccessIsComplete` say so. A sidecar or a
  log is written under its final name and can be seen half written
  (`pipeline_plugins.rs:772`, 908, 944).
* The plugin guide says that the failure of an Optional plugin is logged; `main`
  aborts the run for every entry of `producer_errors` (`main.rs:907`). It says that
  `insert` panics for a type that is present; `main.rs:479` inserts structured data a
  second time, and `get` then finds the first.
* The log exporter of the command line copies the log when its session starts, so
  the producers' entries are missing; `stdout` with chunked output prints the JSON of
  the manifest too. The channel for sidecar files is bounded and emptied only after
  all producers are done; one file per run is all there is today.

*Browser*
* Structured data or a mapping of an earlier request stays and is used when the
  next brings none (`runner.rs:97-123`); `OwnDataFirst` says what is certain. The
  input is parsed a second time with `expect`, "will not fail" (`runner.rs:541`);
  structured data without an IFC file never passed the first parse.
* A producer that fails is first told to the page as a success; geometry is always
  told as one; a failing postprocessor ends the run before errors are told.
* With separate Turtle files, one file is written per batch and the page appends.
  The export sessions of the browser's plugins are never started. The browser has no
  file system, so an RML mapping never finds its sources there.

*RML*
* A missing or empty cell in a term map, or a join without a match, ends the run;
  empty cells join each other. Only the first placeholder is replaced; a mapping that
  names two sources fails on every file. `rr:subject` is refused by the conformer
  although the factory reads it; an IRI in an object's `constant` becomes a literal
  unless a term type is given. Graph and language are dropped.

*Properties and dictionary*
* The key of a shared node leaves out the unit, against the comment on it
  (lbd-converter `lib.rs` 2654 and 107): two objects with the same number in
  different units share one. It leaves out the class of the object and the spelling
  of the property's name, too, on which the match with the dictionary depends: a
  door's node may have the code, the candidates, the label, the status and the
  confidence of a wall's (`bsdd.rs` 2179-2315), whichever thread came first. At level
  L2 a property set and a quantity set of one name share nodes. bSDD takes enumerated
  values as they are and writes texts that repeat their property's name, where props
  trims and leaves them out; their labels differ where a set has no name.
* The cache of matches has one key for two spellings; which of them it was filled
  from depends on the order. Its fuzzy scan compares 400 names in the order of a
  hash map, so a closer one may go unseen. The cache is taken only when its profile's id is
  the name or path that was asked for: with a profile from a file, or one that an
  environment variable puts in place of another, the preprocess module's work is
  dropped without a word and guesses are lost (`bsdd.rs:1307`, against the comment
  above it). The counts of the summary never show a fuzzy match. With `no_fuzzy` the
  exact steps still run, against one comment. A global alias wins over one scoped to a
  set, and an exact hit at an earlier name over a hard mapping at a later one.
* ifcOWL: the key of a cached number or boolean leaves out its class (`lib.rs`
  1653-1666), so which class a shared one gets depends on the other entities and on the
  number of workers: an IfcBoolean and a BOOLEAN, or an IfcLogical and a LOGICAL, of one
  value are one node. Scalars of arguments without a declared range are dropped.

*Ontology, topology, model*
* A sub-axiom stated twice counts as two children and loses its reverse; an empty
  intersection is true but has no candidates; rules run once, without a fixpoint.
* `emit_lbd` is called without topology by both hosts and uses a containment of its
  own. `merge_geometry_relations` is not fed by anyone. The comment that peak memory
  does not grow with the number of cores (topology plugin, 424) leaves out meshes in
  flight.
* For an object with two types or two containers the file's order decides. A GUID
  whose first digit is above 3 overflows 32 bits (`guid.rs:95`).

*Quantities*
* A quantity set that several objects share is extended once for each of them, so
  each shows the figures of all. Sweeps that cannot be measured are skipped and the
  rest summed (`lib.rs:471`), bodies that mix sweeps and polyhedra are summed over one
  kind only, and a mapped item contributes only its first sweep: volumes of a part that
  stand for the whole, against "a wrong number is worse than a missing one"
  (`lib.rs:27`). `TakeOffIsEarned` says which part it is, not that there is none.

*STEP*
* Comments are not skipped; a doubled backslash, `\X4\` and `\P` are not decoded;
  strings of the header are taken byte by byte, and its search for a keyword looks
  into strings; `DATA;` must stand alone on its line. Later entities win over earlier
  ones with the same id.

*Text of RDF*
* `mark_used_prefixes_for_iri` takes the first namespace an IRI starts with, whether
  or not what is left is a name; `compact_iri` goes on to the next. Under a base such
  as `https://w3id.org/` sorted Turtle uses `bot:` without declaring it. A name may
  end in a dot, which Turtle does not allow; rdf:type as a subject, object or datatype
  is written `a`. IRIs are never escaped.

*Geometry files*
* Ids of samples, materials and representations start at 1 and collide with those of
  entities. glTF keeps the colour of an element's first mesh and skips elements
  without triangles. Face ids of a shell wrap at 65 536. The hash depends on which
  mesh is first, against its comment. A panic in the geometry thread gives an empty
  geometry.
* A list that mixes references and other values is lost in both tables; the default
  names of arguments are wrong for some classes (arguments 8 and 9 of a door). The
  tree starts at the first root of a hash map, and parts of elements are not in it.
  Parquet's `IsDefinedBy` runs opposite to the relation of that name.

## 6. What could come next

* `CliRun` with `ExportSession` in place of its file operations.
* The BEO, OMG/FOG and bounding box modules, the sources of the RML library, GUIDs.

## 7. Not modelled

* Floating point: solid operations, intersection of meshes, quantities of solids. The
  modules take their results as inputs (`outcome` of a pair of meshes, `volume` of an
  item, the meshes of the geometry library).
* Wording and formats: how IRIs and values are spelled, the flatbuffer of
  fragments, binary glTF and Parquet encodings, logs, reports, statistics.
* Reading CSV, JSON, XML and databases for RML, and functions in mappings: a record is
  an input.
* The user interface, the desktop shell and scripts, plugin templates, the validation
  tool, memory estimates and dry runs.

Bounds and simplifications inside the modules: geometry is a plane of integer points
with quarter turns; hashes are taken as injective; one key of the geometry library
means one mesh; names in `BsddMatching` are words, the score of two names and the order of a hash map are
tables; a placeholder of a mapping is looked for in the names of its sources only;
an item of a representation nests at most six deep, as in the code. `PROJECT.json`
lists every component with its status and the lines each definition stands for.
