------------------------------- MODULE RmlRun -------------------------------
(* The RML producer (rml-mapper-producer engine, rml-mapper-lib executor).   *)
(* For each input file the mapping is prepared, its triples maps are run in  *)
(* the order the mapping store happens to give them (a hash set), a map with *)
(* joins record by record with a cache of subjects, any other map as a whole *)
(* on the thread pool; quads go through a bounded channel to a converter     *)
(* thread, which passes them on in batches.  The graph of a quad is left     *)
(* out: the converter drops it.                                              *)
EXTENDS RmlMapping

CONSTANTS
    Inputs,         \* [graph, files, data]: the mapping, the files in order, their records
    Placeholders,   \* the source names that stand for the input, in the order they are tried
    Embedded,       \* <<placeholder, name>>: the longer name has the placeholder in it
    QuadBatch,      \* executor batches (1000 in the code)
    TripleBatch,    \* converter batches
    QuadCapacity    \* batches the channel between the two holds

(* A mapping is written in names that the old vocabularies have as well; a  *)
(* file is a sequence of records, and is there when it is asked for.        *)
SharedNames ==
    (R2rmlNames \ {"column"}) \cup
    { "logicalSource", "source", "referenceFormulation", "iterator", "reference" }
ASSUME InputsAssumption ==
    \A in \in Inputs :
        /\ \A t \in in.graph : t[2] \in {"new"} \X SharedNames
        /\ in.files \in Seq(DOMAIN in.data)
        /\ \A f \in DOMAIN in.data : in.data[f] \in Seq(Range(in.data[f]))

VARIABLES
    input,
    at,             \* the file being worked on, an index
    todo,           \* the triples maps still to run on it
    current,        \* [map, next, batch]; next is 0 between two maps
    subjects,       \* the subjects cache: <<triples map, record>> to terms
    quads,          \* the channel to the converter
    pending,        \* what the converter holds
    converter,      \* "none" | "running" | "gone"
    delivered,      \* triples passed on
    open,           \* the forwarder takes triples
    status          \* "running" | "ok" | "failed"

executor == <<input, at, todo, current, subjects, status>>
engine == <<executor, quads, pending, converter, delivered, open>>

(* prepare_mapping_for_source: the first placeholder that occurs and is not *)
(* part of the file's name gives way to it, and only that one.  In a longer *)
(* name of a source it gives way as well, which makes the name of no file.  *)
SourcesOf(g) == { t[3][2] : t \in { u \in g : u[2][2] = "source" } }
Occurs(place, name) == place = name \/ <<place, name>> \in Embedded
Renaming(name, place, file) ==
    IF name = place THEN file ELSE IF <<place, name>> \in Embedded THEN name \o file ELSE name
Prepared(g, file) ==
    LET hits == { i \in DOMAIN Placeholders :
                    ~ Occurs(Placeholders[i], file) /\ \E name \in SourcesOf(g) : Occurs(Placeholders[i], name) }
        stale == Placeholders[CHOOSE i \in hits : \A j \in hits : i <= j]
    IN  IF hits = {} THEN g
        ELSE { IF t[2][2] = "source" THEN <<t[1], t[2], <<t[3][1], Renaming(t[3][2], stale, file)>> >> ELSE t : t \in g }

File == input.files[at]
Doc == Document(Conform(Prepared(input.graph, File)))
Records == input.data[File]

(* The directory holds the current file and nothing else.                   *)
Opens(m) == m.source = File
HasJoins(m) == \E pom \in m.poms : pom.joins # {}

(* as_string compares an empty cell with an empty cell as equal.            *)
Matches(join, child, parent) ==
    \A c \in join.on :
        /\ Head(c[1]) \in DOMAIN child /\ Head(c[2]) \in DOMAIN parent
        /\ child[Head(c[1])] = parent[Head(c[2])]
Parent(join) == CHOOSE m \in Doc : m.id = join.parent
Matching(join, r) == { i \in DOMAIN Records : Matches(join, r, Records[i]) }

CachedByChild(m, i) ==
    IF \E j \in DOMAIN Records : <<m.id, j>> \in DOMAIN subjects
    THEN subjects[<<m.id, CHOOSE j \in DOMAIN Records : <<m.id, j>> \in DOMAIN subjects>>]
    ELSE Terms(m.subject, Records[i])
Cached(m, i) ==
    IF <<m.id, i>> \in DOMAIN subjects THEN subjects[<<m.id, i>>] ELSE Terms(m.subject, Records[i])

(* ----- one record ------------------------------------------------------- *)
Fails(gen, r) == Terms(gen, r) = {}
Predicates(pom, r) == UNION { Terms(gen, r) : gen \in pom.predicates }
Plain(pom, r) == UNION { Terms(gen, r) : gen \in pom.objects }
Joined(pom, r) == UNION { UNION { Cached(Parent(j), i) : i \in Matching(j, r) } : j \in pom.joins }

JoinFails(join, r) ==
    \/ \A m \in Doc : m.id # join.parent
    \/ ~ Opens(Parent(join))
    \/ Matching(join, r) = {}
    \/ \E i \in Matching(join, r) : Fails(Parent(join).subject, Records[i])

RecordFails(m, r) ==
    \/ Fails(m.subject, r)
    \/ m.subject.type = "literal" /\ (m.classes # {} \/ m.poms # {})
    \/ \E pom \in m.poms :
          \/ \E gen \in pom.predicates \cup pom.objects : Fails(gen, r)
          \/ \E j \in pom.joins : JoinFails(j, r)

RecordQuads(m, r) ==
    LET subs == Terms(m.subject, r) IN
    { <<s, RdfType, Iri(c)>> : s \in subs, c \in m.classes }
    \cup UNION { { <<s, p, o>> : s \in subs, p \in Predicates(pom, r),
                                 o \in Plain(pom, r) \cup Joined(pom, r) } : pom \in m.poms }

(* ----- the executor ----------------------------------------------------- *)
NoSubjects == [ k \in {} |-> {} ]
(* The cache once more of it is known.                                      *)
Grown(more) ==
    [ k \in DOMAIN subjects \cup DOMAIN more |-> IF k \in DOMAIN more THEN more[k] ELSE subjects[k] ]
NoMap == [ map |-> NoSubjects, next |-> 0, batch |-> {} ]
Idle == current.next = 0

RunInit ==
    /\ input \in Inputs
    /\ at = 0 /\ todo = {} /\ current = NoMap /\ subjects = NoSubjects
    /\ quads = <<>> /\ pending = {} /\ converter = "none"
    /\ delivered = {} /\ open = TRUE /\ status = "running"

Fail == status' = "failed" /\ current' = NoMap

(* The next file: a new executor and a new converter, or an error before    *)
(* either exists.  The call before has joined its converter.                *)
NextFile ==
    /\ status = "running" /\ Idle /\ todo = {}
    /\ converter # "running"
    /\ at < Len(input.files)
    /\ at' = at + 1
    /\ subjects' = NoSubjects
    /\ IF Accepted(Conform(Prepared(input.graph, input.files[at + 1])))
       THEN /\ todo' = Document(Conform(Prepared(input.graph, input.files[at + 1])))
            /\ converter' = "running"
            /\ UNCHANGED <<status, current>>
       ELSE Fail /\ UNCHANGED <<todo, converter>>
    /\ quads' = <<>> /\ pending' = {}
    /\ UNCHANGED <<input, delivered, open>>

Done == status = "running" /\ Idle /\ todo = {} /\ at = Len(input.files) /\ converter # "running"
Return ==
    /\ Done
    /\ status' = "ok"
    /\ UNCHANGED <<input, at, todo, current, subjects, quads, pending, converter, delivered, open>>

(* A map without joins has its records done before any quad is sent.        *)
StartMap(m) ==
    /\ status = "running" /\ Idle /\ m \in todo
    /\ todo' = todo \ {m}
    /\ IF ~ Opens(m) \/ (~ HasJoins(m) /\ \E i \in DOMAIN Records : RecordFails(m, Records[i]))
       THEN Fail
       ELSE current' = [ map |-> m, next |-> 1, batch |-> {} ] /\ UNCHANGED status
    /\ UNCHANGED <<input, at, subjects, quads, pending, converter, delivered, open>>

(* send: blocks while the channel is full, fails when the converter is gone.*)
Send(batch) ==
    IF converter = "gone"
    THEN Fail /\ UNCHANGED quads
    ELSE /\ Len(quads) < QuadCapacity
         /\ quads' = Append(quads, batch)
         /\ UNCHANGED status

More == status = "running" /\ ~ Idle /\ current.next <= Len(Records)

(* One record; in a map with joins it may fail, and the cache grows by its  *)
(* own subjects and by those of its parents.                                *)
ProcessRecord ==
    /\ More
    /\ LET m == current.map
           r == Records[current.next]
           batch == current.batch \cup RecordQuads(m, r)
           next == [ current EXCEPT !.next = @ + 1 ]
           parents == UNION { UNION { { <<Parent(j), i>> : i \in Matching(j, r) } : j \in pom.joins } : pom \in m.poms }
           known == { <<m, current.next>> } \cup parents
       IN  IF HasJoins(m) /\ RecordFails(m, r)
           THEN Fail /\ UNCHANGED <<quads, subjects>>
           ELSE /\ subjects' = IF ~ HasJoins(m) THEN subjects
                               ELSE Grown([ k \in { <<q[1].id, q[2]>> : q \in known } |->
                                        LET q == CHOOSE p \in known : k = <<p[1].id, p[2]>> IN Cached(q[1], q[2]) ])
                /\ IF Cardinality(batch) >= QuadBatch
                   THEN Send(batch) /\ (status' = "failed" \/ current' = [ next EXCEPT !.batch = {} ])
                   ELSE current' = [ next EXCEPT !.batch = batch ] /\ UNCHANGED <<status, quads>>
    /\ UNCHANGED <<input, at, todo, pending, converter, delivered, open>>

FinishMap ==
    /\ status = "running" /\ ~ Idle /\ current.next > Len(Records)
    /\ subjects' = IF HasJoins(current.map) THEN subjects
                   ELSE Grown([ k \in { <<current.map.id, i>> : i \in DOMAIN Records } |->
                                  Terms(current.map.subject, Records[k[2]]) ])
    /\ IF current.batch = {} THEN UNCHANGED <<status, quads>> ELSE Send(current.batch)
    /\ current' = NoMap
    /\ UNCHANGED <<input, at, todo, pending, converter, delivered, open>>

(* ----- the converter thread --------------------------------------------- *)
Released == status = "failed" \/ (todo = {} /\ Idle)

Convert ==
    /\ converter = "running" /\ quads # <<>>
    /\ quads' = Tail(quads)
    /\ LET batch == pending \cup Head(quads) IN
       IF Cardinality(batch) < TripleBatch
       THEN pending' = batch /\ UNCHANGED <<delivered, converter>>
       ELSE /\ pending' = {}
            /\ delivered' = IF open THEN delivered \cup batch ELSE delivered
            /\ converter' = IF open THEN "running" ELSE "gone"
    /\ UNCHANGED <<executor, open>>

ConverterEnds ==
    /\ converter = "running" /\ quads = <<>> /\ Released
    /\ delivered' = IF open THEN delivered \cup pending ELSE delivered
    /\ pending' = {} /\ converter' = "gone"
    /\ UNCHANGED <<executor, quads, open>>

(* The forwarder stops when the sink is gone.                               *)
Close ==
    /\ open /\ open' = FALSE
    /\ UNCHANGED <<executor, quads, pending, converter, delivered>>

RunNext ==
    \/ NextFile
    \/ \E m \in todo : StartMap(m)
    \/ ProcessRecord
    \/ FinishMap
    \/ Return
    \/ Convert
    \/ ConverterEnds
    \/ Close

RunSpec == RunInit /\ [][RunNext]_engine

(* ----- properties ------------------------------------------------------- *)
(* What a mapping means for the records of a file, without order, caches or *)
(* batches: joined objects are the subjects of all matching parents.        *)
Meant(doc, records, m, r) ==
    LET subs == Terms(m.subject, r)
        parents(j) == { q \in doc \X DOMAIN records : q[1].id = j.parent /\ Matches(j, r, records[q[2]]) }
        objects(pom) ==
            (UNION { Terms(gen, r) : gen \in pom.objects }) \cup
            UNION { UNION { Terms(q[1].subject, records[q[2]]) : q \in parents(j) } : j \in pom.joins }
    IN  { <<s, RdfType, Iri(c)>> : s \in subs, c \in m.classes } \cup
        UNION { { <<s, p, o>> : s \in subs, o \in objects(pom),
                                p \in UNION { Terms(gen, r) : gen \in pom.predicates } } : pom \in m.poms }
Meaning(doc, records) == UNION { UNION { Meant(doc, records, m, records[i]) : i \in DOMAIN records } : m \in doc }

MeaningOfFile(file) ==
    LET g == Conform(Prepared(input.graph, file)) IN
    IF Accepted(g) THEN Meaning({ m \in Document(g) : m.source = file }, input.data[file]) ELSE {}
MeaningOfFiles(n) == UNION { MeaningOfFile(input.files[k]) : k \in 1..n }

(* A run that succeeds while its triples were taken has delivered exactly   *)
(* what the mapping means on every file, whatever order the maps ran in,    *)
(* however the caches were filled and the batches cut; a run that fails has *)
(* delivered nothing else.  (execute_rml_streaming, Executor.)              *)
MappingIsApplied ==
    /\ delivered \subseteq MeaningOfFiles(at)
    /\ status = "ok" /\ open => delivered = MeaningOfFiles(Len(input.files))

(* How a mapping is spelled does not matter: the same triples maps come of  *)
(* the W3C vocabulary and of the old RML and R2RML names for it, and one is *)
(* accepted when the other is.  (conformer get_predicate_mappings against   *)
(* the names the mapping factory looks up.)                                 *)
OldRml(p) ==
    IF p[1] # "new" \/ p[2] = "baseIRI" THEN p
    ELSE IF p[2] \in {"logicalSource", "source", "referenceFormulation", "iterator", "reference"}
         THEN <<"rml", p[2]>> ELSE <<"rr", p[2]>>
R2rml(p) == IF p = <<"new", "reference">> THEN <<"rr", "column">> ELSE OldRml(p)

SpellingDoesNotMatter ==
    LET modern == input.graph
        old == { <<t[1], OldRml(t[2]), t[3]>> : t \in modern }
        r2rml == { <<t[1], R2rml(t[2]), t[3]>> : t \in modern }
    IN  \A g \in {old, r2rml} :
            /\ Accepted(Conform(g)) <=> Accepted(Conform(modern))
            /\ Accepted(Conform(modern)) => Document(Conform(g)) = Document(Conform(modern))
=============================================================================
