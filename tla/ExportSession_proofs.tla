------------------------- MODULE ExportSession_proofs -------------------------
(* What the export sessions leave on disk, for any number of runs, any       *)
(* graphs and any requests: crashes, failed writes and older files included. *)
EXTENDS ExportSession, SequenceTheorems, TLAPS

Steps == {"none", "open", "flushed", "dropped", "published"}

(* A run that is under way or ended well: its request and writers are known. *)
Live == exits # <<>> /\ Last(exits) \in {"running", "ok"}
Started(f) == ~ At(f, "none")

(* Where the bytes of a file that was opened are, and what it lists.         *)
Location(f) ==
    IF Staged(f) /\ ~ At(f, "published") THEN TemporaryName(request, f)
    ELSE PublishedName(request, f)
Lists(f) == {PublishedName(request, m) : m \in Members(request, f)}
SidecarPath == Path(Sidecar, FALSE, FALSE)
LogPath == Path(LogFile, FALSE, FALSE)

(* Every file belongs to a run there has been.                               *)
History ==
    /\ exits \in Seq({"running", "ok", "failed"})
    /\ \A p \in DOMAIN disk : disk[p].run \in 1 .. Run

(* The writers of a run: what the session knows of them, and that a manifest *)
(* is opened when all that it lists is closed.                               *)
Writers ==
    Live =>
        /\ step \in [Files(request) -> Steps]
        /\ DOMAIN session = {"opened", "staged", "derived"}
        /\ session.opened \in Seq(Files(request))
        /\ Range(session.opened) = {f \in Files(request) : Started(f)}
        /\ session.derived \in {<<>>, <<Sidecar>>}
        /\ session.derived = <<>> \/ OnDisk
        /\ \A f \in Files(request) : Started(f) => \A m \in Members(request, f) : Closed(m)
        /\ \A f \in Files(request) : At(f, "published") => Staged(f)

(* The file of a writer is there, has what this run wrote, and is whole once *)
(* it was flushed, unless it is zipped.                                      *)
InPlace(f) ==
    /\ Location(f) \in DOMAIN disk
    /\ disk[Location(f)].run = Run
    /\ disk[Location(f)].lists = Lists(f)
    /\ step[f] \in {"flushed", "dropped", "published"} /\ Flushes(request) /\ ~ Zipped(request) =>
          disk[Location(f)].whole
Written == Live /\ OnDisk => \A f \in Files(request) : Started(f) => InPlace(f)
SidecarWritten ==
    Live /\ session.derived # <<>> =>
        SidecarPath \in DOMAIN disk /\ disk[SidecarPath].run = Run /\ disk[SidecarPath].whole

(* What this run wrote is what its writers, its sidecar and its log are; one *)
(* of the last two can be begun and not filled while the run is at work.     *)
Half(p) == Last(exits) = "running" /\ ~ disk[p].whole
Owned(p) ==
    \/ \E f \in Files(request) : Started(f) /\ p = Location(f)
    \/ p = SidecarPath /\ (session.derived # <<>> \/ Half(p))
    \/ p = LogPath /\ request.exporter = "log" /\ (Last(exits) = "ok" \/ Half(p))
Mine == Live => \A p \in DOMAIN disk : disk[p].run = Run => OnDisk /\ Owned(p)

(* What a visible manifest lists is there, from its own run or a later one.  *)
Chained ==
    \A m \in DOMAIN disk : ~ m.hidden => \A f \in disk[m].lists :
        /\ f \in DOMAIN disk
        /\ disk[f].run >= disk[m].run
        /\ ~ f.hidden /\ f.gz = m.gz
        /\ f.file[1] \in {"part", "manifest"}
        /\ m.file \in {Manifest(f.file[2]), Manifest("lbd")}

(* A run that ended well has replaced the manifests of every file it left.   *)
Companions(p) == {Path(Manifest(p.file[2]), p.gz, FALSE), Path(Manifest("lbd"), p.gz, FALSE)}
Replaced ==
    \A p \in DOMAIN disk :
        ~ p.hidden /\ p.file[1] \in {"part", "manifest"} /\ exits[disk[p].run] = "ok" =>
            \A c \in Companions(p) : c \in DOMAIN disk /\ disk[c].run >= disk[p].run

(* What finalize returned.                                                   *)
Summed ==
    exits # <<>> /\ Last(exits) = "ok" =>
        /\ \A f \in Files(request) : Closed(f)
        /\ summary = {PublishedName(request, f) : f \in Files(request)}
                       \cup (IF session.derived = <<>> THEN {} ELSE {SidecarPath})
                       \cup (IF request.exporter = "log" THEN {LogPath} ELSE {})
        /\ request.exporter = "log" =>
              LogPath \in DOMAIN disk /\ disk[LogPath].run = Run /\ disk[LogPath].whole

ExportInv ==
    /\ History /\ Writers /\ Written /\ SidecarWritten /\ Mine
    /\ VisibleIsWhole /\ Chained /\ Replaced /\ Summed

(* ----- files and paths -------------------------------------------------- *)
LEMMA FileKinds ==
    ASSUME NEW r, NEW f \in Files(r)
    PROVE  \/ f[1] = "data" /\ ~ FlushesChunksOnly(r)
           \/ /\ f[1] \in {"part", "manifest"} /\ FlushesChunksOnly(r) /\ Flushes(r)
              /\ Manifest(f[2]) \in Files(r) /\ Manifest("lbd") \in Files(r)
              /\ f[1] = "manifest" => f = Manifest(f[2])
    <1>1. CASE r.layout = "joined"
        BY <1>1 DEF Files, FlushesChunksOnly
    <1>2. CASE r.layout = "separate"
        BY <1>2 DEF Files, FlushesChunksOnly
    <1>3. CASE r.layout \notin {"joined", "separate"}
        <2>1. Files(r) = Parts(r) \cup {Manifest(g) : g \in SeriesOf(r) \cup {"lbd"}}
            BY <1>3 DEF Files
        <2>2. CASE f \in Parts(r)
            <3>1. f[1] = "part" /\ f[2] \in SeriesOf(r)
                BY <2>2 DEF Parts
            <3> QED BY <1>3, <2>1, <3>1 DEF FlushesChunksOnly, Flushes
        <2>3. CASE f \in {Manifest(g) : g \in SeriesOf(r) \cup {"lbd"}}
            <3>1. PICK g \in SeriesOf(r) \cup {"lbd"} : f = Manifest(g)
                BY <2>3
            <3>2. f[1] = "manifest" /\ f[2] = g
                BY <3>1 DEF Manifest
            <3> QED BY <1>3, <2>1, <3>1, <3>2 DEF FlushesChunksOnly, Flushes
        <2> QED BY <2>1, <2>2, <2>3
    <1> QED BY <1>1, <1>2, <1>3

LEMMA MemberKinds ==
    ASSUME NEW r, NEW f \in Files(r), NEW m \in Members(r, f)
    PROVE  /\ m \in Files(r) /\ m[1] \in {"part", "manifest"}
           /\ f \in {Manifest(m[2]), Manifest("lbd")}
    <1>1. f[1] = "manifest" /\ f = Manifest(f[2]) /\ FlushesChunksOnly(r)
        BY FileKinds DEF Members
    <1>2. Parts(r) \subseteq Files(r)
        BY <1>1 DEF Files, FlushesChunksOnly
    <1>3. CASE r.layout = "producers" /\ f[2] = "lbd"
        <2>1. m \in Files(r)
            BY <1>1, <1>3 DEF Members
        <2>2. m[1] \in {"part", "manifest"}
            BY <1>1, <2>1, FileKinds
        <2> QED BY <1>1, <1>3, <2>1, <2>2
    <1>4. CASE ~ (r.layout = "producers" /\ f[2] = "lbd")
        <2>1. m \in Parts(r) /\ m[2] = f[2]
            BY <1>1, <1>4 DEF Members
        <2>2. m[1] = "part"
            BY <2>1 DEF Parts
        <2> QED BY <1>1, <1>2, <2>1, <2>2
    <1> QED BY <1>3, <1>4

LEMMA Unlisted ==
    ASSUME NEW r, NEW f, f[1] # "manifest"
    PROVE  Members(r, f) = {}
    BY DEF Members

(* Names are injective, and those of a session's files are not the sidecar's *)
(* or the log's.                                                             *)
LEMMA LocationFields ==
    ASSUME NEW f
    PROVE  /\ Location(f).file = f /\ Location(f).gz = Zipped(request)
           /\ Location(f).hidden <=> Staged(f) /\ ~ At(f, "published")
           /\ Staged(f) => (f[1] # "data")
    BY DEF Location, TemporaryName, PublishedName, Path, Staged

(* ----- operators on files and sequences ----------------------------------- *)
LEMMA AppendFacts ==
    ASSUME NEW S, NEW s \in Seq(S), NEW e \in S
    PROVE  /\ Append(s, e) \in Seq(S) /\ Append(s, e) # <<>>
           /\ Len(Append(s, e)) = Len(s) + 1
           /\ Last(Append(s, e)) = e
           /\ Range(Append(s, e)) = Range(s) \cup {e}
           /\ Append(s, e)[Len(s) + 1] = e
           /\ \A i \in 1 .. Len(s) : Append(s, e)[i] = s[i]
    <1>1. /\ Len(s) \in Nat /\ DOMAIN s = 1 .. Len(s)
          /\ DOMAIN Append(s, e) = 1 .. (Len(s) + 1)
          /\ Append(s, e) \in Seq(S)
          /\ Len(Append(s, e)) = Len(s) + 1
          /\ Append(s, e)[Len(s) + 1] = e
          /\ \A i \in 1 .. Len(s) : Append(s, e)[i] = s[i]
        OBVIOUS
    <1>2. 1 .. (Len(s) + 1) = 1 .. Len(s) \cup {Len(s) + 1}
        BY <1>1
    <1>3. Range(Append(s, e)) = Range(s) \cup {e}
        BY <1>1, <1>2 DEF Range
    <1>4. Append(s, e) # <<>>
        <2>1. Len(<<>>) = 0
            OBVIOUS
        <2> QED BY <1>1, <2>1
    <1> QED BY <1>1, <1>3, <1>4 DEF Last

LEMMA FrontFacts ==
    ASSUME NEW S, NEW s \in Seq(S), s # <<>>
    PROVE  /\ Front(s) \in Seq(S)
           /\ Len(Front(s)) = Len(s) - 1
           /\ \A i \in 1 .. (Len(s) - 1) : Front(s)[i] = s[i]
           /\ Last(s) = s[Len(s)]
           /\ Len(s) \in Nat \ {0}
    <1>1. Len(s) \in Nat \ {0} /\ s \in [1 .. Len(s) -> S]
        BY SMT
    <1> QED BY <1>1 DEF Front, Last

(* How a run ends: only the last of exits changes.                           *)
LEMMA EndOfRun ==
    ASSUME NEW S, NEW s \in Seq(S), s # <<>>, NEW e \in S
    PROVE  LET t == Append(Front(s), e) IN
           /\ t \in Seq(S) /\ t # <<>> /\ Len(t) = Len(s) /\ Last(t) = e
           /\ t[Len(s)] = e
           /\ \A i \in 1 .. (Len(s) - 1) : t[i] = s[i]
    <1>1. /\ Front(s) \in Seq(S) /\ Len(Front(s)) = Len(s) - 1
          /\ \A i \in 1 .. (Len(s) - 1) : Front(s)[i] = s[i]
          /\ Len(s) \in Nat \ {0}
        BY FrontFacts
    <1> QED BY <1>1, AppendFacts

(* ----- a writer writes into its file --------------------------------------- *)
DiskInv ==
    /\ History /\ Written /\ SidecarWritten /\ Mine
    /\ VisibleIsWhole /\ Chained /\ Replaced /\ Summed

LEMMA RunningIsLive ==
    History /\ Running =>
        /\ Live /\ Last(exits) = "running" /\ Run \in Nat \ {0}
        /\ exits[Run] = "running"
    <1> SUFFICES ASSUME History, Running
                 PROVE  Live /\ Last(exits) = "running" /\ Run \in Nat \ {0} /\ exits[Run] = "running"
        OBVIOUS
    <1>1. exits \in Seq({"running", "ok", "failed"}) /\ exits # <<>> /\ Last(exits) = "running"
        BY DEF History, Running
    <1>2. Last(exits) = exits[Len(exits)] /\ Len(exits) \in Nat \ {0}
        BY <1>1, FrontFacts
    <1> QED BY <1>1, <1>2 DEF Live, Run

LEMMA FillOnDisk ==
    ASSUME ExportInv, Running, OnDisk, NEW f \in Files(request), ~ At(f, "published"),
           NEW s \in {"open", "flushed", "dropped"}, NEW w \in BOOLEAN,
           s # "open" /\ Flushes(request) /\ ~ Zipped(request) => w,
           step' = [step EXCEPT ![f] = s], disk' = Fill(f, w),
           UNCHANGED <<request, exits, summary>>, session'.derived = session.derived
    PROVE  DiskInv'
    <1> DEFINE q == SinkPath(request, f)
               c == Content(f, w)
    <1>1. /\ Live /\ Live' /\ Last(exits) = "running" /\ Run \in Nat \ {0} /\ Run' = Run
          /\ exits[Run] = "running" /\ OnDisk'
        BY RunningIsLive DEF ExportInv, Live, Run, OnDisk
    <1>2. step \in [Files(request) -> Steps]
        BY <1>1 DEF ExportInv, Writers
    <1>3. /\ DOMAIN disk' = DOMAIN disk \cup {q}
          /\ disk'[q] = c
          /\ \A p \in DOMAIN disk : p # q => disk'[p] = disk[p]
        <2>1. disk' = [p \in DOMAIN disk \cup {q} |-> IF p = q THEN c ELSE disk[p]]
            BY DEF Fill, Put
        <2> HIDE DEF q, c
        <2> QED BY <2>1
    <1>4. /\ c.run = Run /\ c.whole = w /\ c.lists = Lists(f)
        BY DEF Content, Lists
    <1>5. /\ q = Location(f) /\ q.file = f /\ q.hidden = Staged(f)
        BY DEF Location, SinkPath, TemporaryName, PublishedName, Path, Staged
    <1>6. /\ step'[f] = s /\ \A g \in Files(request) : g # f => step'[g] = step[g]
        BY <1>2
    <1>7. /\ \A g : Lists(g)' = Lists(g)
          /\ Location(f)' = q
          /\ \A g \in Files(request) : g # f => /\ Location(g)' = Location(g) /\ Location(g) # q
                                                /\ (Started(g)' <=> Started(g))
          /\ Started(f)'
        <2>1. \A g \in Files(request) : At(g, "published")' <=> At(g, "published")
            BY <1>6 DEF At
        <2>2. \A g \in Files(request) : Location(g)' = Location(g)
            BY <2>1 DEF Location, TemporaryName, PublishedName, Zipped
        <2>3. \A g : Location(g).file = g
            BY LocationFields
        <2>4. \A g \in Files(request) : g # f => (Started(g)' <=> Started(g))
            BY <1>6 DEF Started, At
        <2>5. Started(f)'
            BY <1>6 DEF Started, At
        <2> QED BY <1>5, <2>2, <2>3, <2>4, <2>5 DEF Lists, PublishedName, Zipped
    <1>8. ~ q.hidden => f[1] = "data"
        BY <1>5 DEF Staged
    <1>9. f[1] = "data" => Lists(f) = {}
        BY Unlisted DEF Lists
    <1> HIDE DEF q, c
    <1>10. History'
        BY <1>1, <1>3, <1>4 DEF ExportInv, History, Run
    <1>11. Written'
        <2> SUFFICES ASSUME NEW g \in Files(request), Started(g)'
                     PROVE  InPlace(g)'
            BY DEF Written
        <2>1. CASE g = f
            BY <1>1, <1>3, <1>4, <1>6, <1>7, <2>1 DEF InPlace, Flushes, Zipped
        <2>2. CASE g # f
            <3>1. InPlace(g)
                BY <1>1, <1>7, <2>2 DEF ExportInv, Written
            <3> QED BY <1>1, <1>3, <1>6, <1>7, <2>2, <3>1 DEF InPlace, Flushes, Zipped
        <2> QED BY <2>1, <2>2
    <1>12. q # SidecarPath /\ q # LogPath
        <2>1. f # Sidecar /\ f # LogFile
            BY FileKinds DEF Sidecar, LogFile
        <2>2. SidecarPath.file = Sidecar /\ LogPath.file = LogFile
            BY DEF SidecarPath, LogPath, Path
        <2> QED BY <1>5, <2>1, <2>2
    <1>13. SidecarWritten'
        BY <1>1, <1>3, <1>12 DEF ExportInv, SidecarWritten
    <1>14. Mine'
        <2> SUFFICES ASSUME NEW p \in DOMAIN disk', disk'[p].run = Run PROVE Owned(p)'
            BY <1>1 DEF Mine
        <2>1. CASE p = q
            BY <1>7, <2>1 DEF Owned
        <2>2. CASE p # q
            <3>1. Owned(p)
                BY <1>1, <1>3, <2>2 DEF ExportInv, Mine
            <3>2. ASSUME NEW g \in Files(request), Started(g), p = Location(g)
                  PROVE  Started(g)' /\ p = Location(g)'
                BY <1>5, <1>7, <2>2, <3>2
            <3> QED BY <1>3, <2>2, <3>1, <3>2 DEF Owned, Half
        <2> QED BY <2>1, <2>2
    <1>15. VisibleIsWhole'
        BY <1>3, <1>5 DEF ExportInv, VisibleIsWhole
    <1>16. Chained'
        <2> SUFFICES ASSUME NEW m \in DOMAIN disk', ~ m.hidden, NEW p \in disk'[m].lists
                     PROVE  /\ p \in DOMAIN disk' /\ disk'[p].run >= disk'[m].run
                            /\ ~ p.hidden /\ p.gz = m.gz
                            /\ p.file[1] \in {"part", "manifest"}
                            /\ m.file \in {Manifest(p.file[2]), Manifest("lbd")}
            BY DEF Chained
        <2>1. m # q
            BY <1>3, <1>4, <1>8, <1>9
        <2>2. m \in DOMAIN disk /\ disk'[m] = disk[m]
            BY <1>3, <2>1
        <2>3. /\ p \in DOMAIN disk /\ disk[p].run >= disk[m].run
              /\ ~ p.hidden /\ p.gz = m.gz
              /\ p.file[1] \in {"part", "manifest"}
              /\ m.file \in {Manifest(p.file[2]), Manifest("lbd")}
            BY <2>2 DEF ExportInv, Chained
        <2>4. p # q
            BY <1>5, <1>8, <2>3
        <2> QED BY <1>3, <2>2, <2>3, <2>4
    <1>17. Replaced'
        <2> SUFFICES ASSUME NEW p \in DOMAIN disk', ~ p.hidden, p.file[1] \in {"part", "manifest"},
                            exits[disk'[p].run] = "ok", NEW d \in Companions(p)
                     PROVE  d \in DOMAIN disk' /\ disk'[d].run >= disk'[p].run
            BY DEF Replaced, Companions
        <2>1. p # q
            BY <1>1, <1>3, <1>4
        <2>2. /\ p \in DOMAIN disk /\ disk'[p] = disk[p]
              /\ d \in DOMAIN disk /\ disk[d].run >= disk[p].run
            BY <1>3, <2>1 DEF ExportInv, Replaced
        <2>3. d # q
            <3>1. ~ d.hidden /\ d.file[1] = "manifest"
                BY DEF Companions, Path, Manifest
            <3> QED BY <1>5, <1>8, <3>1
        <2> QED BY <1>3, <2>2, <2>3
    <1>18. Summed'
        BY <1>1 DEF Summed
    <1> QED BY <1>10, <1>11, <1>13, <1>14, <1>15, <1>16, <1>17, <1>18 DEF DiskInv

LEMMA FillKeeps ==
    ASSUME ExportInv, Running, NEW f \in Files(request), ~ At(f, "published"),
           NEW s \in {"open", "flushed", "dropped"}, NEW w \in BOOLEAN,
           s # "open" /\ Flushes(request) /\ ~ Zipped(request) => w,
           step' = [step EXCEPT ![f] = s], disk' = Fill(f, w),
           UNCHANGED <<request, exits, summary>>, session'.derived = session.derived
    PROVE  DiskInv'
    <1>1. CASE OnDisk
        BY <1>1, FillOnDisk
    <1>2. CASE ~ OnDisk
        <2>1. disk' = disk /\ ~ OnDisk'
            BY <1>2 DEF Fill, OnDisk
        <2>2. Live /\ Last(exits) = "running"
            BY RunningIsLive DEF ExportInv
        <2>3. \A p \in DOMAIN disk : disk[p].run # Run
            BY <1>2, <2>2 DEF ExportInv, Mine
        <2>4. History' /\ VisibleIsWhole'
            BY <2>1 DEF ExportInv, History, VisibleIsWhole, Run
        <2>7. Mine'
            BY <2>1, <2>3 DEF Mine, Run
        <2>8. Chained'
            BY <2>1 DEF ExportInv, Chained
        <2>9. Replaced'
            BY <2>1 DEF ExportInv, Replaced, Companions
        <2>5. Written' /\ Summed'
            BY <2>1, <2>2 DEF Written, Summed
        <2>6. SidecarWritten'
            BY <2>1 DEF ExportInv, SidecarWritten, Live, Run
        <2> QED BY <2>4, <2>5, <2>6, <2>7, <2>8, <2>9 DEF DiskInv
    <1> QED BY <1>1, <1>2

(* ----- the steps of a writer ----------------------------------------------- *)
LEMMA StepWriters ==
    ASSUME ExportInv, Running, NEW f \in Files(request), ~ Closed(f),
           NEW s \in Steps \ {"none"}, s = "published" => Staged(f),
           \A m \in Members(request, f) : Closed(m),
           step' = [step EXCEPT ![f] = s], UNCHANGED <<request, exits>>,
           DOMAIN session' = DOMAIN session, session'.derived = session.derived,
           session'.opened \in Seq(Files(request)),
           Range(session'.opened) = Range(session.opened) \cup {f}
    PROVE  Writers'
    <1>1. Live
        BY RunningIsLive DEF ExportInv
    <1>2. /\ step \in [Files(request) -> Steps]
          /\ DOMAIN session = {"opened", "staged", "derived"}
          /\ Range(session.opened) = {g \in Files(request) : Started(g)}
          /\ session.derived \in {<<>>, <<Sidecar>>} /\ (session.derived = <<>> \/ OnDisk)
          /\ \A g \in Files(request) : Started(g) => \A m \in Members(request, g) : Closed(m)
          /\ \A g \in Files(request) : At(g, "published") => Staged(g)
        BY <1>1 DEF ExportInv, Writers
    <1>3. /\ step' \in [Files(request) -> Steps] /\ step'[f] = s
          /\ \A g \in Files(request) : g # f => step'[g] = step[g]
        BY <1>2
    <1>4. Started(f)' /\ \A g \in Files(request) : g # f => (Started(g)' <=> Started(g))
        BY <1>3 DEF Started, At
    <1>5. \A m \in Files(request) : Closed(m) => Closed(m)'
        BY <1>3 DEF Closed, At, Staged
    <1>6. ASSUME NEW g \in Files(request), Started(g)', NEW m \in Members(request, g)
          PROVE  Closed(m)'
        <2>1. m \in Files(request)
            BY MemberKinds
        <2>2. Closed(m)
            BY <1>2, <1>4, <1>6
        <2> QED BY <1>5, <2>1, <2>2
    <1>7. \A g \in Files(request) : At(g, "published")' => Staged(g)
        BY <1>2, <1>3 DEF At
    <1>8. Range(session'.opened) = {g \in Files(request) : Started(g)'}
        BY <1>2, <1>4
    <1> QED BY <1>2, <1>3, <1>6, <1>7, <1>8 DEF Writers, OnDisk, Staged

LEMMA OpenSinkKeeps ==
    ASSUME ExportInv, Running, NEW f \in DOMAIN step, OpenSink(f)
    PROVE  ExportInv'
    <1>1. /\ Live /\ step \in [Files(request) -> Steps] /\ f \in Files(request)
          /\ DOMAIN session = {"opened", "staged", "derived"}
          /\ session.opened \in Seq(Files(request))
        BY RunningIsLive DEF ExportInv, Writers
    <1>2. /\ session'.opened = Append(session.opened, f)
          /\ session'.derived = session.derived /\ DOMAIN session' = DOMAIN session
        BY <1>1 DEF OpenSink
    <1>3. /\ step' = [step EXCEPT ![f] = "open"] /\ disk' = Fill(f, FALSE)
          /\ UNCHANGED <<request, exits, summary>>
          /\ \A m \in Members(request, f) : Closed(m)
          /\ ~ Closed(f) /\ ~ At(f, "published")
        BY DEF OpenSink, MayOpen, Closed, At
    <1>4. /\ session'.opened \in Seq(Files(request))
          /\ Range(session'.opened) = Range(session.opened) \cup {f}
        BY <1>1, <1>2, AppendFacts
    <1>5. Writers'
        BY <1>1, <1>2, <1>3, <1>4, StepWriters DEF Steps
    <1>6. DiskInv'
        BY <1>1, <1>2, <1>3, FillKeeps
    <1> QED BY <1>5, <1>6 DEF ExportInv, DiskInv

LEMMA SameSession ==
    ASSUME ExportInv, Running, NEW f \in Files(request), Started(f), session' = session
    PROVE  /\ session'.opened \in Seq(Files(request))
           /\ Range(session'.opened) = Range(session.opened) \cup {f}
           /\ \A m \in Members(request, f) : Closed(m)
    <1>1. Live
        BY RunningIsLive DEF ExportInv
    <1>2. f \in Range(session.opened)
        BY <1>1 DEF ExportInv, Writers
    <1> QED BY <1>1, <1>2 DEF ExportInv, Writers

LEMMA FlushKeeps ==
    ASSUME ExportInv, Running, NEW f \in DOMAIN step, Flush(f)
    PROVE  ExportInv'
    <1>1. f \in Files(request)
        BY RunningIsLive DEF ExportInv, Writers
    <1>2. /\ step' = [step EXCEPT ![f] = "flushed"] /\ disk' = Fill(f, ~ Zipped(request))
          /\ UNCHANGED <<request, session, exits, summary>>
          /\ ~ Closed(f) /\ ~ At(f, "published") /\ Started(f)
        BY DEF Flush, Closed, At, Started
    <1>3. Writers'
        BY <1>1, <1>2, SameSession, StepWriters DEF Steps
    <1>4. DiskInv'
        BY <1>1, <1>2, FillKeeps
    <1> QED BY <1>3, <1>4 DEF ExportInv, DiskInv

LEMMA DropSinkKeeps ==
    ASSUME ExportInv, Running, NEW f \in DOMAIN step, DropSink(f)
    PROVE  ExportInv'
    <1>1. f \in Files(request)
        BY RunningIsLive DEF ExportInv, Writers
    <1>2. PICK whole \in BOOLEAN :
             (~ Zipped(request) /\ Flushes(request) => whole) /\ disk' = Fill(f, whole)
        BY DEF DropSink
    <1>3. /\ step' = [step EXCEPT ![f] = "dropped"]
          /\ UNCHANGED <<request, session, exits, summary>>
          /\ ~ Closed(f) /\ ~ At(f, "published") /\ Started(f)
        BY DEF DropSink, Closed, At, Started
    <1>4. Writers'
        BY <1>1, <1>3, SameSession, StepWriters DEF Steps
    <1>5. DiskInv'
        BY <1>1, <1>2, <1>3, FillKeeps
    <1> QED BY <1>4, <1>5 DEF ExportInv, DiskInv

(* A rename: the hidden file takes the place of what had its final name.     *)
LEMMA CommitOnDisk ==
    ASSUME ExportInv, Running, OnDisk, NEW f \in DOMAIN step, CommitSink(f)
    PROVE  DiskInv'
    <1> DEFINE t == TemporaryName(request, f)
               q == PublishedName(request, f)
    <1>1. /\ Live /\ Live' /\ Last(exits) = "running" /\ Run \in Nat \ {0} /\ Run' = Run
          /\ exits[Run] = "running" /\ OnDisk'
        BY RunningIsLive DEF ExportInv, Live, Run, OnDisk, CommitSink
    <1>2. step \in [Files(request) -> Steps] /\ f \in Files(request)
        BY <1>1 DEF ExportInv, Writers
    <1>3. /\ Staged(f) /\ At(f, "dropped") /\ Started(f)
          /\ disk' = Put(Restrict(disk, DOMAIN disk \ {t}), q, disk[t])
          /\ step' = [step EXCEPT ![f] = "published"]
          /\ UNCHANGED <<request, exits, summary>>
        BY DEF CommitSink, At, Started
    <1>4. session'.derived = session.derived
        <2>1. DOMAIN session = {"opened", "staged", "derived"}
            BY <1>1 DEF ExportInv, Writers
        <2> QED BY <2>1 DEF CommitSink
    <1>5. /\ t.file = f /\ t.hidden /\ q.file = f /\ ~ q.hidden /\ q.gz = Zipped(request)
          /\ t # q /\ t = Location(f) /\ f[1] \in {"part", "manifest"}
          /\ FlushesChunksOnly(request) /\ Flushes(request)
          /\ Manifest(f[2]) \in Files(request) /\ Manifest("lbd") \in Files(request)
        <2>1. f[1] # "data"
            BY <1>3 DEF Staged
        <2> QED BY <1>2, <1>3, <2>1, FileKinds DEF TemporaryName, PublishedName, Path, Location, At
    <1>6. /\ t \in DOMAIN disk /\ disk[t].run = Run /\ disk[t].lists = Lists(f)
          /\ ~ Zipped(request) => disk[t].whole
        <2>1. InPlace(f)
            BY <1>1, <1>2, <1>3 DEF ExportInv, Written
        <2> QED BY <1>3, <1>5, <2>1 DEF InPlace, At
    <1> HIDE DEF t, q
    <1>7. /\ DOMAIN disk' = (DOMAIN disk \ {t}) \cup {q}
          /\ disk'[q] = disk[t]
          /\ \A p \in DOMAIN disk : p # t /\ p # q => disk'[p] = disk[p]
        BY <1>3, <1>5 DEF Put, Restrict
    <1>8. /\ step'[f] = "published" /\ Started(f)' /\ Location(f)' = q
          /\ \A g : Lists(g)' = Lists(g)
          /\ \A g \in Files(request) : g # f =>
                /\ step'[g] = step[g] /\ Location(g)' = Location(g)
                /\ Location(g) # q /\ Location(g) # t /\ (Started(g)' <=> Started(g))
        <2>1. step'[f] = "published" /\ \A g \in Files(request) : g # f => step'[g] = step[g]
            BY <1>2, <1>3
        <2>2. \A g : Location(g).file = g
            BY LocationFields
        <2>3. Location(f)' = q
            BY <1>3, <2>1 DEF Location, At, q, PublishedName, Zipped, TemporaryName
        <2>4. \A g \in Files(request) : g # f => Location(g)' = Location(g) /\ (Started(g)' <=> Started(g))
            BY <1>3, <2>1 DEF Location, Started, At, PublishedName, Zipped, TemporaryName
        <2>5. Started(f)' /\ \A g : Lists(g)' = Lists(g)
            BY <1>3, <2>1 DEF Started, At, Lists, PublishedName, Zipped
        <2> QED BY <1>5, <2>1, <2>2, <2>3, <2>4, <2>5
    <1>9. History'
        BY <1>1, <1>6, <1>7 DEF ExportInv, History, Run, CommitSink
    <1>10. Written'
        <2> SUFFICES ASSUME NEW g \in Files(request), Started(g)' PROVE InPlace(g)'
            BY <1>3 DEF Written
        <2>1. CASE g = f
            BY <1>1, <1>3, <1>6, <1>7, <1>8, <2>1 DEF InPlace, Flushes, Zipped
        <2>2. CASE g # f
            <3>1. InPlace(g)
                BY <1>1, <1>8, <2>2 DEF ExportInv, Written
            <3> QED BY <1>1, <1>3, <1>7, <1>8, <2>2, <3>1 DEF InPlace, Flushes, Zipped
        <2> QED BY <2>1, <2>2
    <1>11. SidecarPath # t /\ SidecarPath # q /\ LogPath # t /\ LogPath # q
        <2>1. SidecarPath.file[1] = "sidecar" /\ LogPath.file[1] = "log"
            BY DEF SidecarPath, LogPath, Path, Sidecar, LogFile
        <2> QED BY <1>5, <2>1
    <1>12. SidecarWritten'
        BY <1>1, <1>4, <1>7, <1>11 DEF ExportInv, SidecarWritten
    <1>13. Mine'
        <2> SUFFICES ASSUME NEW p \in DOMAIN disk', disk'[p].run = Run PROVE Owned(p)'
            BY <1>1 DEF Mine
        <2>1. CASE p = q
            BY <1>2, <1>3, <1>8, <2>1 DEF Owned
        <2>2. CASE p # q
            <3>1. p \in DOMAIN disk /\ p # t /\ Owned(p)
                BY <1>1, <1>7, <2>2 DEF ExportInv, Mine
            <3>2. ASSUME NEW g \in Files(request), Started(g), p = Location(g)
                  PROVE  Started(g)' /\ p = Location(g)'
                BY <1>5, <1>8, <3>1, <3>2
            <3>3. disk'[p] = disk[p]
                BY <1>7, <2>2, <3>1
            <3> QED BY <1>3, <1>4, <3>1, <3>2, <3>3 DEF Owned, Half
        <2> QED BY <2>1, <2>2
    <1>14. VisibleIsWhole'
        <2> SUFFICES ASSUME NEW p \in DOMAIN disk', Staged(p.file), ~ p.hidden, ~ p.gz
                     PROVE  disk'[p].whole \/ (Aside(p.file) /\ exits[disk'[p].run] # "ok")
            BY <1>3 DEF VisibleIsWhole, Staged, Aside
        <2>1. CASE p = q
            BY <1>5, <1>6, <1>7, <2>1
        <2>2. CASE p # q
            BY <1>7, <2>2 DEF ExportInv, VisibleIsWhole
        <2> QED BY <2>1, <2>2
    <1>15. ASSUME NEW p \in DOMAIN disk, ~ p.hidden
           PROVE  p \in DOMAIN disk' /\ disk'[p].run >= disk[p].run /\ (p # q => disk'[p] = disk[p])
        <2>1. p # t /\ disk[p].run \in 1 .. Run
            BY <1>5, <1>15 DEF ExportInv, History
        <2>2. CASE p = q
            BY <1>1, <1>6, <1>7, <2>1, <2>2
        <2>3. CASE p # q
            BY <1>7, <2>1, <2>3
        <2> QED BY <2>2, <2>3
    <1>16. Chained'
        <2> SUFFICES ASSUME NEW m \in DOMAIN disk', ~ m.hidden, NEW p \in disk'[m].lists
                     PROVE  /\ p \in DOMAIN disk' /\ disk'[p].run >= disk'[m].run
                            /\ ~ p.hidden /\ p.gz = m.gz
                            /\ p.file[1] \in {"part", "manifest"}
                            /\ m.file \in {Manifest(p.file[2]), Manifest("lbd")}
            BY DEF Chained
        <2>1. CASE m = q
            <3>1. PICK g \in Members(request, f) : p = PublishedName(request, g)
                BY <1>6, <1>7, <2>1 DEF Lists
            <3>2. /\ g \in Files(request) /\ g[1] \in {"part", "manifest"}
                  /\ f \in {Manifest(g[2]), Manifest("lbd")}
                BY <1>2, MemberKinds
            <3>3. p.file = g /\ ~ p.hidden /\ p.gz = Zipped(request)
                BY <3>1 DEF PublishedName, Path
            <3>4. Closed(g)
                BY <1>1, <1>2, <1>3 DEF ExportInv, Writers
            <3>5. At(g, "published") /\ Started(g) /\ Location(g) = p
                <4>1. Staged(g)
                    BY <3>2 DEF Staged
                <4> QED BY <3>1, <3>4, <4>1 DEF Closed, At, Started, Location
            <3>6. p \in DOMAIN disk /\ disk[p].run = Run
                BY <1>1, <3>2, <3>5 DEF ExportInv, Written, InPlace
            <3>7. p \in DOMAIN disk' /\ disk'[p].run >= Run
                BY <1>15, <3>3, <3>6
            <3> QED BY <1>5, <1>6, <1>7, <2>1, <3>2, <3>3, <3>7
        <2>2. CASE m # q
            <3>1. m \in DOMAIN disk /\ disk'[m] = disk[m]
                BY <1>7, <2>2
            <3>2. /\ p \in DOMAIN disk /\ disk[p].run >= disk[m].run
                  /\ ~ p.hidden /\ p.gz = m.gz
                  /\ p.file[1] \in {"part", "manifest"}
                  /\ m.file \in {Manifest(p.file[2]), Manifest("lbd")}
                BY <3>1 DEF ExportInv, Chained
            <3>3. p \in DOMAIN disk' /\ disk'[p].run >= disk[p].run
                BY <1>15, <3>2
            <3>4. disk'[p].run \in Nat /\ disk[p].run \in Nat /\ disk[m].run \in Nat
                BY <1>1, <1>9, <3>1, <3>2, <3>3 DEF ExportInv, History
            <3> QED BY <3>1, <3>2, <3>3, <3>4
        <2> QED BY <2>1, <2>2
    <1>17. Replaced'
        <2> SUFFICES ASSUME NEW p \in DOMAIN disk', ~ p.hidden, p.file[1] \in {"part", "manifest"},
                            exits[disk'[p].run] = "ok", NEW d \in Companions(p)
                     PROVE  d \in DOMAIN disk' /\ disk'[d].run >= disk'[p].run
            BY <1>3 DEF Replaced, Companions
        <2>1. p # q
            BY <1>1, <1>6, <1>7
        <2>2. /\ p \in DOMAIN disk /\ disk'[p] = disk[p]
              /\ d \in DOMAIN disk /\ disk[d].run >= disk[p].run
            BY <1>7, <2>1 DEF ExportInv, Replaced
        <2>3. ~ d.hidden
            BY DEF Companions, Path
        <2>4. d \in DOMAIN disk' /\ disk'[d].run >= disk[d].run
            BY <1>15, <2>2, <2>3
        <2>5. disk'[d].run \in Nat /\ disk[d].run \in Nat /\ disk[p].run \in Nat
            BY <1>1, <1>9, <2>2, <2>4 DEF ExportInv, History
        <2> QED BY <2>2, <2>4, <2>5
    <1>18. Summed'
        BY <1>1, <1>3 DEF Summed
    <1> QED BY <1>9, <1>10, <1>12, <1>13, <1>14, <1>16, <1>17, <1>18 DEF DiskInv

LEMMA CommitSinkKeeps ==
    ASSUME ExportInv, Running, NEW f \in DOMAIN step, CommitSink(f)
    PROVE  ExportInv'
    <1>1. /\ Live /\ f \in Files(request) /\ Started(f) /\ ~ Closed(f) /\ Staged(f)
          /\ Last(exits) = "running"
        BY RunningIsLive DEF ExportInv, Writers, CommitSink, Started, Closed, At
    <1>2. /\ step' = [step EXCEPT ![f] = "published"] /\ UNCHANGED <<request, exits, summary>>
          /\ DOMAIN session' = DOMAIN session /\ session'.derived = session.derived
          /\ session'.opened = session.opened
        <2>1. DOMAIN session = {"opened", "staged", "derived"}
            BY <1>1 DEF ExportInv, Writers
        <2> QED BY <2>1 DEF CommitSink
    <1>3. Writers'
        <2>1. /\ session.opened \in Seq(Files(request)) /\ f \in Range(session.opened)
              /\ \A m \in Members(request, f) : Closed(m)
            BY <1>1 DEF ExportInv, Writers
        <2> QED BY <1>1, <1>2, <2>1, StepWriters DEF Steps
    <1>4. CASE OnDisk
        BY <1>3, <1>4, CommitOnDisk DEF ExportInv, DiskInv
    <1>5. CASE ~ OnDisk
        <2>1. disk' = disk /\ ~ OnDisk'
            BY <1>2, <1>5 DEF CommitSink, OnDisk
        <2>2. \A p \in DOMAIN disk : disk[p].run # Run
            BY <1>1, <1>5 DEF ExportInv, Mine
        <2>3. History' /\ VisibleIsWhole'
            BY <1>2, <2>1 DEF ExportInv, History, VisibleIsWhole, Run
        <2>4. Mine'
            BY <1>2, <2>1, <2>2 DEF Mine, Run
        <2>5. Chained'
            BY <2>1 DEF ExportInv, Chained
        <2>6. Replaced'
            BY <1>2, <2>1 DEF ExportInv, Replaced, Companions
        <2>7. Written' /\ Summed'
            BY <1>1, <1>2, <2>1 DEF Written, Summed
        <2>8. SidecarWritten'
            BY <1>2, <2>1 DEF ExportInv, SidecarWritten, Live, Run
        <2> QED BY <1>3, <2>3, <2>4, <2>5, <2>6, <2>7, <2>8 DEF ExportInv
    <1> QED BY <1>4, <1>5

(* ----- the session's own files, its start and its end ---------------------- *)
(* A sidecar or the log is a file that nothing lists and that lists nothing. *)
LEMMA AsideKeeps ==
    ASSUME ExportInv, Running, NEW q \in {SidecarPath, LogPath},
           DOMAIN disk' = DOMAIN disk \cup {q},
           disk'[q].run = Run, disk'[q].lists = {},
           \A p \in DOMAIN disk : p # q => disk'[p] = disk[p],
           UNCHANGED <<request, step>>, Run' = Run
    PROVE  /\ exits' = exits => VisibleIsWhole'
           /\ Chained'
           /\ OnDisk => \A f \in Files(request) : Started(f) => InPlace(f)'
           /\ \A p \in DOMAIN disk' : disk'[p].run \in 1 .. Run
    <1>1. /\ q.file[1] \notin {"part", "manifest", "data"} /\ ~ q.hidden /\ Aside(q.file)
        BY DEF SidecarPath, LogPath, Path, Sidecar, LogFile, Aside
    <1>2. Live /\ Run \in Nat \ {0} /\ exits[Run] # "ok"
        BY RunningIsLive DEF ExportInv
    <1>3. exits' = exits => VisibleIsWhole'
        BY <1>1, <1>2 DEF ExportInv, VisibleIsWhole
    <1>4. Chained'
        <2> SUFFICES ASSUME NEW m \in DOMAIN disk', ~ m.hidden, NEW p \in disk'[m].lists
                     PROVE  /\ p \in DOMAIN disk' /\ disk'[p].run >= disk'[m].run
                            /\ ~ p.hidden /\ p.gz = m.gz
                            /\ p.file[1] \in {"part", "manifest"}
                            /\ m.file \in {Manifest(p.file[2]), Manifest("lbd")}
            BY DEF Chained
        <2>1. m \in DOMAIN disk /\ disk'[m] = disk[m]
            OBVIOUS
        <2>2. /\ p \in DOMAIN disk /\ disk[p].run >= disk[m].run
              /\ ~ p.hidden /\ p.gz = m.gz
              /\ p.file[1] \in {"part", "manifest"}
              /\ m.file \in {Manifest(p.file[2]), Manifest("lbd")}
            BY <2>1 DEF ExportInv, Chained
        <2> QED BY <1>1, <2>1, <2>2
    <1>5. ASSUME OnDisk, NEW f \in Files(request), Started(f) PROVE InPlace(f)'
        <2>1. InPlace(f)
            BY <1>2, <1>5 DEF ExportInv, Written
        <2>2. Location(f) # q
            BY <1>1, FileKinds, LocationFields
        <2>3. Location(f)' = Location(f) /\ Lists(f)' = Lists(f)
            BY DEF Location, Lists, PublishedName, TemporaryName, Zipped, At
        <2> QED BY <2>1, <2>2, <2>3 DEF InPlace, Flushes, Zipped
    <1>6. \A p \in DOMAIN disk' : disk'[p].run \in 1 .. Run
        BY <1>2 DEF ExportInv, History
    <1> QED BY <1>3, <1>4, <1>5, <1>6

LEMMA PutAsideKeeps ==
    ASSUME ExportInv, Running, OnDisk, NEW f \in {Sidecar, LogFile}, NEW w \in BOOLEAN,
           PutAside(f, w), UNCHANGED <<request, step, exits, summary>>,
           f = LogFile => request.exporter = "log" /\ ~ w,
           f = Sidecar /\ ~ w => session.derived = <<>>,
           DOMAIN session' = DOMAIN session, session'.opened = session.opened,
           session'.derived = IF w THEN <<Sidecar>> ELSE session.derived
    PROVE  ExportInv'
    <1> DEFINE q == Path(f, FALSE, FALSE)
               c == Content(f, w)
    <1>1. /\ f = Sidecar => q = SidecarPath
          /\ f = LogFile => q = LogPath /\ q # SidecarPath
          /\ q \in {SidecarPath, LogPath}
        <2>1. q.file = f /\ SidecarPath.file = Sidecar /\ LogPath.file = LogFile
            BY DEF SidecarPath, LogPath, Path
        <2>2. Sidecar[1] # LogFile[1]
            BY DEF Sidecar, LogFile
        <2> QED BY <2>1, <2>2 DEF SidecarPath, LogPath
    <1>2. /\ Live /\ Live' /\ Last(exits) = "running" /\ Run \in Nat \ {0} /\ Run' = Run
          /\ exits[Run] = "running" /\ OnDisk'
        BY RunningIsLive DEF ExportInv, Live, Run, OnDisk
    <1>3. /\ DOMAIN session = {"opened", "staged", "derived"}
          /\ <<Sidecar>> # <<>>
        <2>1. DOMAIN session = {"opened", "staged", "derived"}
            BY <1>2 DEF ExportInv, Writers
        <2> QED BY <2>1
    <1>4. c.run = Run /\ c.whole = w /\ c.lists = {}
        <2>1. Members(request, f) = {}
            BY Unlisted DEF Sidecar, LogFile
        <2> QED BY <2>1 DEF Content
    <1>5. /\ DOMAIN disk' = DOMAIN disk \cup {q}
          /\ disk'[q] = c
          /\ \A p \in DOMAIN disk : p # q => disk'[p] = disk[p]
        <2>1. disk' = [p \in DOMAIN disk \cup {q} |-> IF p = q THEN c ELSE disk[p]]
            BY DEF PutAside, Put
        <2> HIDE DEF q, c
        <2> QED BY <2>1
    <1> HIDE DEF q, c
    <1>7. /\ VisibleIsWhole' /\ Chained'
          /\ \A g \in Files(request) : Started(g) => InPlace(g)'
          /\ \A p \in DOMAIN disk' : disk'[p].run \in 1 .. Run
        BY <1>1, <1>2, <1>4, <1>5, AsideKeeps
    <1>8. History'
        BY <1>2, <1>7 DEF ExportInv, History
    <1>9. Writers'
        BY <1>2, <1>3 DEF ExportInv, Writers, Started, Closed, At
    <1>10. Written'
        BY <1>7 DEF Written, Started, At
    <1>11. SidecarWritten'
        <2>1. CASE f = Sidecar
            BY <1>1, <1>2, <1>4, <1>5, <2>1 DEF SidecarWritten
        <2>2. CASE f = LogFile
            BY <1>1, <1>2, <1>5, <2>2 DEF ExportInv, SidecarWritten
        <2> QED BY <2>1, <2>2
    <1>12. Mine'
        <2> SUFFICES ASSUME NEW p \in DOMAIN disk', disk'[p].run = Run PROVE Owned(p)'
            BY <1>2 DEF Mine
        <2>1. CASE p = q /\ f = Sidecar
            BY <1>1, <1>2, <1>3, <1>4, <1>5, <2>1 DEF Owned, Half
        <2>2. CASE p = q /\ f = LogFile
            BY <1>1, <1>2, <1>4, <1>5, <2>2 DEF Owned, Half
        <2>3. CASE p # q
            <3>1. Owned(p) /\ disk'[p] = disk[p]
                BY <1>2, <1>5, <2>3 DEF ExportInv, Mine
            <3>2. ASSUME NEW g \in Files(request), Started(g), p = Location(g)
                  PROVE  Started(g)' /\ p = Location(g)'
                BY <3>2 DEF Started, Location, TemporaryName, PublishedName, Zipped, At
            <3> QED BY <1>3, <3>1, <3>2 DEF Owned, Half
        <2> QED BY <2>1, <2>2, <2>3
    <1>13. Replaced'
        <2> SUFFICES ASSUME NEW p \in DOMAIN disk', ~ p.hidden, p.file[1] \in {"part", "manifest"},
                            exits[disk'[p].run] = "ok", NEW d \in Companions(p)
                     PROVE  d \in DOMAIN disk' /\ disk'[d].run >= disk'[p].run
            BY DEF Replaced, Companions
        <2>1. p # q /\ d # q
            BY <1>1 DEF SidecarPath, LogPath, Path, Sidecar, LogFile, Companions, Manifest
        <2>2. p \in DOMAIN disk /\ disk'[p] = disk[p]
            BY <1>5, <2>1
        <2>3. d \in DOMAIN disk /\ disk[d].run >= disk[p].run
            BY <2>2 DEF ExportInv, Replaced
        <2> QED BY <1>5, <2>1, <2>2, <2>3
    <1>14. Summed'
        BY <1>2 DEF Summed
    <1> QED BY <1>7, <1>8, <1>9, <1>10, <1>11, <1>12, <1>13, <1>14 DEF ExportInv

LEMMA BegunBelongs ==
    ASSUME NEW f, Begun(f)
    PROVE  LET p == Path(f, FALSE, FALSE) IN p \in DOMAIN disk /\ disk[p].run = Run
    BY DEF Begun

LEMMA DerivedKeeps ==
    ASSUME ExportInv, CreateDerived \/ AcceptDerived
    PROVE  ExportInv'
    <1>1. Running /\ UNCHANGED <<request, step, exits, summary>>
        BY DEF CreateDerived, AcceptDerived
    <1>2. Live /\ DOMAIN session = {"opened", "staged", "derived"}
        BY <1>1, RunningIsLive DEF ExportInv, Writers
    <1>3. Sidecar # LogFile
        BY DEF Sidecar, LogFile
    <1>4. CASE CreateDerived
        BY <1>1, <1>2, <1>3, <1>4, PutAsideKeeps DEF CreateDerived
    <1>5. CASE AcceptDerived
        <2>1. OnDisk
            BY <1>2, <1>5, BegunBelongs DEF AcceptDerived, ExportInv, Mine
        <2> QED BY <1>1, <1>2, <1>3, <1>5, <2>1, PutAsideKeeps DEF AcceptDerived
    <1> QED BY <1>4, <1>5

LEMMA CreateLogKeeps ==
    ASSUME ExportInv, CreateLog
    PROVE  ExportInv'
    <1>1. Running /\ OnDisk /\ UNCHANGED <<request, session, step, exits, summary>>
        BY DEF CreateLog, MayFinalize, OnDisk
    <1>2. Sidecar # LogFile
        BY DEF Sidecar, LogFile
    <1> QED BY <1>1, <1>2, PutAsideKeeps DEF CreateLog

(* No file on disk belongs to a run that is only starting.                   *)
LEMMA StartKeeps ==
    ASSUME ExportInv, Start
    PROVE  ExportInv'
    <1>1. /\ session' = NewSession /\ step' = [f \in Files(request') |-> "none"]
          /\ exits' = Append(exits, "running") /\ UNCHANGED disk
        BY DEF Start
    <1>2. exits \in Seq({"running", "ok", "failed"}) /\ \A p \in DOMAIN disk : disk[p].run \in 1 .. Run
        BY DEF ExportInv, History
    <1>3. /\ exits' \in Seq({"running", "ok", "failed"}) /\ exits' # <<>> /\ Last(exits') = "running"
          /\ Run' = Run + 1 /\ Run \in Nat /\ \A i \in 1 .. Run : exits'[i] = exits[i]
        BY <1>1, <1>2, AppendFacts DEF Run
    <1>4. History'
        BY <1>1, <1>2, <1>3 DEF History
    <1>5. \A f : f \in Files(request)' => ~ Started(f)'
        BY <1>1 DEF Started, At
    <1>6. Writers'
        <2>1. /\ DOMAIN session' = {"opened", "staged", "derived"}
              /\ session'.opened = <<>> /\ session'.derived = <<>>
            BY <1>1 DEF NewSession
        <2>2. Range(<<>>) = {} /\ <<>> \in Seq(Files(request'))
            BY DEF Range
        <2>3. step' \in [Files(request') -> Steps]
            BY <1>1 DEF Steps
        <2>4. {f \in Files(request') : Started(f)'} = {}
            BY <1>5
        <2>5. \A f \in Files(request') : ~ At(f, "published")'
            BY <1>1 DEF At
        <2> QED BY <1>5, <2>1, <2>2, <2>3, <2>4, <2>5 DEF Writers
    <1>7. Written'
        BY <1>5 DEF Written
    <1>8. SidecarWritten'
        BY <1>1 DEF SidecarWritten, NewSession
    <1>9. Mine'
        BY <1>1, <1>2, <1>3 DEF Mine
    <1>10. VisibleIsWhole' /\ Chained'
        BY <1>1, <1>2, <1>3 DEF ExportInv, VisibleIsWhole, Chained
    <1>11. Replaced'
        BY <1>1, <1>2, <1>3 DEF ExportInv, Replaced, Companions
    <1>12. Summed'
        BY <1>3 DEF Summed
    <1> QED BY <1>4, <1>6, <1>7, <1>8, <1>9, <1>10, <1>11, <1>12 DEF ExportInv

(* A run that fails leaves the disk, and loses its writers.                  *)
LEMMA FailureKeeps ==
    ASSUME ExportInv, Running, exits' = Append(Front(exits), "failed"), UNCHANGED disk
    PROVE  ExportInv'
    <1>1. exits \in Seq({"running", "ok", "failed"}) /\ exits # <<>>
          /\ \A p \in DOMAIN disk : disk[p].run \in 1 .. Run
        BY DEF ExportInv, History, Running
    <1>2. /\ exits' \in Seq({"running", "ok", "failed"}) /\ exits' # <<>> /\ Last(exits') = "failed"
          /\ Run' = Run /\ exits'[Run] = "failed" /\ \A i \in 1 .. (Run - 1) : exits'[i] = exits[i]
          /\ Run \in Nat \ {0}
        BY <1>1, EndOfRun, RunningIsLive DEF Run, ExportInv
    <1>3. ~ Live'
        BY <1>2 DEF Live
    <1>4. History'
        BY <1>1, <1>2 DEF History
    <1>5. Writers' /\ Written' /\ SidecarWritten' /\ Mine' /\ Summed'
        BY <1>2, <1>3 DEF Writers, Written, SidecarWritten, Mine, Summed
    <1>6. VisibleIsWhole' /\ Chained'
        <2>1. ASSUME NEW p \in DOMAIN disk, exits'[disk[p].run] = "ok" PROVE exits[disk[p].run] = "ok"
            <3>1. disk[p].run \in 1 .. Run /\ disk[p].run # Run
                BY <1>1, <1>2, <2>1
            <3>2. disk[p].run \in 1 .. (Run - 1)
                BY <1>2, <3>1
            <3> QED BY <1>2, <2>1, <3>2
        <2> QED BY <2>1 DEF ExportInv, VisibleIsWhole, Chained
    <1>7. Replaced'
        <2> SUFFICES ASSUME NEW p \in DOMAIN disk, ~ p.hidden, p.file[1] \in {"part", "manifest"},
                            exits'[disk[p].run] = "ok", NEW d \in Companions(p)
                     PROVE  d \in DOMAIN disk /\ disk[d].run >= disk[p].run
            BY DEF Replaced, Companions
        <2>1. disk[p].run \in 1 .. (Run - 1)
            <3>1. disk[p].run # Run
                BY <1>2
            <3> QED BY <1>1, <1>2, <3>1
        <2>2. exits[disk[p].run] = "ok"
            BY <1>2, <2>1
        <2> QED BY <2>2 DEF ExportInv, Replaced
    <1> QED BY <1>4, <1>5, <1>6, <1>7 DEF ExportInv

LEMMA FunctionIsSeq ==
    ASSUME NEW T, NEW n \in Nat, NEW s \in [1 .. n -> T]
    PROVE  s \in Seq(T)
    BY SeqDef

LEMMA PairFacts ==
    ASSUME NEW a, NEW b
    PROVE  /\ Len(<<a>> \o <<b>>) = 2 /\ DOMAIN (<<a>> \o <<b>>) = 1 .. 2
           /\ Range(<<a>> \o <<b>>) = {a, b}
           /\ <<a>> # <<>> /\ <<b>> # <<>>
    <1> DEFINE s == <<a>> \o <<b>>
    <1>1. s \in Seq({a, b}) /\ Len(s) = 2 /\ s[1] = a /\ s[2] = b
        OBVIOUS
    <1> HIDE DEF s
    <1>2. DOMAIN s = 1 .. 2
        BY <1>1
    <1>3. 1 .. 2 = {1, 2}
        OBVIOUS
    <1>4. Range(s) = {a, b}
        BY <1>1, <1>2, <1>3 DEF Range
    <1>5. <<a>> # <<>> /\ <<b>> # <<>>
        OBVIOUS
    <1> QED BY <1>1, <1>2, <1>4, <1>5 DEF s

(* What finalize lists: the sidecar, the log, and a name for every writer.   *)
LEMMA SummaryOfRun ==
    ASSUME Finalize, session.staged = <<>>, NEW S, session.opened \in Seq(S),
           session.derived \in {<<>>, <<Sidecar>>}
    PROVE  summary' = {PublishedName(request, f) : f \in Range(session.opened)}
                        \cup (IF session.derived = <<>> THEN {} ELSE {SidecarPath})
                        \cup (IF request.exporter = "log" THEN {LogPath} ELSE {})
    <1> DEFINE opened == session.opened
               derived == session.derived
               logs == IF request.exporter = "log" THEN <<LogFile>> ELSE <<>>
               both == derived \o logs
               written == [i \in DOMAIN opened |-> PublishedName(request, opened[i])]
               plain == [i \in DOMAIN both |-> Path(both[i], FALSE, FALSE)]
               T == {PublishedName(request, f) : f \in S} \cup {SidecarPath, LogPath}
    <1>1. summary' = Range(plain \o written)
        BY DEF Finalize
    <1>2. DOMAIN opened = 1 .. Len(opened) /\ Len(opened) \in Nat
          /\ \A i \in DOMAIN opened : opened[i] \in S
        OBVIOUS
    <1>3. written \in Seq(T)
        <2>1. \A i \in 1 .. Len(opened) : written[i] \in T
            BY <1>2
        <2> HIDE DEF T
        <2>2. written \in [1 .. Len(opened) -> T]
            BY <1>2, <2>1
        <2> HIDE DEF written
        <2> QED BY <1>2, <2>2, FunctionIsSeq
    <1>4. Range(written) = {PublishedName(request, f) : f \in Range(opened)}
        BY DEF Range
    <1>5. /\ Len(both) \in Nat /\ DOMAIN both = 1 .. Len(both)
          /\ Range(both) = (IF derived = <<>> THEN {} ELSE {Sidecar})
                             \cup (IF request.exporter = "log" THEN {LogFile} ELSE {})
        <2>1. CASE derived = <<>> /\ request.exporter # "log"
            BY <2>1 DEF Range
        <2>2. CASE derived = <<>> /\ request.exporter = "log"
            BY <2>2 DEF Range
        <2>3. CASE derived = <<Sidecar>> /\ request.exporter # "log"
            BY <2>3 DEF Range
        <2>4. CASE derived = <<Sidecar>> /\ request.exporter = "log"
            <3>1. Len(both) = 2 /\ DOMAIN both = 1 .. 2 /\ Range(both) = {Sidecar, LogFile}
                BY <2>4, PairFacts
            <3>2. <<Sidecar>> # <<>>
                BY PairFacts
            <3> HIDE DEF both
            <3> QED BY <2>4, <3>1, <3>2
        <2> HIDE DEF both, logs
        <2> QED BY <2>1, <2>2, <2>3, <2>4 DEF derived
    <1>6. \A i \in DOMAIN both : both[i] \in {Sidecar, LogFile}
        BY <1>5 DEF Range
    <1>7. Range(plain) = (IF derived = <<>> THEN {} ELSE {SidecarPath})
                           \cup (IF request.exporter = "log" THEN {LogPath} ELSE {})
        <2>1. Range(plain) = {Path(f, FALSE, FALSE) : f \in Range(both)}
            BY ZenonT(30) DEF Range
        <2> HIDE DEF plain
        <2> QED BY <1>5, <2>1 DEF SidecarPath, LogPath
    <1>8. plain \in Seq(T)
        <2>1. \A i \in DOMAIN both : plain[i] \in {SidecarPath, LogPath}
            BY <1>6 DEF SidecarPath, LogPath
        <2>2. plain \in [1 .. Len(both) -> T]
            BY <1>5, <2>1
        <2> HIDE DEF T, plain, both
        <2> QED BY <1>5, <2>2, FunctionIsSeq
    <1> HIDE DEF written, plain
    <1>9. Range(plain \o written) = Range(plain) \cup Range(written)
        BY <1>3, <1>8, RangeConcatenation
    <1> QED BY <1>1, <1>4, <1>7, <1>9

(* A run that ends well: the names of its files hold what it wrote.          *)
LEMMA ClosedIsPublished ==
    ASSUME NEW f \in Files(request), Closed(f)
    PROVE  Location(f) = PublishedName(request, f) /\ Started(f)
    BY DEF Closed, Location, Started, At

LEMMA SuccessKeeps ==
    ASSUME ExportInv, Finalize, session.staged = <<>>
    PROVE  ExportInv'
    <1> DEFINE logged == request.exporter = "log"
    <1>1. /\ Running /\ \A f \in Files(request) : Closed(f)
          /\ exits' = Append(Front(exits), "ok")
          /\ UNCHANGED <<request, session, step>>
          /\ ~ Begun(Sidecar)
        BY DEF Finalize, MayFinalize
    <1>2. /\ exits \in Seq({"running", "ok", "failed"}) /\ exits # <<>>
          /\ \A p \in DOMAIN disk : disk[p].run \in 1 .. Run
        BY <1>1 DEF ExportInv, History, Running
    <1>3. /\ exits' \in Seq({"running", "ok", "failed"}) /\ exits' # <<>> /\ Last(exits') = "ok"
          /\ Run' = Run /\ \A i \in 1 .. (Run - 1) : exits'[i] = exits[i]
          /\ Run \in Nat \ {0} /\ Live /\ Last(exits) = "running" /\ exits[Run] = "running"
        BY <1>1, <1>2, EndOfRun, RunningIsLive DEF Run, ExportInv
    <1>4. Live' /\ (OnDisk' <=> OnDisk)
        BY <1>1, <1>3 DEF Live, OnDisk
    <1>5. /\ DOMAIN session = {"opened", "staged", "derived"}
          /\ session.opened \in Seq(Files(request))
          /\ Range(session.opened) = {f \in Files(request) : Started(f)}
          /\ session.derived \in {<<>>, <<Sidecar>>}
        BY <1>3 DEF ExportInv, Writers
    <1>6. Range(session.opened) = Files(request)
        BY <1>1, <1>5, ClosedIsPublished
    <1>7. summary' = {PublishedName(request, f) : f \in Files(request)}
                       \cup (IF session.derived = <<>> THEN {} ELSE {SidecarPath})
                       \cup (IF logged THEN {LogPath} ELSE {})
        BY <1>5, <1>6, SummaryOfRun
    <1>8. /\ Chained'
          /\ OnDisk => \A f \in Files(request) : Started(f) => InPlace(f)'
          /\ \A p \in DOMAIN disk' : disk'[p].run \in 1 .. Run
          /\ DOMAIN disk \subseteq DOMAIN disk'
          /\ \A p \in DOMAIN disk' : p # LogPath => p \in DOMAIN disk /\ disk'[p] = disk[p]
          /\ logged => LogPath \in DOMAIN disk' /\ disk'[LogPath].run = Run /\ disk'[LogPath].whole
          /\ ~ logged => disk' = disk
        <2>1. CASE ~ logged
            <3>1. disk' = disk
                BY <2>1 DEF Finalize
            <3>2. Chained'
                BY <3>1 DEF ExportInv, Chained
            <3>3. ASSUME OnDisk, NEW f \in Files(request), Started(f) PROVE InPlace(f)'
                <4>1. InPlace(f)
                    BY <1>3, <3>3 DEF ExportInv, Written
                <4>2. Location(f)' = Location(f) /\ Lists(f)' = Lists(f)
                    BY <1>1 DEF Location, Lists, PublishedName, TemporaryName, Zipped, At
                <4> QED BY <1>1, <1>3, <3>1, <4>1, <4>2 DEF InPlace, Zipped, Flushes
            <3> QED BY <1>2, <2>1, <3>1, <3>2, <3>3
        <2>2. CASE logged
            <3> DEFINE c == Content(LogFile, TRUE)
            <3>1. disk' = Put(disk, Path(LogFile, FALSE, FALSE), c)
                <4>1. <<LogFile>> # <<>>
                    OBVIOUS
                <4> QED BY <2>2, <4>1 DEF Finalize, PutAside
            <3>2. disk' = [p \in DOMAIN disk \cup {LogPath} |-> IF p = LogPath THEN c ELSE disk[p]]
                BY <3>1 DEF Put, LogPath
            <3>3. c.run = Run /\ c.whole /\ c.lists = {}
                <4>1. Members(request, LogFile) = {}
                    BY Unlisted DEF LogFile
                <4> QED BY <4>1 DEF Content
            <3> HIDE DEF c
            <3>4. /\ DOMAIN disk' = DOMAIN disk \cup {LogPath}
                  /\ disk'[LogPath].run = Run /\ disk'[LogPath].whole /\ disk'[LogPath].lists = {}
                  /\ \A p \in DOMAIN disk : p # LogPath => disk'[p] = disk[p]
                BY <3>2, <3>3
            <3>5. /\ Chained'
                  /\ OnDisk => \A f \in Files(request) : Started(f) => InPlace(f)'
                  /\ \A p \in DOMAIN disk' : disk'[p].run \in 1 .. Run
                <4> HIDE DEF logged
                <4> QED BY <1>1, <1>3, <3>4, AsideKeeps
            <3> QED BY <2>2, <3>4, <3>5
        <2> QED BY <2>1, <2>2
    <1>9. History'
        BY <1>3, <1>8 DEF History
    <1>10. Writers'
        BY <1>1, <1>3, <1>4 DEF ExportInv, Writers, Started, Closed, At
    <1>11. Written'
        BY <1>1, <1>4, <1>8 DEF Written, Started, At
    <1>12. SidecarPath # LogPath
        <2>1. SidecarPath.file = Sidecar /\ LogPath.file = LogFile /\ Sidecar[1] # LogFile[1]
            BY DEF SidecarPath, LogPath, Path, Sidecar, LogFile
        <2> QED BY <2>1
    <1>13. SidecarWritten'
        BY <1>1, <1>3, <1>8, <1>12 DEF ExportInv, SidecarWritten
    <1>14. ASSUME NEW p \in DOMAIN disk, disk[p].run = Run
           PROVE  OnDisk /\ (\/ \E f \in Files(request) : p = PublishedName(request, f)
                             \/ session.derived # <<>> /\ p = SidecarPath
                             \/ logged /\ p = LogPath)
        <2>1. OnDisk /\ Owned(p)
            BY <1>3, <1>14 DEF ExportInv, Mine
        <2>2. p = SidecarPath => disk[p].whole
            BY <1>1, <1>14 DEF Begun, SidecarPath
        <2> QED BY <1>1, <1>3, <2>1, <2>2, ClosedIsPublished DEF Owned, Half
    <1>20. VisibleIsWhole'
        <2> SUFFICES ASSUME NEW p \in DOMAIN disk', Staged(p.file), ~ p.hidden, ~ p.gz
                     PROVE  disk'[p].whole \/ (Aside(p.file) /\ exits'[disk'[p].run] # "ok")
            BY DEF VisibleIsWhole, Staged, Aside
        <2>1. CASE p = LogPath /\ logged
            BY <1>8, <2>1
        <2>2. CASE ~ (p = LogPath /\ logged)
            <3>1. p \in DOMAIN disk /\ disk'[p] = disk[p]
                BY <1>8, <2>2
            <3>2. disk[p].whole \/ (Aside(p.file) /\ exits[disk[p].run] # "ok")
                BY <3>1 DEF ExportInv, VisibleIsWhole
            <3>3. CASE disk[p].run # Run
                BY <1>2, <1>3, <3>1, <3>2, <3>3
            <3>4. CASE disk[p].run = Run /\ p = SidecarPath
                BY <1>1, <3>1, <3>4 DEF Begun, SidecarPath
            <3>5. CASE disk[p].run = Run /\ p # SidecarPath
                <4>1. PICK f \in Files(request) : p = PublishedName(request, f)
                    BY <1>14, <2>2, <3>1, <3>5
                <4>2. p.file = f
                    BY <4>1 DEF PublishedName, Path
                <4>3. ~ Aside(p.file)
                    BY <4>2, FileKinds DEF Aside, Sidecar, LogFile
                <4> QED BY <3>1, <3>2, <4>3
            <3> QED BY <3>3, <3>4, <3>5
        <2> QED BY <2>1, <2>2
    <1>15. Mine'
        <2> SUFFICES ASSUME NEW p \in DOMAIN disk', disk'[p].run = Run PROVE OnDisk /\ Owned(p)'
            BY <1>3, <1>4 DEF Mine
        <2>1. CASE p = LogPath /\ logged
            BY <1>1, <1>3, <2>1 DEF Owned, OnDisk
        <2>2. CASE ~ (p = LogPath /\ logged)
            <3>1. p \in DOMAIN disk /\ disk[p].run = Run
                BY <1>8, <2>2
            <3>2. OnDisk
                BY <1>14, <3>1
            <3>3. ASSUME NEW f \in Files(request), p = PublishedName(request, f)
                  PROVE  Started(f)' /\ p = Location(f)'
                <4>1. Location(f) = p /\ Started(f)
                    BY <1>1, <3>3, ClosedIsPublished
                <4> QED BY <1>1, <4>1 DEF Started, Location, PublishedName, TemporaryName, Zipped, At
            <3> QED BY <1>1, <1>14, <2>2, <3>1, <3>2, <3>3 DEF Owned
        <2> QED BY <2>1, <2>2
    <1>16. Replaced'
        <2> SUFFICES ASSUME NEW p \in DOMAIN disk', ~ p.hidden, p.file[1] \in {"part", "manifest"},
                            exits'[disk'[p].run] = "ok", NEW d \in Companions(p)
                     PROVE  d \in DOMAIN disk' /\ disk'[d].run >= disk'[p].run
            BY DEF Replaced, Companions
        <2>1. p # LogPath /\ p # SidecarPath /\ d # LogPath
            BY DEF LogPath, SidecarPath, Path, LogFile, Sidecar, Companions, Manifest
        <2>2. p \in DOMAIN disk /\ disk'[p] = disk[p]
            BY <1>8, <2>1
        <2>3. CASE disk[p].run = Run
            <3>1. PICK f \in Files(request) : p = PublishedName(request, f)
                BY <1>14, <2>1, <2>2, <2>3
            <3>2. OnDisk
                BY <1>14, <2>2, <2>3
            <3>3. p.file = f /\ p.gz = Zipped(request)
                BY <3>1 DEF PublishedName, Path
            <3>4. Manifest(f[2]) \in Files(request) /\ Manifest("lbd") \in Files(request)
                BY <3>3, FileKinds
            <3>5. PICK g \in {Manifest(f[2]), Manifest("lbd")} : d = PublishedName(request, g)
                BY <3>3 DEF Companions, PublishedName
            <3>6. Location(g) = d /\ Started(g)
                BY <1>1, <3>4, <3>5, ClosedIsPublished
            <3>7. d \in DOMAIN disk /\ disk[d].run = Run
                BY <1>3, <3>2, <3>4, <3>6 DEF ExportInv, Written, InPlace
            <3> QED BY <1>3, <1>8, <2>1, <2>2, <2>3, <3>7
        <2>4. CASE disk[p].run # Run
            <3>1. disk[p].run \in 1 .. (Run - 1)
                BY <1>2, <1>3, <2>2, <2>4
            <3>2. exits[disk[p].run] = "ok"
                BY <1>3, <2>2, <3>1
            <3>3. d \in DOMAIN disk /\ disk[d].run >= disk[p].run
                BY <2>2, <3>2 DEF ExportInv, Replaced
            <3> QED BY <1>8, <2>1, <2>2, <3>3
        <2> QED BY <2>3, <2>4
    <1>17. Summed'
        <2>1. \A f \in Files(request) : Closed(f)'
            BY <1>1 DEF Closed, At
        <2> QED BY <1>1, <1>3, <1>7, <1>8, <2>1 DEF Summed, PublishedName, Zipped
    <1> QED BY <1>8, <1>9, <1>10, <1>11, <1>13, <1>15, <1>16, <1>17, <1>20 DEF ExportInv

(* What is on disk has a name, and a name is its three parts.                *)
IsPath(p) == p = Path(p.file, p.gz, p.hidden) /\ p.hidden \in BOOLEAN
Named == \A p \in DOMAIN disk : IsPath(p)

LEMMA PathsAreNames ==
    ASSUME NEW f, NEW gz, NEW hidden \in BOOLEAN
    PROVE  IsPath(Path(f, gz, hidden))
    BY DEF IsPath, Path

LEMMA PutKeepsNames ==
    ASSUME NEW d, NEW p, NEW c
    PROVE  DOMAIN Put(d, p, c) = DOMAIN d \cup {p}
    BY DEF Put

LEMMA NamesKept ==
    ASSUME Named, [ExportNext]_export
    PROVE  Named'
    <1>1. CASE UNCHANGED disk
        BY <1>1 DEF Named
    <1>2. ASSUME NEW f, NEW w, disk' = Fill(f, w) PROVE Named'
        <2>1. IsPath(SinkPath(request, f))
            BY PathsAreNames DEF SinkPath, TemporaryName, PublishedName
        <2>2. DOMAIN disk' \subseteq DOMAIN disk \cup {SinkPath(request, f)}
            BY <1>2, PutKeepsNames DEF Fill
        <2> QED BY <2>1, <2>2 DEF Named
    <1>3. ASSUME NEW f \in DOMAIN step, OpenSink(f) \/ Flush(f) \/ DropSink(f) PROVE Named'
        BY <1>2, <1>3 DEF OpenSink, Flush, DropSink
    <1>4. ASSUME NEW f \in DOMAIN step, CommitSink(f) PROVE Named'
        <2>1. CASE OnDisk
            <3> DEFINE r == Restrict(disk, DOMAIN disk \ {TemporaryName(request, f)})
            <3>1. DOMAIN r \subseteq DOMAIN disk
                BY DEF Restrict
            <3>2. \E c : disk' = Put(r, PublishedName(request, f), c)
                BY <1>4, <2>1 DEF CommitSink
            <3> HIDE DEF r
            <3>3. DOMAIN disk' = DOMAIN r \cup {PublishedName(request, f)}
                BY <3>2, PutKeepsNames
            <3>4. IsPath(PublishedName(request, f))
                BY PathsAreNames DEF PublishedName
            <3> QED BY <3>1, <3>3, <3>4 DEF Named
        <2>2. CASE ~ OnDisk
            BY <1>4, <2>2 DEF CommitSink, Named
        <2> QED BY <2>1, <2>2
    <1>8. ASSUME NEW f, NEW w, PutAside(f, w) PROVE Named'
        <2>1. DOMAIN disk' = DOMAIN disk \cup {Path(f, FALSE, FALSE)}
            BY <1>8, PutKeepsNames DEF PutAside
        <2> QED BY <2>1, PathsAreNames DEF Named
    <1>5. ASSUME CreateDerived \/ AcceptDerived \/ CreateLog PROVE Named'
        BY <1>5, <1>8 DEF CreateDerived, AcceptDerived, CreateLog
    <1>6. ASSUME Finalize PROVE Named'
        <2>1. UNCHANGED disk \/ PutAside(LogFile, TRUE)
            BY <1>6 DEF Finalize
        <2> QED BY <1>1, <1>8, <2>1
    <1>7. ASSUME Start \/ Stop PROVE UNCHANGED disk
        BY <1>7 DEF Start, Stop
    <1> QED BY <1>1, <1>3, <1>4, <1>5, <1>6, <1>7 DEF ExportNext, export

(* ----- every step keeps the invariant --------------------------------------- *)
LEMMA InitExportInv ==
    ASSUME ExportInit
    PROVE  ExportInv /\ Named
    <1>1. exits = <<>> /\ DOMAIN disk = {} /\ ~ Live
        BY DEF ExportInit, Live
    <1>2. exits \in Seq({"running", "ok", "failed"})
        BY <1>1
    <1>3. History
        BY <1>1, <1>2 DEF History
    <1>4. Writers /\ Written /\ SidecarWritten /\ Mine /\ Summed
        BY <1>1 DEF Writers, Written, SidecarWritten, Mine, Summed
    <1>5. VisibleIsWhole /\ Chained /\ Replaced /\ Named
        BY <1>1 DEF VisibleIsWhole, Chained, Replaced, Named
    <1> QED BY <1>3, <1>4, <1>5 DEF ExportInv

LEMMA NextExportInv ==
    ASSUME ExportInv, [ExportNext]_export
    PROVE  ExportInv'
    <1>1. CASE Start
        BY <1>1, StartKeeps
    <1>2. ASSUME NEW f \in DOMAIN step, Running, OpenSink(f) PROVE ExportInv'
        BY <1>2, OpenSinkKeeps
    <1>3. ASSUME NEW f \in DOMAIN step, Running, Flush(f) PROVE ExportInv'
        BY <1>3, FlushKeeps
    <1>4. ASSUME NEW f \in DOMAIN step, Running, DropSink(f) PROVE ExportInv'
        BY <1>4, DropSinkKeeps
    <1>5. ASSUME NEW f \in DOMAIN step, Running, CommitSink(f) PROVE ExportInv'
        BY <1>5, CommitSinkKeeps
    <1>6. CASE CreateDerived \/ AcceptDerived
        BY <1>6, DerivedKeeps
    <1>10. CASE CreateLog
        BY <1>10, CreateLogKeeps
    <1>7. CASE Finalize
        <2>1. CASE session.staged = <<>>
            BY <1>7, <2>1, SuccessKeeps
        <2>2. CASE session.staged # <<>>
            <3>1. Running /\ exits' = Append(Front(exits), "failed") /\ UNCHANGED disk
                BY <1>7, <2>2 DEF Finalize, MayFinalize
            <3> QED BY <3>1, FailureKeeps
        <2> QED BY <2>1, <2>2
    <1>8. CASE Stop
        <2>1. Running /\ exits' = Append(Front(exits), "failed") /\ UNCHANGED disk
            BY <1>8 DEF Stop
        <2> QED BY <2>1, FailureKeeps
    <1>9. CASE UNCHANGED export
        <2>1. UNCHANGED <<disk, request, session, step, exits, summary>>
            BY <1>9 DEF export
        <2>2. History' /\ VisibleIsWhole'
            BY <2>1 DEF ExportInv, History, VisibleIsWhole, Run
        <2>9. Chained'
            BY <2>1 DEF ExportInv, Chained
        <2>10. Replaced'
            BY <2>1 DEF ExportInv, Replaced, Companions
        <2>3. (Live' <=> Live) /\ (OnDisk' <=> OnDisk) /\ Run' = Run
              /\ \A f \in Files(request) : (Started(f)' <=> Started(f)) /\ (Closed(f)' <=> Closed(f))
                                           /\ Location(f)' = Location(f) /\ Lists(f)' = Lists(f)
            BY <2>1 DEF Live, OnDisk, Started, Closed, At, Run,
                        Location, Lists, TemporaryName, PublishedName, Zipped
        <2>4. Writers'
            BY <2>1 DEF ExportInv, Writers, Live, OnDisk, Started, Closed, At
        <2>5. Written'
            BY <2>1, <2>3 DEF ExportInv, Written, InPlace, Flushes, Zipped
        <2>6. SidecarWritten'
            BY <2>1, <2>3 DEF ExportInv, SidecarWritten
        <2>7. Mine'
            BY <2>1, <2>3 DEF ExportInv, Mine, Owned, Half
        <2>8. Summed'
            <3>1. \A f : PublishedName(request, f)' = PublishedName(request, f)
                BY <2>1 DEF PublishedName, Zipped
            <3> QED BY <2>1, <2>3, <3>1 DEF ExportInv, Summed
        <2> QED BY <2>2, <2>4, <2>5, <2>6, <2>7, <2>8, <2>9, <2>10 DEF ExportInv
    <1> QED BY <1>1, <1>2, <1>3, <1>4, <1>5, <1>6, <1>7, <1>8, <1>9, <1>10
       DEF ExportNext

LEMMA ExportIsInvariant == ExportSpec => [](ExportInv /\ Named)
    <1>1. ExportInit => ExportInv /\ Named
        BY InitExportInv
    <1>2. ExportInv /\ Named /\ [ExportNext]_export => (ExportInv /\ Named)'
        BY NextExportInv, NamesKept
    <1> QED BY <1>1, <1>2, PTL DEF ExportSpec

(* ----- what a directory holds ------------------------------------------------ *)
(* Whatever dies when, and whatever was in the directory before: a chunk or  *)
(* manifest seen under its own name, and not zipped, is all there (the       *)
(* staged sinks of pipeline_plugins.rs:716-776), and a sidecar or log is,    *)
(* once its run has ended well (772, 908, 944).                              *)
THEOREM VisibleFilesAreWhole == ExportSpec => []VisibleIsWhole
    <1>1. ExportInv => VisibleIsWhole
        BY DEF ExportInv
    <1> QED BY <1>1, ExportIsInvariant, PTL

(* In any series of runs, killed ones among them, a manifest in the          *)
(* directory never names a file that is missing, or that a run before its    *)
(* own left (chunk_writer.rs:152-211, pipeline_plugins.rs:753-771).          *)
THEOREM ManifestsAreBacked == ExportSpec => []ManifestIsBacked
    <1>1. ASSUME ExportInv, Named PROVE ManifestIsBacked
        <2> SUFFICES ASSUME NEW m \in DOMAIN disk, ~ m.hidden, NEW f \in disk[m].lists
                     PROVE  /\ f \in DOMAIN disk /\ disk[f].run >= disk[m].run
                            /\ disk[f].run > disk[m].run => exits[disk[f].run] # "ok"
            BY DEF ManifestIsBacked
        <2>1. /\ f \in DOMAIN disk /\ disk[f].run >= disk[m].run
              /\ ~ f.hidden /\ f.gz = m.gz
              /\ f.file[1] \in {"part", "manifest"}
              /\ m.file \in {Manifest(f.file[2]), Manifest("lbd")}
            BY <1>1 DEF ExportInv, Chained
        <2>2. disk[f].run \in Nat /\ disk[m].run \in Nat
            BY <1>1, <2>1 DEF ExportInv, History
        <2>3. m \in Companions(f)
            <3>1. m = Path(m.file, m.gz, m.hidden) /\ m.hidden = FALSE
                BY <1>1 DEF Named, IsPath
            <3> QED BY <2>1, <3>1 DEF Companions
        <2>4. exits[disk[f].run] = "ok" => disk[m].run >= disk[f].run
            BY <1>1, <2>1, <2>3 DEF ExportInv, Replaced
        <2> QED BY <2>1, <2>2, <2>4
    <1> QED BY <1>1, ExportIsInvariant, PTL

(* A run that returns from finalize without an error has left, for any       *)
(* request, every file of it, as its own and under the names it returns, and *)
(* nothing else (main.rs:626-680).                                           *)
THEOREM SuccessesAreComplete == ExportSpec => []SuccessIsComplete
    <1>1. ASSUME ExportInv PROVE SuccessIsComplete
        <2> SUFFICES ASSUME Run > 0, Last(exits) = "ok", OnDisk PROVE SuccessIsComplete
            BY DEF SuccessIsComplete
        <2>1. exits \in Seq({"running", "ok", "failed"})
            BY <1>1 DEF ExportInv, History
        <2>2. exits # <<>>
            <3>1. Len(<<>>) = 0
                OBVIOUS
            <3> QED BY <3>1 DEF Run
        <2>3. Live
            BY <2>2 DEF Live
        <2>9. Last(exits) # "running"
            OBVIOUS
        <2>4. /\ \A f \in Files(request) : Closed(f)
              /\ summary = {PublishedName(request, f) : f \in Files(request)}
                             \cup (IF session.derived = <<>> THEN {} ELSE {SidecarPath})
                             \cup (IF request.exporter = "log" THEN {LogPath} ELSE {})
              /\ request.exporter = "log" =>
                    LogPath \in DOMAIN disk /\ disk[LogPath].run = Run /\ disk[LogPath].whole
            BY <1>1, <2>2 DEF ExportInv, Summed
        <2>5. ASSUME NEW f \in Files(request)
              PROVE  LET p == PublishedName(request, f) IN
                     /\ p \in summary /\ p \in DOMAIN disk /\ disk[p].run = Run
                     /\ disk[p].whole \/ p.gz \/ request.layout = "joined"
                     /\ ~ p.hidden
            <3> DEFINE p == PublishedName(request, f)
            <3>1. Location(f) = p /\ Started(f)
                BY <2>4, ClosedIsPublished
            <3>2. InPlace(f)
                BY <1>1, <2>3, <3>1 DEF ExportInv, Written
            <3>3. step[f] \in {"dropped", "published"}
                BY <2>4 DEF Closed, At
            <3>4. p.gz = Zipped(request) /\ ~ p.hidden
                BY DEF PublishedName, Path
            <3>5. p \in summary
                BY <2>4
            <3> HIDE DEF p
            <3>6. p \in DOMAIN disk /\ disk[p].run = Run
                BY <3>1, <3>2 DEF InPlace
            <3>7. disk[p].whole \/ p.gz \/ request.layout = "joined"
                BY <3>1, <3>2, <3>3, <3>4 DEF InPlace, Flushes
            <3> QED BY <3>4, <3>5, <3>6, <3>7 DEF p
        <2>6. ASSUME session.derived # <<>>
              PROVE  SidecarPath \in summary /\ SidecarPath \in DOMAIN disk /\ disk[SidecarPath].run = Run
            BY <1>1, <2>3, <2>4, <2>6 DEF ExportInv, SidecarWritten
        <2>7. \A p \in summary : p \in DOMAIN disk /\ disk[p].run = Run
            BY <2>4, <2>5, <2>6
        <2>8. ASSUME NEW p \in DOMAIN disk, disk[p].run = Run PROVE p \in summary /\ ~ p.hidden
            <3>1. Owned(p)
                BY <1>1, <2>3, <2>8 DEF ExportInv, Mine
            <3>2. ~ SidecarPath.hidden /\ ~ LogPath.hidden
                BY DEF SidecarPath, LogPath, Path
            <3>3. ASSUME NEW f \in Files(request), p = Location(f) PROVE p \in summary /\ ~ p.hidden
                BY <2>4, <2>5, <3>3, ClosedIsPublished
            <3>4. request.exporter = "log" => LogPath \in summary
                BY <2>4
            <3> QED BY <2>6, <2>9, <3>1, <3>2, <3>3, <3>4 DEF Owned, Half
        <2> QED BY <2>5, <2>7, <2>8 DEF SuccessIsComplete
    <1> QED BY <1>1, ExportIsInvariant, PTL
=============================================================================
