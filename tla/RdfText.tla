------------------------------ MODULE RdfText ------------------------------
(* The writers of Turtle and N-Quads (lbd-serializer, the table of prefixes *)
(* of lbd-ontology) and the choice the command line makes among them.       *)
(*                                                                          *)
(* An IRI is a sequence of characters; a run of characters that nothing     *)
(* cuts stands as one. An object is [ iri ], [ text, type ] or [ text ],    *)
(* type being an IRI. A batch is [ graph, triples ], the triples being      *)
(* [ s, p, o ]. What is written is a sequence of words:                     *)
(*   <<"@prefix", name, iri>>, <<"iri", iri>>, <<"name", prefix, local>>,   *)
(*   <<"a">>, <<"literal", characters>> or <<"literal", characters, word>>  *)
(* (the characters are those between the quotes, the word is the datatype)  *)
(* and the marks <<".">>, <<";">>, <<",">>. Spaces and line ends are left   *)
(* out, and so are errors of the disk (ExportSession has them). IRIs hold   *)
(* no character that must not stand between angle brackets.                 *)
EXTENDS Integers, Sequences, SequencesExt

Lexemes == << "\n", "\t", "\r", "\"", "%", "-", ".", "/", "1", "4", "A", "\\", "_", "a", "b", "bot#", "n", "rdf#", "schema.org", "type", "w3id.org", "xsd#", "~" >>
Letters == {"a", "b", "n", "A", "type"}
Digits == {"1", "4"}
Hex == {"a", "b", "A", "1", "4"}

(* ----- lbd-ontology: the table of prefixes, four stand for all ------------ *)
PREFIXES ==
    << <<"bot", <<"w3id.org", "/", "bot#">> >>, <<"schema", <<"schema.org", "/">> >>, <<"rdf", <<"rdf#">> >>, <<"xsd", <<"xsd#">> >> >>
RdfType == <<"rdf#", "type">>

(* ----- names -------------------------------------------------------------- *)
EnsureTrailingSlash(base) == IF base # <<>> /\ Last(base) = "/" THEN base ELSE Append(base, "/")
RECURSIVE IsRest(_)
IsRest(local) ==
    \/ local = <<>>
    \/ Head(local) \in Letters \cup Digits \cup {"_", "-", "."} /\ IsRest(Tail(local))
    \/ /\ Len(local) > 2
       /\ local[1] = "%" /\ local[2] \in Hex /\ local[3] \in Hex
       /\ IsRest(SubSeq(local, 4, Len(local)))
IsValidPrefixedLocal(local) ==
    local # <<>> /\ local[1] \in Letters \cup {"_"} /\ IsRest(Tail(local))
(* The instance base is <<>> or << base >>; it comes before the table.      *)
Namespaces(base) ==
    (IF base = <<>> THEN <<>> ELSE << <<"inst", EnsureTrailingSlash(base[1])>> >>) \o PREFIXES
LocalOf(iri, namespace) == SubSeq(iri, Len(namespace) + 1, Len(iri))
FirstOf(S) == CHOOSE i \in S : \A j \in S : i <= j
CompactAnywhere(iri, namespaces) ==
    LET fits == { i \in DOMAIN namespaces :
                    IsPrefix(namespaces[i][2], iri) /\ IsValidPrefixedLocal(LocalOf(iri, namespaces[i][2])) }
    IN  IF fits = {} THEN <<"iri", iri>>
        ELSE <<"name", namespaces[FirstOf(fits)][1], LocalOf(iri, namespaces[FirstOf(fits)][2])>>
CompactIri(iri, base) == IF iri = RdfType THEN <<"a">> ELSE CompactAnywhere(iri, Namespaces(base))

(* ----- literals ------------------------------------------------------------ *)
Escaped(ch) ==
    CASE ch = "\\" -> <<"\\", "\\">>
      [] ch = "\"" -> <<"\\", "\"">>
      [] ch = "\n" -> <<"\\", "n">>
      [] ch = "\r" -> <<"\\", "r">>
      [] ch = "\t" -> <<"\\", "t">>
      [] OTHER -> <<ch>>
EscapeLiteral(text) == FlattenSeq([ i \in DOMAIN text |-> Escaped(text[i]) ])
FormatObject(o, base) ==
    IF "iri" \in DOMAIN o THEN CompactIri(o.iri, base)
    ELSE IF "type" \in DOMAIN o THEN <<"literal", EscapeLiteral(o.text), CompactIri(o.type, base)>>
    ELSE <<"literal", EscapeLiteral(o.text)>>
RawObject(o) ==
    IF "iri" \in DOMAIN o THEN <<"iri", o.iri>>
    ELSE IF "type" \in DOMAIN o THEN <<"literal", EscapeLiteral(o.text), <<"iri", o.type>>>>
    ELSE <<"literal", EscapeLiteral(o.text)>>

(* ----- headers ------------------------------------------------------------- *)
MarkUsedPrefix(iri, namespaces) ==
    LET under == { i \in DOMAIN namespaces : IsPrefix(namespaces[i][2], iri) }
    IN  IF under = {} THEN {} ELSE { namespaces[FirstOf(under)][1] }
ObjectIris(o) == IF "iri" \in DOMAIN o THEN {o.iri} ELSE IF "type" \in DOMAIN o THEN {o.type} ELSE {}
Iris(t) == {t.s, t.p} \cup ObjectIris(t.o)
(* Mutation: the types of literals are not looked at.                       *)
UsedButByTypes(triples, base) ==
    UNION { MarkUsedPrefix(iri, Namespaces(base))
            : iri \in UNION { IF "type" \in DOMAIN t.o THEN {t.s, t.p} ELSE Iris(t) : t \in ToSet(triples) } }
CollectUsedPrefixes(triples, base) ==
    UNION { MarkUsedPrefix(iri, Namespaces(base)) : iri \in UNION { Iris(t) : t \in ToSet(triples) } }
Declarations(namespaces) == [ i \in DOMAIN namespaces |-> <<"@prefix", namespaces[i][1], namespaces[i][2]>> ]
UsedPrefixes(triples, base) ==
    SelectSeq(Declarations(Namespaces(base)), LAMBDA d : d[2] \in CollectUsedPrefixes(triples, base))
AllPrefixes(base) == Declarations(Namespaces(base))

(* ----- sorted and grouped --------------------------------------------------- *)
Rank(ch) == CHOOSE i \in DOMAIN Lexemes : Lexemes[i] = ch
LessIri(x, y) ==
    \E i \in DOMAIN y :
        /\ \A j \in 1..(i - 1) : j <= Len(x) /\ x[j] = y[j]
        /\ Len(x) < i \/ (x[i] # y[i] /\ Rank(x[i]) < Rank(y[i]))
ObjectKind(o) == CASE "iri" \in DOMAIN o -> 1 [] "type" \in DOMAIN o -> 3 [] OTHER -> 2
TextOf(o) == IF "iri" \in DOMAIN o THEN o.iri ELSE o.text
CompareObjects(x, y) ==
    \/ ObjectKind(x) < ObjectKind(y)
    \/ ObjectKind(x) = ObjectKind(y) /\ LessIri(TextOf(x), TextOf(y))
    \/ ObjectKind(x) = 3 /\ ObjectKind(y) = 3 /\ x.text = y.text /\ LessIri(x.type, y.type)
CompareTriples(x, y) ==
    \/ LessIri(x.s, y.s)
    \/ x.s = y.s /\ (LessIri(x.p, y.p) \/ (x.p = y.p /\ CompareObjects(x.o, y.o)))
Ordered(triples) ==
    LET sorted == SetToSortSeq(DOMAIN triples,
                               LAMBDA i, j : \/ CompareTriples(triples[i], triples[j])
                                             \/ triples[i] = triples[j] /\ i < j)
    IN  [ k \in DOMAIN sorted |-> triples[sorted[k]] ]
(* What the loops write at one triple of the sorted list: a subject and a   *)
(* predicate where a new one begins, the object unless it is written        *)
(* already, and the mark that ends the predicate's objects.                 *)
SameSubject(ts, i, j) == {i, j} \subseteq DOMAIN ts /\ ts[i].s = ts[j].s
SamePredicate(ts, i, j) == SameSubject(ts, i, j) /\ ts[i].p = ts[j].p
Written(ts, i) == SamePredicate(ts, i - 1, i) /\ ts[i - 1].o = ts[i].o
GroupedAt(ts, i, base) ==
    (IF SameSubject(ts, i - 1, i) THEN <<>> ELSE <<CompactIri(ts[i].s, base)>>)
    \o (IF SamePredicate(ts, i - 1, i) THEN <<>> ELSE <<CompactIri(ts[i].p, base)>>)
    \o (IF Written(ts, i) THEN <<>>
        ELSE (IF SamePredicate(ts, i - 1, i) THEN << <<",">> >> ELSE <<>>) \o <<FormatObject(ts[i].o, base)>>)
    \o (IF SamePredicate(ts, i, i + 1) THEN <<>>
        ELSE IF SameSubject(ts, i, i + 1) THEN << <<";">> >> ELSE << <<".">> >>)
Groups(ts, base) == FlattenSeq([ i \in DOMAIN ts |-> GroupedAt(ts, i, base) ])
WriteGroupedTurtle(triples, base) == UsedPrefixes(triples, base) \o Groups(Ordered(triples), base)

(* ----- one triple after the other ------------------------------------------ *)
TurtleLine(t, base) == << CompactIri(t.s, base), CompactIri(t.p, base), FormatObject(t.o, base), <<".">> >>
RawLine(t) == << <<"iri", t.s>>, <<"iri", t.p>>, RawObject(t.o), <<".">> >>
TurtleBatch(triples, base) == FlattenSeq([ i \in DOMAIN triples |-> TurtleLine(triples[i], base) ])
RawBatch(triples) == FlattenSeq([ i \in DOMAIN triples |-> RawLine(triples[i]) ])
NquadLine(t, graph) == << <<"iri", t.s>>, <<"iri", t.p>>, RawObject(t.o), <<"iri", graph>>, <<".">> >>
NquadsBatch(triples, graph) == FlattenSeq([ i \in DOMAIN triples |-> NquadLine(triples[i], graph) ])

(* ----- files: the choice of layout (main) ----------------------------------- *)
All(batches) == FlattenSeq([ i \in DOMAIN batches |-> batches[i].triples ])
StreamedFile(batches, base) ==
    AllPrefixes(base) \o FlattenSeq([ i \in DOMAIN batches |-> TurtleBatch(batches[i].triples, base) ])
SeparateBatches(batches, graph) == SelectSeq(batches, LAMBDA b : b.graph = graph)
SeparateFile(batches, grouping, base) ==
    IF grouping = "sorted" THEN WriteGroupedTurtle(All(batches), base) ELSE AllPrefixes(base) \o RawBatch(All(batches))
TurtleFiles(batches, layout, grouping, base) ==
    CASE layout = "separate" ->
           { SeparateFile(SeparateBatches(batches, g), grouping, base) : g \in { b.graph : b \in ToSet(batches) } }
      [] layout = "joined" /\ grouping = "sorted" -> { WriteGroupedTurtle(All(batches), base) }
      [] OTHER -> { StreamedFile(batches, base) }
BatchGraphIri(batch, naming, filename) == IF naming = "producers" THEN batch.graph ELSE filename
NquadsFile(batches, naming, filename) ==
    FlattenSeq([ i \in DOMAIN batches |-> NquadsBatch(batches[i].triples, BatchGraphIri(batches[i], naming, filename)) ])

(* ----- a reader (external: the grammars of Turtle and N-Quads) --------------- *)
IsPnLocal(local) ==
    /\ local # <<>> /\ local[1] \notin {".", "-"} /\ Last(local) # "."
    /\ \A i \in DOMAIN local :
         \/ local[i] \in Letters \cup Digits \cup {"_", "-", "."}
         \/ /\ local[i] = "%"
            /\ i + 2 \in DOMAIN local
            /\ local[i + 1] \in Hex /\ local[i + 2] \in Hex
RECURSIVE IsQuotable(_)
IsQuotable(chars) ==
    \/ chars = <<>>
    \/ /\ Head(chars) = "\\"
       /\ Len(chars) > 1 /\ chars[2] \in {"\\", "\"", "n", "r", "t"}
       /\ IsQuotable(SubSeq(chars, 3, Len(chars)))
    \/ Head(chars) \notin {"\\", "\"", "\n", "\r"} /\ IsQuotable(Tail(chars))
RECURSIVE Unescape(_)
Unescape(chars) ==
    IF chars = <<>> THEN <<>>
    ELSE IF Head(chars) # "\\" THEN <<Head(chars)>> \o Unescape(Tail(chars))
    ELSE << CASE chars[2] = "n" -> "\n" [] chars[2] = "r" -> "\r" [] chars[2] = "t" -> "\t" [] OTHER -> chars[2] >>
         \o Unescape(SubSeq(chars, 3, Len(chars)))
(* Which words may stand at a place (1 subject, 2 predicate, 3 object,      *)
(* 4 graph), with the prefixes declared so far, and what they mean there.   *)
IsIriWord(word, place, declared) ==
    CASE word[1] = "iri" -> TRUE
      [] word[1] = "name" -> word[2] \in DOMAIN declared /\ IsPnLocal(word[3])
      [] word[1] = "a" -> place = 2
      [] OTHER -> FALSE
MayStand(word, place, declared) ==
    \/ IsIriWord(word, place, declared)
    \/ /\ word[1] = "literal" /\ place = 3 /\ IsQuotable(word[2])
       /\ Len(word) = 3 => IsIriWord(word[3], place, declared)
IriMeant(word, declared) ==
    CASE word[1] = "iri" -> word[2] [] word[1] = "name" -> declared[word[2]] \o word[3] [] OTHER -> RdfType
Meant(word, declared) ==
    CASE word[1] = "literal" /\ Len(word) = 3 -> [ text |-> Unescape(word[2]), type |-> IriMeant(word[3], declared) ]
      [] word[1] = "literal" -> [ text |-> Unescape(word[2]) ]
      [] OTHER -> [ iri |-> IriMeant(word, declared) ]
(* Reads words with the terms of the statement so far; a statement has      *)
(* width terms. Words that do not parse yield the set of an error.          *)
Unreadable == { <<"error">> }
Full(at, width) == Len(at) = width
RECURSIVE ReadOn(_, _, _, _, _)
ReadOn(words, width, declared, at, got) ==
    IF words = <<>> THEN IF at = <<>> THEN got ELSE Unreadable
    ELSE CASE Head(words)[1] = "@prefix" /\ at = <<>> ->
                ReadOn(Tail(words), width,
                       [ n \in DOMAIN declared \cup {Head(words)[2]} |-> IF n = Head(words)[2] THEN Head(words)[3] ELSE declared[n] ], at, got)
           [] Head(words)[1] \in {".", ";", ","} /\ Full(at, width) ->
                ReadOn(Tail(words), width, declared,
                       SubSeq(at, 1, CASE Head(words)[1] = "." -> 0 [] Head(words)[1] = ";" -> 1 [] OTHER -> 2), got \cup {at})
           [] ~Full(at, width) /\ MayStand(Head(words), Len(at) + 1, declared) ->
                ReadOn(Tail(words), width, declared, Append(at, Meant(Head(words), declared)), got)
           [] OTHER -> Unreadable
Read(words, width) == ReadOn(words, width, [ n \in {} |-> <<>> ], <<>>, {})

(* ----- what the writers promise ---------------------------------------------- *)
Iri(x) == [ iri |-> x ]
Fact(t) == << Iri(t.s), Iri(t.p), t.o >>
Facts(batches) == { Fact(t) : t \in ToSet(All(batches)) }
Quads(batches, naming, filename) ==
    UNION { { Append(Fact(t), Iri(BatchGraphIri(b, naming, filename))) : t \in ToSet(b.triples) } : b \in ToSet(batches) }
(* Three inputs the writers of Turtle get wrong: rdf:type outside the place *)
(* of a predicate is written as "a", a name may end in a dot, and the list  *)
(* of used prefixes forgets one whose namespace lies under the base.        *)
Misread(t) ==
    \/ RdfType \in {t.s} \cup ObjectIris(t.o)
    \/ \E iri \in Iris(t) : Last(iri) = "."
BaseHidesNamespace(base) ==
    base # <<>> /\ \E i \in DOMAIN PREFIXES : IsStrictPrefix(EnsureTrailingSlash(base[1]), PREFIXES[i][2])
(* Whatever layout, grouping and graph names are chosen, the files together *)
(* say every triple that was produced and no other, each in its graph; with *)
(* the exceptions above, of which the last concerns only sorted files.      *)
GraphsReadBack(batches, layout, grouping, naming, filename, base) ==
    /\ (\E t \in ToSet(All(batches)) : Misread(t)) \/ (grouping = "sorted" /\ BaseHidesNamespace(base))
       \/ UNION { Read(f, 3) : f \in TurtleFiles(batches, layout, grouping, base) } = Facts(batches)
    /\ Read(NquadsFile(batches, naming, filename), 4) = Quads(batches, naming, filename)
=============================================================================
