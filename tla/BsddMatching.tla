---------------------------- MODULE BsddMatching ----------------------------
(* Which property of the buildingSMART data dictionary a property of the    *)
(* file stands for (lbd-converter modules/bsdd.rs): profiles, the cascade   *)
(* of look-ups and the cache the preprocess module fills for the producer.  *)
(*                                                                          *)
(* A name is [sep, words]: normalised words and what stands between them,   *)
(* " " or ":"; `normalize` drops the separators.  A profile has             *)
(*   classes, sets, props   aliases: normalised name -> name                *)
(*   scoped                 set -> aliases of the properties in it          *)
(*   schemas                schema -> aliases of classes                    *)
(*   hard                   key -> code                                     *)
(*   fuzzy                  [enabled, scope, default], `default` for a      *)
(*                          threshold that is the built-in one              *)
(*   id                     the name it gives itself, "" for none           *)
(* and the index `exact` (class, set, property -> code), `bySet`, `byClass` *)
(* and `byProp` (-> sequence of codes).                                     *)
EXTENDS Integers, Sequences, FiniteSets, Functions, SequencesExt
CONSTANTS SoftwarePrefixes,   \* words that mark a set of an authoring tool
          Score,              \* <<name, name>> -> 0..100: names of one first letter and about one length
          Place,              \* <<class or set, name>> -> when the hash map of the index yields it
          MaxFuzzyCandidates  \* how many names a scan compares (400 in the code)

(* ----- normalize, surface_variants, strip_software_prefix ---------------- *)
Norm(name) ==
    LET joined[i \in 0..Len(name.words)] == IF i = 0 THEN "" ELSE joined[i - 1] \o name.words[i]
    IN  joined[Len(name.words)]
Without(name) == [ name EXCEPT !.words = Tail(@) ]
WithoutPrefix(name) ==
    IF name.sep = " " /\ Len(name.words) > 1 /\ name.words[1] \in SoftwarePrefixes THEN << Without(name) >> ELSE <<>>
(* What follows the last colon, or the first blank.                         *)
Segment(name) ==
    CASE Len(name.words) < 2 -> <<>>
      [] name.sep = " " -> << Without(name) >>
      [] OTHER -> << [ name EXCEPT !.words = << Last(@) >> ] >>
Surfaces(name, strip) ==
    <<name>> \o WithoutPrefix(name)
        \o (IF strip THEN Segment(name) \o (IF WithoutPrefix(name) = <<>> THEN <<>> ELSE Segment(Without(name))) ELSE <<>>)

(* ----- normalized_match_variants: the first spelling counts most --------- *)
At(f, key) == IF key \in DOMAIN f THEN << f[key] >> ELSE <<>>
NoAliases == [ x \in {} |-> <<>> ]
Aliases(f, key) == IF key \in DOMAIN f THEN f[key] ELSE NoAliases
Spelled(f, key, strip) == IF key \in DOMAIN f THEN Surfaces(f[key], strip) ELSE <<>>
Normalized(names) ==
    LET new(text, kept) == IF text = "" \/ text \in ToSet(kept) THEN <<>> ELSE <<text>>
        out[i \in 0..Len(names)] ==
            IF i = 0 THEN <<>> ELSE out[i - 1] \o new(Norm(names[i]), out[i - 1])
    IN  out[Len(names)]
Variants(name, aliases, schema, scoped, strip) ==
    LET alias(key) == Spelled(aliases, key, strip) \o Spelled(scoped, key, strip) \o Spelled(schema, key, strip)
    IN  Normalized(alias(Norm(name)) \o Surfaces(name, strip))
FirstOf(seq) == IF seq = <<>> THEN "" ELSE seq[1]

(* An occurrence is [schema, class, set, prop]: names as the file has them. *)
ClassNames(profile, o) ==
    Variants(o.class, profile.classes, Aliases(profile.schemas, o.schema), NoAliases, FALSE)
SetNames(profile, o) == Variants(o.set, profile.sets, NoAliases, NoAliases, FALSE)
PropNames(profile, o, sets) ==
    Variants(o.prop, profile.props, NoAliases, Aliases(profile.scoped, FirstOf(sets)), TRUE)
Names(profile, o) ==
    LET spelled(sets) ==
            [ schema |-> o.schema, classes |-> ClassNames(profile, o), sets |-> sets, props |-> PropNames(profile, o, sets) ]
    IN  spelled(SetNames(profile, o))

(* ----- resolve_property_impl --------------------------------------------- *)
Answer(status, code, among, method) == [ status |-> status, code |-> code, among |-> among, method |-> method ]
Unmapped == Answer("unmapped", "", {}, "unmapped")

(* The first combination of names that the profile or the dictionary states *)
(* as such; of the profile's entries the one for the schema counts first.   *)
Hard(profile, schema, key) == At(profile.hard, <<schema>> \o key) \o At(profile.hard, key)
Before(x, y) ==
    \/ x[1] < y[1]
    \/ x[1] = y[1] /\ (x[2] < y[2] \/ (x[2] = y[2] /\ x[3] <= y[3]))
Key(n, c) == << n.classes[c[1]], n.sets[c[2]], n.props[c[3]] >>
Hits(index, profile, n) ==
    { c \in (DOMAIN n.classes) \X (DOMAIN n.sets) \X (DOMAIN n.props) :
          Hard(profile, n.schema, Key(n, c)) # <<>> \/ Key(n, c) \in DOMAIN index.exact }
Says(index, key, hard) ==
    IF hard # <<>> THEN Answer("matched", hard[1], {}, "hard") ELSE Answer("matched", index.exact[key], {}, "exact")
Exact(index, profile, n) ==
    LET answer(key) == Says(index, key, Hard(profile, n.schema, key))
        first(hits) == CHOOSE c \in hits : \A d \in hits : Before(c, d)
        among(hits) == IF hits = {} THEN <<>> ELSE << answer(Key(n, first(hits))) >>
    IN  among(Hits(index, profile, n))

(* collect_candidates and the three levels: set and property, class and    *)
(* property, property.  A level with one code decides, one with several     *)
(* leaves the choice open.                                                  *)
Candidates(keys, lookup) == UNION { ToSet(lookup[k]) : k \in keys \cap DOMAIN lookup }
Level(codes, method) ==
    CASE codes = {} -> <<>>
      [] Cardinality(codes) = 1 -> << Answer("normalized", CHOOSE c \in codes : TRUE, {}, method) >>
      [] OTHER -> << Answer("ambiguous", "", codes, method) >>

(* resolve_fuzzy_class_scoped: the properties of one class, or of one set,  *)
(* whose names are similar enough, the best of them and those close to it.  *)
Threshold == 94
Margin == 2
Listed(lookup, group) ==
    UNION { { [ name |-> key[2], place |-> Place[key], code |-> lookup[key][i] ] : i \in DOMAIN lookup[key] }
            : key \in { k \in DOMAIN lookup : k[1] = group } }
Comparable(pool, name) == { x \in pool : <<name, x.name>> \in DOMAIN Score }
(* The scan ends when it has compared its maximum of names.                 *)
Inspected(pool, name) ==
    LET ahead(x) == { y.name : y \in { z \in Comparable(pool, name) : z.place < x.place } }
    IN  { x \in Comparable(pool, name) : Cardinality(ahead(x)) < MaxFuzzyCandidates }
Similar(pool, name) ==
    { [ code |-> p.code, score |-> Score[<<name, p.name>>] ]
      : p \in { x \in Inspected(pool, name) : Score[<<name, x.name>>] >= Threshold } }
(* Mutation: the names of every class are compared.                         *)
AnyClass(index, profile, class, set) ==
    UNION { Listed(index.byClass, key[1]) : key \in DOMAIN index.byClass }
Pool(index, profile, class, set) ==
    IF profile.fuzzy.scope = "pset" /\ set # "" THEN Listed(index.bySet, set)
    ELSE IF class # "" THEN Listed(index.byClass, class) ELSE {}
Closest(found) == { x.code : x \in { y \in found : \A z \in found : z.score <= y.score + Margin } }
(* The first spelling of the property that is similar to a name there.      *)
Guess(pool, props) ==
    LET first(known) == props[CHOOSE i \in known : \A j \in known : i <= j]
        among(known) == IF known = {} THEN <<>> ELSE Level(Closest(Similar(pool, first(known))), "fuzzy")
    IN  among({ i \in DOMAIN props : Similar(pool, props[i]) # {} })
Guesses(index, profile, n) ==
    IF profile.fuzzy.enabled /\ profile.fuzzy.scope # "never"
    THEN Guess(Pool(index, profile, FirstOf(n.classes), FirstOf(n.sets)), n.props) ELSE <<>>

(* The first of these answers is the answer.                                *)
Resolve(index, profile, n, fuzzy) ==
    Head(Exact(index, profile, n)
         \o Level(Candidates(ToSet(n.sets) \X ToSet(n.props), index.bySet), "set")
         \o Level(Candidates(ToSet(n.classes) \X ToSet(n.props), index.byClass), "class")
         \o Level(Candidates(ToSet(n.props), index.byProp), "prop")
         \o (IF fuzzy THEN Guesses(index, profile, n) ELSE <<>>)
         \o << Unmapped >>)

(* ----- build_bsdd_match_cache, stream_bsdd_with_cache -------------------- *)
CacheKey(n) == << n.schema, FirstOf(n.classes), FirstOf(n.sets), FirstOf(n.props) >>
(* The names of the occurrences in the order of their object, set and       *)
(* property: the first with a key is resolved for all of them.              *)
Prepared(index, profile, names) ==
    [ key \in { CacheKey(names[i]) : i \in DOMAIN names } |->
        LET same == { i \in DOMAIN names : CacheKey(names[i]) = key }
        IN  Resolve(index, profile, names[CHOOSE i \in same : \A j \in same : i <= j], TRUE) ]
Cache(index, profile, names) ==
    [ id |-> profile.id, guesses |-> TRUE, matches |-> Prepared(index, profile, names) ]
(* Without the preprocess module the producer has an empty cache and makes  *)
(* no guesses, nor does it when the cache is of another profile than the    *)
(* one asked for: by its id, which a path never is.                         *)
EmptyCache == [ id |-> "", guesses |-> FALSE, matches |-> [ key \in {} |-> Unmapped ] ]
Taken(cache, asked) == IF cache.id = asked \/ asked = "base" THEN cache ELSE EmptyCache
Cached(index, profile, cache, n) ==
    IF CacheKey(n) \in DOMAIN cache.matches THEN cache.matches[CacheKey(n)]
    ELSE Resolve(index, profile, n, cache.guesses)

(* ----- merge_overlay, load_named_profile --------------------------------- *)
Over(f, g) == [ k \in DOMAIN f \cup DOMAIN g |-> IF k \in DOMAIN g THEN g[k] ELSE f[k] ]
OverEach(f, g) == [ k \in DOMAIN f \cup DOMAIN g |-> Over(Aliases(f, k), Aliases(g, k)) ]
MergeOverlay(base, overlay) ==
    [ id |-> IF overlay.id # "" THEN overlay.id ELSE base.id,
      classes |-> Over(base.classes, overlay.classes), sets |-> Over(base.sets, overlay.sets),
      props |-> Over(base.props, overlay.props), hard |-> Over(base.hard, overlay.hard),
      scoped |-> OverEach(base.scoped, overlay.scoped), schemas |-> OverEach(base.schemas, overlay.schemas),
      fuzzy |-> IF overlay.fuzzy.default /\ overlay.fuzzy.enabled THEN base.fuzzy ELSE overlay.fuzzy ]
-----------------------------------------------------------------------------
(* The index lists finitely many names with a sequence of codes each; hard  *)
(* mappings are for a class, a set and a property, or a schema and these.   *)
IsLevel(lookup) ==
    /\ IsFiniteSet(DOMAIN lookup) /\ DOMAIN lookup \subseteq STRING \X STRING
    /\ \A k \in DOMAIN lookup : lookup[k] \in Seq(STRING)
IsIndex(index) ==
    /\ IsLevel(index.bySet) /\ IsLevel(index.byClass)
    /\ \A k \in DOMAIN index.byProp : index.byProp[k] \in Seq(STRING)
IsProfile(profile) ==
    \A k \in DOMAIN profile.hard : k \in Seq(STRING) /\ Len(k) \in {3, 4}

(* What the index lists at a level, for any of the names.                   *)
InLevel(names, groups, lookup) ==
    UNION { ToSet(lookup[k]) : k \in { x \in DOMAIN lookup : x[1] \in groups /\ x[2] \in names } }
Levels(index, n) ==
    << InLevel(ToSet(n.props), ToSet(n.sets), index.bySet), InLevel(ToSet(n.props), ToSet(n.classes), index.byClass),
       UNION { ToSet(index.byProp[p]) : p \in ToSet(n.props) \cap DOMAIN index.byProp } >>
Stated(index, profile, n) ==
    LET stated(keys) ==
            { index.exact[k] : k \in keys \cap DOMAIN index.exact }
            \cup { profile.hard[k] : k \in { x \in DOMAIN profile.hard : x \in keys \/ (x[1] = n.schema /\ Tail(x) \in keys) } }
    IN  stated(ToSet(n.classes) \X ToSet(n.sets) \X ToSet(n.props))
(* No answer is a mismatch of another class: a match is stated by the       *)
(* dictionary or the profile, the strongest level that knows the name       *)
(* decides and decides only with a single code, and a guess is a property   *)
(* of the object's own class or set, the only one that is close (the        *)
(* comment at bsdd.rs 581-583: "Unmapped is preferable to a cross-class     *)
(* mismatch").                                                              *)
OwnProperties(index, n) ==
    (UNION { ToSet(index.byClass[k]) : k \in { x \in DOMAIN index.byClass : x[1] = FirstOf(n.classes) } })
    \cup (UNION { ToSet(index.bySet[k]) : k \in { x \in DOMAIN index.bySet : x[1] = FirstOf(n.sets) } })
Codes(answer) ==
    CASE answer.status = "ambiguous" -> answer.among
      [] answer.status = "unmapped" -> {}
      [] OTHER -> {answer.code}
StrongestLevel(levels) ==
    LET knowing == { i \in 1..3 : levels[i] # {} }
    IN  IF knowing = {} THEN {} ELSE levels[CHOOSE i \in knowing : \A j \in knowing : i <= j]
Earned(answer, codes, stated, strongest, own) ==
    /\ answer.status = "matched" <=> stated # {}
    /\ answer.status = "ambiguous" <=> Cardinality(codes) > 1
    /\ stated # {} => codes \subseteq stated
    /\ stated = {} /\ strongest # {} => codes = strongest
    /\ stated = {} /\ strongest = {} => codes \subseteq own
EarnedMatch(index, base, overlay, o) ==
    \A profile \in { MergeOverlay(base, overlay) } : \A n \in { Names(profile, o) } :
        \A answer \in { Resolve(index, profile, n, TRUE) } :
            Earned(answer, Codes(answer), Stated(index, profile, n), StrongestLevel(Levels(index, n)), OwnProperties(index, n))

(* The cache answers as the dictionary would: occurrences that normalise    *)
(* alike get one answer, the direct answer of one of them; without the      *)
(* preprocess module nothing but the guesses is lost (bsdd.rs 349-350: all  *)
(* look-ups "still run - only similarity-based guessing is omitted").  No   *)
(* more is lost when the preprocess module ran, but its cache goes by       *)
(* another name than the profile that was asked for.                        *)
Alike(n, m) ==
    /\ n.schema = m.schema
    /\ FirstOf(n.classes) = FirstOf(m.classes)
    /\ FirstOf(n.sets) = FirstOf(m.sets)
    /\ FirstOf(n.props) = FirstOf(m.props)
AnswersAlike(names, direct, emitted) ==
    \A i \in DOMAIN names :
        /\ \E j \in DOMAIN names : Alike(names[i], names[j]) /\ emitted[i] = direct[j]
        /\ \A j \in DOMAIN names : Alike(names[i], names[j]) => emitted[i] = emitted[j]
OnlyGuessesLost(direct, emitted) ==
    \A i \in DOMAIN direct : emitted[i] = IF direct[i].method = "fuzzy" THEN Unmapped ELSE direct[i]
FaithfulCache(index, base, overlay, asked, occurrences) ==
    LET answers(profile, cache, names) ==
            <<>> \o [ i \in DOMAIN names |-> Cached(index, profile, cache, names[i]) ]
    IN  \A profile \in { MergeOverlay(base, overlay) } :
        \A names \in { <<>> \o [ i \in DOMAIN occurrences |-> Names(profile, occurrences[i]) ] } :
        \A direct \in { <<>> \o [ i \in DOMAIN names |-> Resolve(index, profile, names[i], TRUE) ] } :
        \A emitted \in { answers(profile, Taken(Cache(index, profile, names), asked), names) } :
            /\ IF asked \in {profile.id, "base"} THEN AnswersAlike(names, direct, emitted) ELSE OnlyGuessesLost(direct, emitted)
            /\ OnlyGuessesLost(direct, answers(profile, EmptyCache, names))
=============================================================================
