--------------------------- MODULE HostSetup_proofs ---------------------------
(* The resolver of activations (Activation), for any registry - also one     *)
(* whose plugins require each other in chains or in circles, which neither   *)
(* host has today - and any request; and the set-up of a run, which uses the *)
(* resolver as Activation specifies it: what is proved of the resolver holds *)
(* of every conversion.                                                      *)
EXTENDS HostSetup, FiniteSetTheorems, TLAPS

(* ----- sequences as stacks ---------------------------------------------- *)
LEMMA FrontAndLast ==
    ASSUME NEW S, NEW s \in Seq(S), s # <<>>
    PROVE  /\ Front(s) \in Seq(S)
           /\ Last(s) \in S
           /\ Range(s) = Range(Front(s)) \cup {Last(s)}
    <1>1. Len(s) \in Nat \ {0} /\ s \in [1..Len(s) -> S]
        BY SMT
    <1>2. /\ Front(s) \in Seq(S)
          /\ Len(Front(s)) = Len(s) - 1
          /\ \A i \in 1..(Len(s) - 1) : Front(s)[i] = s[i]
        BY <1>1, SMT DEF Front
    <1>3. DOMAIN Front(s) = 1..(Len(s) - 1) /\ DOMAIN s = 1..Len(s)
        BY <1>1, <1>2, SMT
    <1>4. Last(s) = s[Len(s)] /\ Last(s) \in S
        BY <1>1 DEF Last
    <1>5. ASSUME NEW x \in Range(s) PROVE x \in Range(Front(s)) \cup {Last(s)}
        <2>1. PICK i \in 1..Len(s) : x = s[i]
            BY <1>3 DEF Range
        <2>2. CASE i = Len(s)
            BY <1>4, <2>1, <2>2
        <2>3. CASE i # Len(s)
            <3>1. i \in 1..(Len(s) - 1)
                <4>1. Len(s) \in Nat
                    BY <1>1
                <4> QED BY <4>1, <2>3
            <3> QED BY <1>2, <1>3, <2>1, <3>1 DEF Range
        <2> QED BY <2>2, <2>3
    <1>6. ASSUME NEW x \in Range(Front(s)) PROVE x \in Range(s)
        <2>1. PICK i \in 1..(Len(s) - 1) : x = Front(s)[i]
            BY <1>3 DEF Range
        <2>2. i \in 1..Len(s)
            BY <1>1
        <2> QED BY <1>2, <1>3, <2>1, <2>2 DEF Range
    <1>7. Last(s) \in Range(s)
        <2>1. Len(s) \in DOMAIN s
            BY <1>1, <1>3
        <2> QED BY <1>4, <2>1 DEF Range
    <1> QED BY <1>2, <1>4, <1>5, <1>6, <1>7

LEMMA Appended ==
    ASSUME NEW S, NEW s \in Seq(S), NEW x \in S
    PROVE  /\ Append(s, x) \in Seq(S)
           /\ Len(Append(s, x)) = Len(s) + 1
           /\ DOMAIN Append(s, x) = 1..(Len(s) + 1) /\ DOMAIN s = 1..Len(s) /\ Len(s) \in Nat
           /\ \A i \in 1..Len(s) : Append(s, x)[i] = s[i]
           /\ Append(s, x)[Len(s) + 1] = x
           /\ Range(Append(s, x)) = Range(s) \cup {x}
    <1>1. /\ Append(s, x) \in Seq(S)
          /\ Len(Append(s, x)) = Len(s) + 1
          /\ DOMAIN Append(s, x) = 1..(Len(s) + 1) /\ DOMAIN s = 1..Len(s) /\ Len(s) \in Nat
          /\ \A i \in 1..Len(s) : Append(s, x)[i] = s[i]
          /\ Append(s, x)[Len(s) + 1] = x
        BY SMT
    <1>2. \A i \in 1..(Len(s) + 1) : i \in 1..Len(s) \/ i = Len(s) + 1
        BY <1>1
    <1>3. \A i \in 1..Len(s) : i \in 1..(Len(s) + 1)
        BY <1>1
    <1>4. Len(s) + 1 \in 1..(Len(s) + 1)
        BY <1>1
    <1>5. Range(Append(s, x)) \subseteq Range(s) \cup {x}
        BY <1>1, <1>2 DEF Range
    <1>6. Range(s) \cup {x} \subseteq Range(Append(s, x))
        BY <1>1, <1>3, <1>4 DEF Range
    <1> QED BY <1>1, <1>5, <1>6

LEMMA EmptyRange == Range(<<>>) = {}
    BY DEF Range

LEMMA Members ==
    ASSUME NEW S, NEW s \in Seq(S)
    PROVE  Range(s) \subseteq S /\ DOMAIN s = 1..Len(s) /\ Len(s) \in Nat
    BY SMT DEF Range

(* What the registry gives: plugins are ids, requirements are ids.          *)
LEMMA Registry ==
    ASSUME ResolveTypeOK
    PROVE  /\ Plugins \subseteq Ids
           /\ \A p \in Ids : Requires[p] \in Seq(Ids)
           /\ Seen \subseteq Plugins
           /\ DOMAIN enabled = 1..Len(enabled) /\ Len(enabled) \in Nat
    <1>1. Plugins \subseteq Ids /\ \A p \in Ids : Requires[p] \in Seq(Ids)
        BY RegistryAssumption DEF ResolveTypeOK, Plugins
    <1>2. enabled \in Seq(Plugins)
        BY DEF ResolveTypeOK
    <1>3. Seen \subseteq Plugins /\ DOMAIN enabled = 1..Len(enabled) /\ Len(enabled) \in Nat
        BY <1>2, Members DEF Seen
    <1> QED BY <1>1, <1>3

(* ----- the start --------------------------------------------------------- *)
LEMMA ResolveStarts ==
    ASSUME NEW h \in Hosts, NEW request \in Seq(Ids), ResolveInit(h, request)
    PROVE  ResolveInv
    <1>1. ResolveTypeOK
        BY DEF ResolveInit, ResolveTypeOK
    <1>2. Seen = {} /\ Range(pushing) = {} /\ Range(queue) = Range(requested)
          /\ DOMAIN enabled = {} /\ outcome = "resolving"
        BY EmptyRange DEF ResolveInit, Seen
    <1>3. NothingForgotten /\ NothingAdded /\ NothingTwice /\ Judged
        BY <1>2 DEF NothingForgotten, NothingAdded, NothingTwice, Judged, Ahead, AskedFor
    <1> QED BY <1>1, <1>3 DEF ResolveInv

(* ----- the loop ---------------------------------------------------------- *)
(* The plan does not change, and what is ahead only loses ids that are seen. *)
LEMMA SamePlan ==
    ASSUME ResolveInv, ResolveTypeOK',
           UNCHANGED <<host, requested, enabled>>,
           outcome = "resolving", outcome' = "resolving",
           Ahead' \subseteq Ahead, Ahead \subseteq Ahead' \cup Seen
    PROVE  ResolveInv'
    <1>1. Seen' = Seen /\ \A i, d : AskedFor(d, i)' <=> AskedFor(d, i)
        BY DEF Seen, AskedFor, Needs
    <1>2. NothingForgotten'
        BY <1>1 DEF ResolveInv, NothingForgotten, Needs
    <1>3. NothingAdded'
        BY <1>1 DEF ResolveInv, NothingAdded
    <1>4. NothingTwice' /\ Judged'
        BY DEF ResolveInv, NothingTwice, Judged
    <1> QED BY <1>2, <1>3, <1>4 DEF ResolveInv

LEMMA SeenIsSkipped ==
    ASSUME ResolveInv, Visit, Last(queue) \in Seen
    PROVE  ResolveInv'
    <1>1. ResolveTypeOK /\ queue \in Seq(Ids) /\ queue # <<>>
        BY DEF ResolveInv, ResolveTypeOK, Visit
    <1>2. /\ queue' = Front(queue) /\ outcome' = "resolving" /\ outcome = "resolving"
          /\ UNCHANGED <<host, requested, pushing, enabled>>
        BY <1>1, Registry DEF Visit
    <1>3. queue' \in Seq(Ids) /\ Range(queue) = Range(queue') \cup {Last(queue)}
        BY <1>1, <1>2, FrontAndLast
    <1>4. ResolveTypeOK'
        BY <1>1, <1>2, <1>3 DEF ResolveTypeOK, Plugins
    <1>5. Ahead' \subseteq Ahead /\ Ahead \subseteq Ahead' \cup Seen
        BY <1>2, <1>3 DEF Ahead
    <1> QED BY <1>2, <1>4, <1>5, SamePlan

LEMMA PushKeeps ==
    ASSUME ResolveInv, Push
    PROVE  ResolveInv'
    <1>1. ResolveTypeOK /\ queue \in Seq(Ids) /\ pushing \in Seq(Ids) /\ pushing # <<>>
        BY DEF ResolveInv, ResolveTypeOK, Push
    <1>2. /\ pushing' = Front(pushing) /\ outcome' = "resolving" /\ outcome = "resolving"
          /\ UNCHANGED <<host, requested, enabled>>
        BY DEF Push
    <1>3. /\ pushing' \in Seq(Ids) /\ Last(pushing) \in Ids
          /\ Range(pushing) = Range(pushing') \cup {Last(pushing)}
        BY <1>1, <1>2, FrontAndLast
    <1>4. CASE Last(pushing) \in Seen
        <2>1. queue' = queue
            BY <1>4 DEF Push
        <2>2. ResolveTypeOK'
            BY <1>1, <1>2, <1>3, <2>1 DEF ResolveTypeOK, Plugins
        <2>3. Ahead' \subseteq Ahead /\ Ahead \subseteq Ahead' \cup Seen
            BY <1>3, <1>4, <2>1 DEF Ahead
        <2> QED BY <1>2, <2>2, <2>3, SamePlan
    <1>5. CASE Last(pushing) \notin Seen
        <2>1. queue' = Append(queue, Last(pushing))
            BY <1>5 DEF Push
        <2>2. queue' \in Seq(Ids) /\ Range(queue') = Range(queue) \cup {Last(pushing)}
            BY <1>1, <1>3, <2>1, Appended
        <2>3. ResolveTypeOK'
            BY <1>1, <1>2, <1>3, <2>2 DEF ResolveTypeOK, Plugins
        <2>4. Ahead' \subseteq Ahead /\ Ahead \subseteq Ahead' \cup Seen
            BY <1>3, <2>2 DEF Ahead
        <2> QED BY <1>2, <2>3, <2>4, SamePlan
    <1> QED BY <1>4, <1>5

(* An id no plugin has ends the loop; only its outcome matters then.        *)
LEMMA UnknownEnds ==
    ASSUME ResolveInv, Visit, Last(queue) \notin Seen \cup Plugins
    PROVE  ResolveInv'
    <1>1. ResolveTypeOK /\ queue \in Seq(Ids) /\ queue # <<>>
        BY DEF ResolveInv, ResolveTypeOK, Visit
    <1>2. /\ queue' = Front(queue) /\ outcome' = "unknown"
          /\ UNCHANGED <<host, requested, pushing, enabled>>
        BY DEF Visit
    <1>3. queue' \in Seq(Ids) /\ Range(queue) = Range(queue') \cup {Last(queue)}
        BY <1>1, <1>2, FrontAndLast
    <1>4. ResolveTypeOK'
        BY <1>1, <1>2, <1>3 DEF ResolveTypeOK, Plugins
    <1>5. \A i, d : AskedFor(d, i)' <=> AskedFor(d, i)
        BY <1>2 DEF AskedFor, Needs
    <1>6. Ahead' \subseteq Ahead
        BY <1>2, <1>3 DEF Ahead
    <1>7. NothingForgotten' /\ NothingTwice' /\ Judged'
        BY <1>2 DEF ResolveInv, NothingForgotten, NothingTwice, Judged
    <1>8. NothingAdded'
        BY <1>2, <1>5, <1>6 DEF ResolveInv, NothingAdded
    <1> QED BY <1>4, <1>7, <1>8 DEF ResolveInv

(* A plugin joins the plan: what it requires is ahead now.                  *)
LEMMA PluginJoins ==
    ASSUME ResolveInv, Visit, Last(queue) \in Plugins \ Seen
    PROVE  ResolveInv'
    <1> DEFINE id == Last(queue)
    <1>1. /\ ResolveTypeOK /\ queue \in Seq(Ids) /\ queue # <<>> /\ enabled \in Seq(Plugins)
          /\ Range(pushing) = {}
        BY EmptyRange DEF ResolveInv, ResolveTypeOK, Visit
    <1>2. /\ queue' = Front(queue) /\ outcome' = "resolving" /\ outcome = "resolving"
          /\ enabled' = Append(enabled, id) /\ pushing' = Requires[id]
          /\ UNCHANGED <<host, requested>>
        BY DEF Visit
    <1>3. queue' \in Seq(Ids) /\ Range(queue) = Range(queue') \cup {id}
        BY <1>1, <1>2, FrontAndLast
    <1>4. /\ enabled' \in Seq(Plugins)
          /\ DOMAIN enabled' = 1..(Len(enabled) + 1) /\ Len(enabled') = Len(enabled) + 1
          /\ DOMAIN enabled = 1..Len(enabled) /\ Len(enabled) \in Nat
          /\ \A i \in 1..Len(enabled) : enabled'[i] = enabled[i]
          /\ enabled'[Len(enabled) + 1] = id
          /\ Seen' = Seen \cup {id}
        BY <1>1, <1>2, Appended DEF Seen
    <1>5. id \in Ids /\ Requires[id] \in Seq(Ids)
        BY <1>1, Registry
    <1>6. ResolveTypeOK'
        BY <1>1, <1>2, <1>3, <1>4, <1>5 DEF ResolveTypeOK, Plugins
    <1>7. Ahead = Range(queue') \cup {id} /\ Ahead' = Range(queue') \cup Needs(id)
        BY <1>1, <1>2, <1>3 DEF Ahead, Needs
    <1> HIDE DEF id
    <1>8. NothingForgotten'
        <2>1. Range(requested) \subseteq Seen \cup Ahead /\ \A p \in Seen : Needs(p) \subseteq Seen \cup Ahead
            BY <1>2 DEF ResolveInv, NothingForgotten
        <2>2. Range(requested)' \subseteq Seen' \cup Ahead'
            BY <1>2, <1>4, <1>7, <2>1
        <2>3. \A p \in Seen' : Needs(p) \subseteq Seen' \cup Ahead'
            BY <1>4, <1>7, <2>1
        <2> QED BY <2>2, <2>3 DEF NothingForgotten, Needs
    <1>9. ASSUME NEW i \in 1..(Len(enabled) + 1), NEW d, AskedFor(d, i)
          PROVE  AskedFor(d, i)'
        <2>1. CASE d \in Range(requested)
            BY <1>2, <2>1 DEF AskedFor
        <2>2. CASE \E j \in DOMAIN enabled : j < i /\ d \in Needs(enabled[j])
            <3>1. PICK j \in DOMAIN enabled : j < i /\ d \in Needs(enabled[j])
                BY <2>2
            <3>2. j \in DOMAIN enabled' /\ enabled'[j] = enabled[j]
                BY <1>4, <3>1
            <3> QED BY <3>1, <3>2 DEF AskedFor, Needs
        <2> QED BY <1>9, <2>1, <2>2 DEF AskedFor
    <1>10. NothingAdded'
        <2>1. /\ \A i \in DOMAIN enabled : AskedFor(enabled[i], i)
              /\ \A d \in Ahead : AskedFor(d, Len(enabled) + 1)
            BY DEF ResolveInv, NothingAdded
        <2>2. ASSUME NEW i \in DOMAIN enabled' PROVE AskedFor(enabled[i], i)'
            <3>1. CASE i \in 1..Len(enabled)
                <4>1. enabled'[i] = enabled[i] /\ i \in 1..(Len(enabled) + 1) /\ AskedFor(enabled[i], i)
                    BY <1>4, <2>1, <3>1
                <4>2. \A d : AskedFor(d, i) => AskedFor(d, i)'
                    BY <1>9, <4>1
                <4> QED BY <4>1, <4>2 DEF AskedFor
            <3>2. CASE i = Len(enabled) + 1
                <4>1. enabled'[i] = id /\ AskedFor(id, Len(enabled) + 1) /\ Len(enabled) + 1 \in 1..(Len(enabled) + 1)
                    BY <1>4, <1>7, <2>1, <3>2
                <4> QED BY <1>9, <3>2, <4>1 DEF AskedFor
            <3> QED BY <1>4, <3>1, <3>2
        <2>3. ASSUME NEW d \in Ahead' PROVE AskedFor(d, Len(enabled) + 1)'
            <3>1. CASE d \in Range(queue')
                <4>1. AskedFor(d, Len(enabled) + 1)
                    BY <1>7, <2>1, <3>1
                <4>2. CASE d \in Range(requested)
                    BY <1>2, <4>2 DEF AskedFor
                <4>3. CASE \E j \in DOMAIN enabled : j < Len(enabled) + 1 /\ d \in Needs(enabled[j])
                    <5>1. PICK j \in DOMAIN enabled : d \in Needs(enabled[j])
                        BY <4>3
                    <5>2. j \in DOMAIN enabled' /\ enabled'[j] = enabled[j] /\ j < Len(enabled') + 1
                        BY <1>4, <5>1
                    <5> QED BY <5>1, <5>2 DEF AskedFor, Needs
                <4> QED BY <4>1, <4>2, <4>3 DEF AskedFor
            <3>2. CASE d \in Needs(id)
                <4>1. Len(enabled) + 1 \in DOMAIN enabled' /\ Len(enabled) + 1 < Len(enabled') + 1
                    BY <1>4
                <4> QED BY <1>4, <3>2, <4>1 DEF AskedFor, Needs
            <3> QED BY <1>7, <3>1, <3>2
        <2> QED BY <2>2, <2>3 DEF NothingAdded
    <1>11. NothingTwice'
        <2>1. \A i \in 1..Len(enabled) : enabled[i] # id
            BY <1>4 DEF Seen, Range, id
        <2>2. \A i, j \in 1..Len(enabled) : enabled[i] = enabled[j] => i = j
            BY <1>4 DEF ResolveInv, NothingTwice
        <2>3. \A i \in 1..(Len(enabled) + 1) : i \in 1..Len(enabled) \/ i = Len(enabled) + 1
            BY <1>4
        <2> QED BY <1>4, <2>1, <2>2, <2>3 DEF NothingTwice
    <1>12. Judged'
        BY <1>2 DEF Judged
    <1> QED BY <1>6, <1>8, <1>10, <1>11, <1>12 DEF ResolveInv

(* ----- the checks after the loop ----------------------------------------- *)
LEMMA JudgeKeeps ==
    ASSUME ResolveInv, Judge
    PROVE  ResolveInv'
    <1>1. /\ outcome = "resolving" /\ queue = <<>> /\ pushing = <<>>
          /\ UNCHANGED <<host, requested, queue, pushing, enabled>>
          /\ outcome' \in {"missing", "conflict", "accepted"}
        BY DEF Judge
    <1>2. Seen' = Seen /\ Ahead' = Ahead /\ Ahead = {} /\ \A i, d : AskedFor(d, i)' <=> AskedFor(d, i)
        BY <1>1, EmptyRange DEF Seen, Ahead, AskedFor, Needs
    <1>3. \A p \in Seen : Needs(p) \subseteq Seen
        BY <1>1, <1>2 DEF ResolveInv, NothingForgotten
    <1>4. ResolveTypeOK'
        BY <1>1 DEF ResolveInv, ResolveTypeOK, Plugins
    <1>5. NothingForgotten' /\ NothingAdded' /\ NothingTwice'
        BY <1>1, <1>2 DEF ResolveInv, NothingForgotten, NothingAdded, NothingTwice, Needs
    <1>6. Judged'
        <2>1. outcome' # "missing"
            BY <1>3 DEF Judge
        <2>2. outcome' = "accepted" => \A p, q \in Seen : p # q => q \notin Conflicts[host][p]
            BY <2>1 DEF Judge, Clashes
        <2> QED BY <1>1, <1>2, <2>1, <2>2 DEF Judged
    <1> QED BY <1>4, <1>5, <1>6 DEF ResolveInv

LEMMA Resolves == ResolveInv /\ [ResolveNext]_resolver => ResolveInv'
    <1> SUFFICES ASSUME ResolveInv, [ResolveNext]_resolver PROVE ResolveInv'
        OBVIOUS
    <1>1. CASE Visit
        <2>1. \/ Last(queue) \in Seen
              \/ Last(queue) \notin Seen \cup Plugins
              \/ Last(queue) \in Plugins \ Seen
            OBVIOUS
        <2> QED BY <1>1, <2>1, SeenIsSkipped, UnknownEnds, PluginJoins
    <1>2. CASE Push
        BY <1>2, PushKeeps
    <1>3. CASE Judge
        BY <1>3, JudgeKeeps
    <1>4. CASE UNCHANGED resolver
        <2>1. UNCHANGED <<host, requested, queue, pushing, enabled, outcome>>
            BY <1>4 DEF resolver
        <2> QED BY <2>1 DEF ResolveInv, ResolveTypeOK, NothingForgotten, NothingAdded, NothingTwice,
                            Judged, Ahead, Seen, Plugins, AskedFor, Needs
    <1> QED BY <1>1, <1>2, <1>3, <1>4 DEF ResolveNext

(* ----- theorems ----------------------------------------------------------- *)
(* The loop's invariant: what was asked for and what the plan requires is   *)
(* in the plan or still ahead, nothing else ever gets in, nothing twice.    *)
THEOREM ResolverInvariant == ResolveSpec => []ResolveInv
    <1>1. (\E h \in Hosts, request \in Seq(Ids) : ResolveInit(h, request)) => ResolveInv
        BY ResolveStarts
    <1> QED BY <1>1, Resolves, PTL DEF ResolveSpec

(* Plans are sound for every registry and request, circles and conflicts    *)
(* with indirect requirements included, and MissingDependency is dead code. *)
THEOREM PlansAreSound == ResolveSpec => []AcceptedPlanIsSound
    <1>1. ResolveInv => AcceptedPlanIsSound
        <2> SUFFICES ASSUME ResolveInv PROVE AcceptedPlanIsSound
            OBVIOUS
        <2>1. outcome # "missing"
            BY DEF ResolveInv, Judged
        <2>2. ASSUME outcome = "accepted"
              PROVE  Range(requested) \subseteq Seen /\ Closed(Seen)
            <3>1. Ahead = {}
                BY <2>2, EmptyRange DEF ResolveInv, Judged, Ahead
            <3> QED BY <2>2, <3>1 DEF ResolveInv, NothingForgotten, Closed
        <2> QED BY <2>1, <2>2 DEF AcceptedPlanIsSound, ResolveInv, NothingAdded, NothingTwice, Judged
    <1> QED BY <1>1, ResolverInvariant, PTL

(* ----- the set-up of a run ------------------------------------------------ *)
LEMMA FirstIdsAreIds ==
    ASSUME NEW r \in Cases
    PROVE  r.host \in Hosts /\ FirstIds(r) \in Seq(Ids)
    <1>1. r.host \in Hosts /\ r.ids \in Seq(Ids)
        BY CasesAssumption
    <1>2. "geometry-pre" \in Ids
        BY ManifestsAssumption DEF Known, Preprocessors
    <1>3. <<"geometry-pre">> \in Seq(Ids) /\ <<>> \in Seq(Ids)
        BY <1>2
    <1> QED BY <1>1, <1>3 DEF FirstIds, WithBotDependencies

(* No stage after the resolver touches the plan.                             *)
LEMMA StepsResolve == SetupNext => [ResolveNext]_resolver
    <1> SUFFICES ASSUME SetupNext PROVE [ResolveNext]_resolver
        OBVIOUS
    <1>1. CASE Resolve
        BY <1>1 DEF Resolve
    <1>2. CASE Validate
        BY <1>2 DEF Validate, resolver
    <1>3. CASE RunPreprocessor
        BY <1>3 DEF RunPreprocessor, resolver
    <1>4. CASE PreprocessorFails
        BY <1>4 DEF PreprocessorFails, resolver
    <1>5. CASE StartProducing
        BY <1>5 DEF StartProducing, resolver
    <1> QED BY <1>1, <1>2, <1>3, <1>4, <1>5 DEF SetupNext

(* The set-up of a run implements the resolver.                              *)
THEOREM SetupResolves == SetupSpec => ResolveSpec
    <1>1. SetupInit => \E h \in Hosts, request \in Seq(Ids) : ResolveInit(h, request)
        BY FirstIdsAreIds DEF SetupInit
    <1>2. [SetupNext]_setup => [ResolveNext]_resolver
        <2>1. UNCHANGED setup => UNCHANGED resolver
            BY DEF setup
        <2> QED BY <2>1, StepsResolve
    <1> QED BY <1>1, <1>2, PTL DEF SetupSpec, ResolveSpec

(* In every conversion, whatever the request, an accepted plan is sound.     *)
THEOREM AcceptedPlansAreSound == SetupSpec => []AcceptedPlanIsSound
    BY SetupResolves, PlansAreSound, PTL

(* Only an accepted plan goes on: while preprocessors or producers run, the  *)
(* plan is one the resolver accepted.                                        *)
GoesOn == stage \in {"preprocess", "produce", "failed"} => outcome = "accepted"
THEOREM OnlyAcceptedPlansRun == SetupSpec => []GoesOn
    <1>1. SetupInit => GoesOn
        BY DEF SetupInit, GoesOn
    <1>2. ASSUME GoesOn, [SetupNext]_setup PROVE GoesOn'
        <2>1. CASE Resolve
            <3>1. stage' \in {"plan", "refused"}
                BY <2>1 DEF Resolve
            <3> QED BY <3>1 DEF GoesOn
        <2>2. CASE Validate
            BY <2>2 DEF Validate, GoesOn, resolver
        <2>3. CASE RunPreprocessor
            BY <1>2, <2>3 DEF RunPreprocessor, GoesOn, resolver
        <2>4. CASE PreprocessorFails
            <3>1. stage = "preprocess" /\ outcome' = outcome
                BY <2>4 DEF PreprocessorFails, NextToRun, resolver
            <3> QED BY <1>2, <3>1 DEF GoesOn
        <2>5. CASE StartProducing
            BY <1>2, <2>5 DEF StartProducing, GoesOn, resolver
        <2>6. CASE UNCHANGED setup
            BY <1>2, <2>6 DEF GoesOn, setup, resolver
        <2> QED BY <1>2, <2>1, <2>2, <2>3, <2>4, <2>5, <2>6 DEF SetupNext
    <1> QED BY <1>1, <1>2, PTL DEF SetupSpec

(* ----- preprocessors ------------------------------------------------------ *)
(* What can go into a value of the context, and how many values of a type    *)
(* there are: one model, one mesh and one list of matches at most.           *)
Work == {"main", "extra", "cleanup", "qto", "bsdd", "mesh"}
Types == {"model", "data", "bsdd", "mesh"}
Contexts == [Types -> Seq(SUBSET Work)]
Single(c) == Len(c["model"]) = 1 /\ Len(c["bsdd"]) \in {0, 1} /\ Len(c["mesh"]) \in {0, 1}

(* The mesh is there once the tessellation ran on a text, and the model has  *)
(* been cleaned up once the cleanup ran.                                     *)
Effective(c) ==
    /\ "geometry-pre" \notin Range(ran) => c["mesh"] = <<>>
    /\ "geometry-pre" \in Range(ran) /\ asked.utf8 => c["mesh"] # <<>>
    /\ "cleanup" \in Range(ran) => "cleanup" \in c["model"][1]
    /\ "qto" \in c["model"][1] => "cleanup" \in c["model"][1]

(* A preprocessor that ran had its requirements done before.                 *)
Fulfilled ==
    \A i \in DOMAIN ran : \A d \in Needs(ran[i]) : \E j \in DOMAIN ran : j < i /\ ran[j] = d

Request == asked \in Cases /\ host = asked.host /\ requested = FirstIds(asked)
Validated ==
    /\ stage \in {"plan", "refused"} => ran = <<>>
    /\ stage \in {"preprocess", "produce"} =>
          outcome = "accepted" /\ Valid(host, Seen, asked.opts)
    /\ stage = "produce" => Left = {} /\ (host = "cli" => CliStageOk(Seen, asked.opts))

SetupInv ==
    /\ ResolveInv /\ Request /\ Validated
    /\ ran \in Seq(Preprocessors) /\ Fulfilled
    /\ context \in Contexts /\ Single(context) /\ Effective(context)

LEMMA FirstOfOne ==
    ASSUME NEW c \in Contexts, NEW t \in Types, Len(c[t]) = 1
    PROVE  c[t] # <<>> /\ Head(c[t]) = c[t][1] /\ Last(c[t]) = c[t][1] /\ c[t][1] \in SUBSET Work
    <1> DEFINE s == c[t]
    <1>1. s \in Seq(SUBSET Work) /\ Len(s) = 1
        BY DEF Contexts
    <1> HIDE DEF s
    <1>2. s # <<>> /\ s[1] \in SUBSET Work /\ Head(s) = s[1]
        BY <1>1
    <1>3. Last(s) = s[1]
        BY <1>1 DEF Last
    <1> QED BY <1>2, <1>3 DEF s

LEMMA OneValue ==
    ASSUME NEW v \in SUBSET Work
    PROVE  <<v>> \in Seq(SUBSET Work) /\ Len(<<v>>) = 1 /\ <<v>>[1] = v
    BY SMT

LEMMA Replaced ==
    ASSUME NEW c \in Contexts, NEW t \in Types, NEW v \in SUBSET Work
    PROVE  /\ Replace(c, t, v) \in Contexts
           /\ Replace(c, t, v)[t] = <<v>>
           /\ \A u \in Types \ {t} : Replace(c, t, v)[u] = c[u]
    BY OneValue DEF Replace, Contexts

LEMMA Inserted ==
    ASSUME NEW c \in Contexts, NEW t \in Types, NEW v \in SUBSET Work
    PROVE  /\ Insert(c, t, v) \in Contexts
           /\ Insert(c, t, v)[t] = Append(c[t], v) /\ Len(Append(c[t], v)) = Len(c[t]) + 1
           /\ \A u \in Types \ {t} : Insert(c, t, v)[u] = c[u]
    <1>1. c[t] \in Seq(SUBSET Work)
        BY DEF Contexts
    <1>2. Append(c[t], v) \in Seq(SUBSET Work) /\ Len(Append(c[t], v)) = Len(c[t]) + 1
        BY <1>1, Appended
    <1> QED BY <1>2 DEF Insert, Contexts

(* What a preprocessor does to a context that has one model.                 *)
LEMMA EffectFacts ==
    ASSUME NEW c \in Contexts, Single(c), NEW p \in Preprocessors, NEW d \in Effects(p, c),
           p = "geometry-pre" => c["mesh"] = <<>>
    PROVE  /\ d \in Contexts /\ Single(d)
           /\ p = "geometry-pre" => d["mesh"] # <<>>
           /\ p # "geometry-pre" => d["mesh"] = c["mesh"]
           /\ c["model"][1] \subseteq d["model"][1]
           /\ p = "cleanup" => "cleanup" \in d["model"][1]
           /\ p # "qto" /\ "qto" \in d["model"][1] => "qto" \in c["model"][1]
    <1> DEFINE m == Get(c, "model")
    <1>1. m = c["model"][1] /\ m \in SUBSET Work
        BY FirstOfOne DEF Single, Types, Get
    <1> HIDE DEF m
    <1>2. ASSUME NEW v \in SUBSET Work, d = Replace(c, "model", v)
          PROVE  /\ d \in Contexts /\ Single(d)
                 /\ d["model"][1] = v /\ d["mesh"] = c["mesh"] /\ d["bsdd"] = c["bsdd"]
        <2>1. /\ d \in Contexts /\ d["model"] = <<v>> /\ d["mesh"] = c["mesh"] /\ d["bsdd"] = c["bsdd"]
            BY <1>2, Replaced DEF Types
        <2> QED BY <2>1, OneValue DEF Single
    <1>3. CASE p = "cleanup"
        <2>1. d = Replace(c, "model", m \cup {"cleanup"}) /\ m \cup {"cleanup"} \in SUBSET Work
            BY <1>1, <1>3 DEF Effects, m, Work
        <2>2. /\ d \in Contexts /\ Single(d)
              /\ d["model"][1] = m \cup {"cleanup"} /\ d["mesh"] = c["mesh"]
            BY <1>2, <2>1
        <2> QED BY <1>1, <1>3, <2>2
    <1>4. CASE p = "qto"
        <2>1. d = Replace(c, "model", m \cup {"qto"}) \/ d = c
            BY <1>4 DEF Effects, m
        <2>2. m \cup {"qto"} \in SUBSET Work
            BY <1>1 DEF Work
        <2> QED BY <1>1, <1>2, <1>4, <2>1, <2>2
    <1>5. CASE p = "bsdd-match"
        <2>1. d = Replace(c, "bsdd", m \cup {"bsdd"}) /\ m \cup {"bsdd"} \in SUBSET Work
            BY <1>1, <1>5 DEF Effects, m, Work
        <2>2. /\ d \in Contexts /\ d["bsdd"] = <<m \cup {"bsdd"}>>
              /\ d["mesh"] = c["mesh"] /\ d["model"] = c["model"]
            BY <2>1, Replaced DEF Types
        <2> QED BY <1>5, <2>1, <2>2, OneValue DEF Single
    <1>6. CASE p = "geometry-pre"
        <2>1. d = Insert(c, "mesh", m \cup {"mesh"}) /\ m \cup {"mesh"} \in SUBSET Work
            BY <1>1, <1>6 DEF Effects, m, Work
        <2>2. /\ d \in Contexts /\ Len(d["mesh"]) = Len(c["mesh"]) + 1
              /\ d["bsdd"] = c["bsdd"] /\ d["model"] = c["model"]
            BY <2>1, Inserted DEF Types
        <2>3. Len(d["mesh"]) = 1
            BY <1>6, <2>2
        <2>4. d["mesh"] # <<>>
            BY <2>2, <2>3, FirstOfOne DEF Types
        <2> QED BY <1>6, <2>2, <2>3, <2>4 DEF Single
    <1> QED BY <1>3, <1>4, <1>5, <1>6 DEF Preprocessors

(* ----- the set-up --------------------------------------------------------- *)
LEMMA SetupStarts == SetupInit => SetupInv
    <1> SUFFICES ASSUME SetupInit PROVE SetupInv
        OBVIOUS
    <1>1. PICK r \in Cases :
              /\ asked = r /\ ResolveInit(r.host, FirstIds(r))
              /\ stage = "plan" /\ ran = <<>> /\ context = FirstContext(r)
        BY DEF SetupInit
    <1>2. ResolveInv
        BY <1>1, FirstIdsAreIds, ResolveStarts
    <1>3. Request /\ Validated
        BY <1>1 DEF Request, Validated, ResolveInit
    <1>4. ran \in Seq(Preprocessors) /\ Fulfilled /\ Range(ran) = {}
        <2>1. DOMAIN ran = {}
            BY <1>1
        <2> QED BY <1>1, <2>1, EmptyRange DEF Fulfilled
    <1>5. context \in Contexts /\ context["model"] = <<{}>> /\ context["bsdd"] = <<>> /\ context["mesh"] = <<>>
        <2> DEFINE c == [ t \in {"model", "data", "bsdd", "mesh"} |-> IF t = "model" THEN <<{}>> ELSE <<>> ]
                   main == IF "main" \in r.data THEN Insert(c, "data", {"main"}) ELSE c
        <2>1. /\ c \in Contexts /\ c["model"] = <<{}>> /\ c["bsdd"] = <<>> /\ c["mesh"] = <<>>
            BY OneValue DEF Contexts, Types
        <2> HIDE DEF c
        <2>2. {"main"} \in SUBSET Work /\ {"extra"} \in SUBSET Work
            BY DEF Work
        <2>3. /\ main \in Contexts /\ main["model"] = <<{}>> /\ main["bsdd"] = <<>> /\ main["mesh"] = <<>>
            BY <2>1, <2>2, Inserted DEF Types
        <2> HIDE DEF main
        <2>4. context = IF "extra" \in r.data THEN Insert(main, "data", {"extra"}) ELSE main
            BY <1>1 DEF FirstContext, main, c
        <2> QED BY <2>2, <2>3, <2>4, Inserted DEF Types
    <1>6. Single(context) /\ Effective(context)
        <2>1. Len(<<>>) = 0 /\ {} \in SUBSET Work
            OBVIOUS
        <2> QED BY <1>4, <1>5, <2>1, OneValue DEF Single, Effective
    <1> QED BY <1>2, <1>3, <1>4, <1>5, <1>6 DEF SetupInv

(* What a preprocessor requires has run when it is its turn.                 *)
LEMMA TurnIsRight ==
    ASSUME SetupInv, NEW p, NextToRun(p)
    PROVE  p \in Preprocessors /\ p \notin Range(ran) /\ Needs(p) \subseteq Range(ran)
    <1>1. /\ stage = "preprocess" /\ p \in ToRun(Seen) /\ p \notin Range(ran)
          /\ \A q \in Left \ {p} : Before(p, q)
        BY DEF NextToRun, Left
    <1>2. p \in Preprocessors
        BY <1>1 DEF ToRun, Preprocessors
    <1>3. ASSUME NEW d \in Needs(p), d \notin Range(ran) PROVE FALSE
        <2>1. d \in Preprocessors /\ Place[d] < Place[p] /\ p # "geometry-pre"
            BY <1>2, <1>3, ManifestsAssumption
        <2>2. p \in Seen
            BY <1>1, <2>1 DEF ToRun
        <2>3. Ahead = {}
            BY <1>1, EmptyRange DEF SetupInv, Validated, ResolveInv, Judged, Ahead
        <2>4. d \in Seen
            BY <1>1, <1>3, <2>2, <2>3 DEF SetupInv, Validated, ResolveInv, NothingForgotten
        <2>5. d \in Left
            BY <1>3, <2>1, <2>4 DEF Left, ToRun
        <2>6. Place[d] \in Nat /\ Place[p] \in Nat /\ d # p
            <3>1. d \in Ids /\ p \in Ids
                BY <1>2, <2>1, ManifestsAssumption DEF Known
            <3>2. Place[d] \in Nat /\ Place[p] \in Nat
                BY <3>1, ManifestsAssumption
            <3> QED BY <2>1, <3>2
        <2>7. Before(p, d)
            BY <1>1, <2>5, <2>6
        <2>8. p = "geometry-pre" \/ Place[p] < Place[d]
            BY <2>7 DEF Before
        <2> QED BY <2>1, <2>6, <2>8
    <1> QED BY <1>1, <1>2, <1>3

(* One more preprocessor has run, whose requirements ran before it.          *)
LEMMA OneMoreRan ==
    ASSUME SetupInv, NEW p, NextToRun(p), ran' = Append(ran, p)
    PROVE  ran' \in Seq(Preprocessors) /\ Fulfilled' /\ Range(ran)' = Range(ran) \cup {p}
    <1>1. p \in Preprocessors /\ Needs(p) \subseteq Range(ran) /\ ran \in Seq(Preprocessors)
        BY TurnIsRight DEF SetupInv
    <1>2. /\ ran' \in Seq(Preprocessors) /\ Range(ran)' = Range(ran) \cup {p}
          /\ DOMAIN ran' = 1..(Len(ran) + 1) /\ DOMAIN ran = 1..Len(ran) /\ Len(ran) \in Nat
          /\ \A i \in 1..Len(ran) : ran'[i] = ran[i]
          /\ ran'[Len(ran) + 1] = p
        BY <1>1, Appended
    <1>3. ASSUME NEW i \in DOMAIN ran', NEW d \in Needs(ran'[i])
          PROVE  \E j \in DOMAIN ran' : j < i /\ ran'[j] = d
        <2>1. CASE i \in 1..Len(ran)
            <3>1. d \in Needs(ran[i]) /\ i \in DOMAIN ran
                BY <1>2, <1>3, <2>1
            <3>2. PICK j \in DOMAIN ran : j < i /\ ran[j] = d
                BY <3>1 DEF SetupInv, Fulfilled
            <3>3. j \in 1..Len(ran) /\ j \in 1..(Len(ran) + 1)
                BY <1>2
            <3> QED BY <1>2, <3>2, <3>3
        <2>2. CASE i = Len(ran) + 1
            <3>1. d \in Range(ran)
                BY <1>1, <1>2, <1>3, <2>2
            <3>2. PICK j \in DOMAIN ran : ran[j] = d
                BY <3>1 DEF Range
            <3>3. j \in 1..Len(ran) /\ j \in 1..(Len(ran) + 1) /\ j < Len(ran) + 1
                BY <1>2
            <3> QED BY <1>2, <2>2, <3>2, <3>3
        <2> QED BY <1>2, <2>1, <2>2
    <1>4. Fulfilled'
        BY <1>3 DEF Fulfilled, Needs
    <1> QED BY <1>2, <1>4

(* Steps that leave the resolver and the request alone.                      *)
LEMMA SamePlanning ==
    ASSUME SetupInv, UNCHANGED <<resolver, asked>>
    PROVE  /\ ResolveInv' /\ Request' /\ Seen' = Seen /\ UNCHANGED <<host, outcome, asked>>
           /\ ToRun(Seen)' = ToRun(Seen)
           /\ Valid(host, Seen, asked.opts)' = Valid(host, Seen, asked.opts)
           /\ CliStageOk(Seen, asked.opts)' = CliStageOk(Seen, asked.opts)
    <1>1. UNCHANGED <<host, requested, queue, pushing, enabled, outcome, asked>> /\ UNCHANGED resolver
        BY DEF resolver
    <1>2. ResolveInv'
        BY <1>1, Resolves DEF SetupInv
    <1>3. Request'
        BY <1>1 DEF SetupInv, Request
    <1>4. Seen' = Seen /\ ToRun(Seen)' = ToRun(Seen)
        BY <1>1 DEF Seen, ToRun
    <1>5. /\ Valid(host, Seen, asked.opts)' = Valid(host, Seen, asked.opts)
          /\ CliStageOk(Seen, asked.opts)' = CliStageOk(Seen, asked.opts)
        BY <1>1, <1>4
    <1> QED BY <1>1, <1>2, <1>3, <1>4, <1>5

LEMMA RunKeeps ==
    ASSUME SetupInv, RunPreprocessor
    PROVE  SetupInv'
    <1>1. PICK p \in Left :
              /\ NextToRun(p) /\ (p = "geometry-pre" => asked.utf8)
              /\ ran' = Append(ran, p) /\ context' \in Effects(p, context)
              /\ UNCHANGED <<resolver, asked, stage>>
        BY DEF RunPreprocessor
    <1>2. /\ p \in Preprocessors /\ p \notin Range(ran) /\ Needs(p) \subseteq Range(ran)
          /\ ran' \in Seq(Preprocessors) /\ Fulfilled' /\ Range(ran)' = Range(ran) \cup {p}
          /\ stage = "preprocess"
        BY <1>1, TurnIsRight, OneMoreRan DEF NextToRun
    <1>3. /\ ResolveInv' /\ Request' /\ UNCHANGED <<outcome, asked, stage>>
          /\ Valid(host, Seen, asked.opts)' = Valid(host, Seen, asked.opts)
        BY <1>1, SamePlanning
    <1>4. Validated'
        BY <1>2, <1>3 DEF SetupInv, Validated
    <1>5. /\ context \in Contexts /\ Single(context) /\ Effective(context)
          /\ p = "geometry-pre" => context["mesh"] = <<>>
        BY <1>2 DEF SetupInv, Effective
    <1>6. /\ context' \in Contexts /\ Single(context')
          /\ p = "geometry-pre" => context'["mesh"] # <<>>
          /\ p # "geometry-pre" => context'["mesh"] = context["mesh"]
          /\ context["model"][1] \subseteq context'["model"][1]
          /\ p = "cleanup" => "cleanup" \in context'["model"][1]
          /\ p # "qto" /\ "qto" \in context'["model"][1] => "qto" \in context["model"][1]
        BY <1>1, <1>2, <1>5, EffectFacts
    <1>7. Effective(context)'
        <2>1. p = "qto" => "cleanup" \in Range(ran)
            BY <1>2, ManifestsAssumption
        <2>2. "cleanup" \in Range(ran)' => "cleanup" \in context'["model"][1]
            BY <1>2, <1>5, <1>6 DEF Effective
        <2>3. "qto" \in context'["model"][1] => "cleanup" \in context'["model"][1]
            BY <1>5, <1>6, <2>1 DEF Effective
        <2>4. "geometry-pre" \notin Range(ran)' => context'["mesh"] = <<>>
            BY <1>2, <1>5, <1>6 DEF Effective
        <2>5. "geometry-pre" \in Range(ran)' /\ asked'.utf8 => context'["mesh"] # <<>>
            BY <1>2, <1>3, <1>5, <1>6 DEF Effective
        <2> QED BY <2>2, <2>3, <2>4, <2>5 DEF Effective
    <1> QED BY <1>2, <1>3, <1>4, <1>6, <1>7 DEF SetupInv, Single

LEMMA FailureKeeps ==
    ASSUME SetupInv, PreprocessorFails
    PROVE  SetupInv'
    <1>1. PICK p \in Left :
              /\ NextToRun(p) /\ (p = "bsdd-match" \/ (p = "geometry-pre" /\ ~ asked.utf8))
              /\ IF host = "browser" /\ p = "geometry-pre"
                 THEN ran' = Append(ran, p) /\ UNCHANGED stage
                 ELSE stage' = "failed" /\ UNCHANGED ran
              /\ UNCHANGED <<resolver, asked, context>>
        BY DEF PreprocessorFails
    <1>2. /\ ResolveInv' /\ Request' /\ UNCHANGED <<outcome, asked, context>>
          /\ Valid(host, Seen, asked.opts)' = Valid(host, Seen, asked.opts)
        BY <1>1, SamePlanning
    <1>3. CASE host = "browser" /\ p = "geometry-pre"
        <2>1. ran' = Append(ran, p) /\ stage' = stage /\ stage = "preprocess" /\ ~ asked.utf8
            BY <1>1, <1>3 DEF NextToRun
        <2>2. ran' \in Seq(Preprocessors) /\ Fulfilled' /\ Range(ran)' = Range(ran) \cup {p}
            BY <1>1, <2>1, OneMoreRan
        <2>3. Validated'
            BY <1>2, <2>1 DEF SetupInv, Validated
        <2>4. Effective(context)'
            BY <1>2, <1>3, <2>1, <2>2 DEF SetupInv, Effective
        <2> QED BY <1>2, <2>2, <2>3, <2>4 DEF SetupInv, Single
    <1>4. CASE ~ (host = "browser" /\ p = "geometry-pre")
        <2>1. stage' = "failed" /\ ran' = ran
            BY <1>1, <1>4
        <2>2. Validated' /\ Fulfilled' /\ Effective(context)'
            BY <1>2, <2>1 DEF SetupInv, Validated, Fulfilled, Effective, Needs, Range
        <2> QED BY <1>2, <2>1, <2>2 DEF SetupInv, Single
    <1> QED BY <1>3, <1>4

(* The steps before and after the loop.                                      *)
LEMMA StagesKeep ==
    ASSUME SetupInv, Resolve \/ Validate \/ StartProducing
    PROVE  SetupInv'
    <1>1. UNCHANGED <<asked, ran, context>>
        BY DEF Resolve, Validate, StartProducing
    <1>2. Fulfilled' /\ (Effective(context))' /\ Range(ran)' = Range(ran)
        BY <1>1 DEF SetupInv, Fulfilled, Effective, Needs, Range
    <1>3. ResolveInv' /\ Request' /\ Validated'
        <2>1. CASE Resolve
            <3>1. ResolveInv'
                BY <2>1, Resolves DEF SetupInv, Resolve
            <3>2. UNCHANGED <<host, requested>>
                BY <2>1 DEF Resolve, ResolveNext, Visit, Push, Judge
            <3>3. ran = <<>> /\ stage' \in {"plan", "refused"}
                BY <2>1 DEF Resolve, SetupInv, Validated
            <3> QED BY <1>1, <3>1, <3>2, <3>3 DEF SetupInv, Request, Validated
        <2>2. CASE Validate
            <3>1. /\ stage = "plan" /\ outcome = "accepted" /\ UNCHANGED <<resolver, asked>>
                  /\ stage' = IF Valid(host, Seen, asked.opts) THEN "preprocess" ELSE "refused"
                BY <2>2 DEF Validate
            <3>2. /\ ResolveInv' /\ Request' /\ UNCHANGED <<outcome, asked>>
                  /\ Valid(host, Seen, asked.opts)' = Valid(host, Seen, asked.opts)
                BY <3>1, SamePlanning
            <3> QED BY <1>1, <3>1, <3>2 DEF SetupInv, Validated
        <2>3. CASE StartProducing
            <3>1. /\ stage = "preprocess" /\ Left = {} /\ UNCHANGED <<resolver, asked>>
                  /\ stage' = IF host = "cli" /\ ~ CliStageOk(Seen, asked.opts)
                              THEN "failed" ELSE "produce"
                BY <2>3 DEF StartProducing
            <3>2. /\ ResolveInv' /\ Request' /\ UNCHANGED <<outcome, asked, host>>
                  /\ Valid(host, Seen, asked.opts)' = Valid(host, Seen, asked.opts)
                  /\ CliStageOk(Seen, asked.opts)' = CliStageOk(Seen, asked.opts)
                  /\ ToRun(Seen)' = ToRun(Seen)
                BY <3>1, SamePlanning
            <3>3. Left' = {}
                BY <1>2, <3>1, <3>2 DEF Left
            <3> QED BY <3>1, <3>2, <3>3 DEF SetupInv, Validated
        <2> QED BY <2>1, <2>2, <2>3
    <1> QED BY <1>1, <1>2, <1>3 DEF SetupInv, Single

LEMMA SetupSteps == SetupInv /\ [SetupNext]_setup => SetupInv'
    <1> SUFFICES ASSUME SetupInv, [SetupNext]_setup PROVE SetupInv'
        OBVIOUS
    <1>1. CASE UNCHANGED setup
        <2>1. UNCHANGED <<resolver, asked, stage, ran, context>>
            BY <1>1 DEF setup
        <2>2. /\ ResolveInv' /\ Request' /\ UNCHANGED <<outcome, asked, host>>
              /\ Valid(host, Seen, asked.opts)' = Valid(host, Seen, asked.opts)
              /\ CliStageOk(Seen, asked.opts)' = CliStageOk(Seen, asked.opts)
              /\ ToRun(Seen)' = ToRun(Seen)
            BY <2>1, SamePlanning
        <2>3. Fulfilled' /\ (Effective(context))' /\ Left' = Left
            BY <2>1, <2>2 DEF SetupInv, Fulfilled, Effective, Left, Needs, Range
        <2>4. Validated'
            BY <2>1, <2>2, <2>3 DEF SetupInv, Validated
        <2> QED BY <2>1, <2>2, <2>3, <2>4 DEF SetupInv, Single
    <1> QED BY <1>1, RunKeeps, FailureKeeps, StagesKeep DEF SetupNext

(* What the set-up has done and decided at each stage.                       *)
THEOREM SetupInvariant == SetupSpec => []SetupInv
    BY SetupStarts, SetupSteps, PTL DEF SetupSpec

(* For all manifests as assumed and every request: a preprocessor runs after *)
(* those it requires, in a model that shows their work, and the first value  *)
(* of a type is the last one written (spawn_preprocessors_with).             *)
THEOREM RequirementsRunFirst == SetupSpec => []RequiredRunFirst
    <1>1. SetupInv => RequiredRunFirst
        <2> SUFFICES ASSUME SetupInv PROVE RequiredRunFirst
            OBVIOUS
        <2>1. Get(context, "model") = context["model"][1]
            BY FirstOfOne DEF SetupInv, Single, Types, Get
        <2>2. ASSUME NEW t \in {"model", "bsdd", "mesh"}, context[t] # <<>>
              PROVE  Get(context, t) = Last(context[t])
            <3>1. t \in Types /\ context[t] \in Seq(SUBSET Work) /\ Len(context[t]) \in {0, 1}
                BY DEF SetupInv, Single, Types, Contexts
            <3>2. Len(context[t]) = 1
                BY <2>2, <3>1
            <3> QED BY <2>2, <3>1, <3>2, FirstOfOne DEF SetupInv, Get
        <2> QED BY <2>1, <2>2 DEF SetupInv, Fulfilled, Effective, RequiredRunFirst, LatestIsSeen
    <1> QED BY <1>1, SetupInvariant, PTL

(* ----- what the produce stage finds --------------------------------------- *)
(* A set none of whose members differ has one at most.                       *)
LEMMA NoTwo ==
    ASSUME NEW S, \A x, y \in S : x = y
    PROVE  IsFiniteSet(S) /\ Cardinality(S) <= 1
    <1>1. CASE S = {}
        BY <1>1, FS_EmptySet
    <1>2. CASE S # {}
        <2>1. PICK x : S = {x}
            BY <1>2
        <2>2. IsFiniteSet({x}) /\ Cardinality({x}) = 1
            BY FS_Singleton
        <2> QED BY <2>1, <2>2
    <1> QED BY <1>1, <1>2

(* The settings of the command line, and what validate_args refused.         *)
LEMMA CliPrepared ==
    ASSUME NEW active, NEW opts, CliValid(active, opts), CliStageOk(active, opts),
           NEW s, s = CliSettings(active, opts, FALSE)
    PROVE  /\ Cardinality(active \cap Exports) = 1
           /\ s.common.lines > 0 /\ s.common.bytes > 0
           /\ active \cap Serializers = {} => "geometry" \in active
           /\ s.turtle => s.chunking = "none"
           /\ s.coreSet => s.chunking = "cores" /\ s.minCount > 0
           /\ s.common.partition = "producers" =>
                 s.chunking \in {"lines", "bytes"} /\ active \cap Postprocessors = {}
    <1>1. CliPlanOk(active) /\ CliArgsOk(s)
        BY DEF CliValid
    <1>2. s.common.partition = "mixed" \/ active \cap Postprocessors = {}
        BY DEF CliStageOk
    <1>3. Serializers \cap active = active \cap Serializers
        OBVIOUS
    <1> QED BY <1>1, <1>2, <1>3 DEF CliPlanOk, CliArgsOk

LEMMA BrowserPrepared ==
    ASSUME NEW active, NEW opts, BrowserValid(active, opts),
           NEW s, s = BrowserSettings(active, opts, FALSE), s.common.partition = "producers"
    PROVE  s.chunking \in {"lines", "bytes"} /\ "ontology" \notin active
    <1>1. "ontology" \notin active /\ s.asked \in {"lines", "bytes"}
        BY DEF BrowserValid
    <1>2. s.chunking = IF s.asked = "cores" THEN "lines" ELSE s.asked
        BY DEF BrowserSettings
    <1> QED BY <1>1, <1>2

(* Whatever the manifests and the request: the produce stage of either host  *)
(* finds what it and the stages after it take for granted.                   *)
THEOREM StagesArePrepared == SetupSpec => []ProduceIsPrepared
    <1>1. SetupInv => ProduceIsPrepared
        <2> SUFFICES ASSUME SetupInv, stage = "produce" PROVE ProduceIsPrepared
            BY DEF ProduceIsPrepared
        <2>1. /\ outcome = "accepted" /\ Valid(host, Seen, asked.opts) /\ Left = {}
              /\ host = "cli" => CliStageOk(Seen, asked.opts)
              /\ host \in Hosts /\ host \in {"cli", "browser"}
            BY ManifestsAssumption DEF SetupInv, Validated, ResolveInv, ResolveTypeOK
        <2>2. ASSUME host = "cli"
              PROVE  LET s == CliSettings(Seen, asked.opts, FALSE) IN
                     /\ Cardinality(Seen \cap Exports) = 1
                     /\ s.common.lines > 0 /\ s.common.bytes > 0
                     /\ Seen \cap Serializers = {} => "geometry" \in Seen
                     /\ s.turtle => s.chunking = "none"
                     /\ s.coreSet => s.chunking = "cores" /\ s.minCount > 0
                     /\ s.common.partition = "producers" =>
                           s.chunking \in {"lines", "bytes"} /\ Seen \cap Postprocessors = {}
            <3>1. CliValid(Seen, asked.opts) /\ CliStageOk(Seen, asked.opts)
                BY <2>1, <2>2 DEF Valid
            <3> QED BY <3>1, CliPrepared
        <2>3. ASSUME host = "browser"
              PROVE  LET s == BrowserSettings(Seen, asked.opts, FALSE) IN
                     s.common.partition = "producers" =>
                         s.chunking \in {"lines", "bytes"} /\ "ontology" \notin Seen
            <3>1. BrowserValid(Seen, asked.opts)
                BY <2>1, <2>3 DEF Valid
            <3> QED BY <3>1, BrowserPrepared
        <2>4. Cardinality(Seen \cap Serializers) <= 1
            <3>1. \A p, q \in Seen : p # q => q \notin Conflicts[host][p]
                BY <2>1 DEF SetupInv, ResolveInv, Judged
            <3>2. \A p, q \in Seen \cap Serializers : p = q
                BY <2>1, <3>1, ManifestsAssumption
            <3> QED BY <3>2, NoTwo
        <2>5. ASSUME Option(asked.opts, "bot", "mode", "ifc") = "extended", asked.utf8
              PROVE  context["mesh"] # <<>>
            <3>1. "geometry-pre" \in Range(requested)
                <4>1. requested = WithBotDependencies(asked.ids, asked.opts) /\ asked.ids \in Seq(Ids)
                    BY CasesAssumption DEF SetupInv, Request, FirstIds
                <4>2. requested = asked.ids \o <<"geometry-pre">>
                    BY <2>5, <4>1 DEF WithBotDependencies
                <4>3. /\ Len(asked.ids) + 1 \in DOMAIN requested
                      /\ requested[Len(asked.ids) + 1] = "geometry-pre"
                    BY <4>1, <4>2
                <4> QED BY <4>3 DEF Range
            <3>2. Range(requested) \subseteq Seen
                <4>1. Ahead = {}
                    BY <2>1, EmptyRange DEF SetupInv, ResolveInv, Judged, Ahead
                <4> QED BY <2>1, <4>1 DEF SetupInv, ResolveInv, NothingForgotten
            <3>3. "geometry-pre" \in ToRun(Seen)
                BY <3>1, <3>2 DEF ToRun, Preprocessors
            <3>4. "geometry-pre" \in Range(ran)
                BY <2>1, <3>3 DEF Left
            <3> QED BY <2>5, <3>4 DEF SetupInv, Effective
        <2> QED BY <2>2, <2>3, <2>4, <2>5 DEF ProduceIsPrepared
    <1> QED BY <1>1, SetupInvariant, PTL

(* ----- what the two hosts make of a request -------------------------------- *)
(* An accepted plan of built-in plugins.                                     *)
PlanOfBuiltIns(active) ==
    /\ active \subseteq Known
    /\ \A p, q \in active \cap Serializers : p = q
    /\ "stdout" \in active => active \cap {"file", "log"} = {}
OfPairs(opts) == \A q \in DOMAIN opts : q = <<q[1], q[2]>>

(* The modules whose options the command line checks, and both tables.       *)
Checked == {"bot", "ifcowl", "bsdd", "props", "omg", "geometry", "file", "turtle",
            "nquads", "nquads-chunked"}
LEMMA CheckedModules == \A m \in Known : m \in CliUnchecked \/ m \in Checked
    BY DEF Known, Producers, Lbd, Serializers, Exports, Preprocessors, Postprocessors,
           CliUnchecked, Checked
LEMMA UncheckedApart == \A m \in Checked : m \notin CliUnchecked
    BY DEF CliUnchecked, Checked

LEMMA SameTables ==
    ASSUME NEW m \in {"bot", "ifcowl", "bsdd", "props", "omg", "file", "turtle"}
    PROVE  BrowserKeys(m) = CliKeys(m)
    BY DEF BrowserKeys

LEMMA GeometryTables ==
    CliKeys("geometry") = {"format", "metadata"} /\ BrowserKeys("geometry") = {"format"}
    BY DEF BrowserKeys, CliKeys

LEMMA QuadTables ==
    /\ CliKeys("nquads") = Counts \cup {"chunking", "graph_naming", "chunk_prefix"}
    /\ BrowserKeys("nquads") = {"graph_naming"}
    /\ CliKeys("nquads-chunked") =
          Counts \cup {"chunking", "graph_naming", "partitioning", "chunk_prefix"}
    /\ BrowserKeys("nquads-chunked") = {"chunking", "chunk_size_lines", "chunk_size_bytes",
                                        "chunk_prefix", "graph_naming", "partitioning"}
    BY DEF BrowserKeys, CliKeys

LEMMA NoCounts ==
    \A m \in Checked \ {"nquads", "nquads-chunked"} : CliKeys(m) \cap (Counts \cup {"partitioning"}) = {}
    BY DEF CliKeys, Counts, Checked

(* An option that only one host takes.                                       *)
LEMMA CliOption ==
    ASSUME NEW m \in Known, NEW k, NEW v, CliAccepts(m, k, v), ~ BrowserAccepts(m, k, v)
    PROVE  \/ m \in CliUnchecked
           \/ m = "geometry" /\ k = "metadata"
           \/ m = "file" /\ k = "output_stem"
           \/ m = "nquads" /\ k # "graph_naming"
           \/ k \in {"chunk_min_count", "chunk_core_count"}
           \/ v = "a/b"
    <1> SUFFICES ASSUME m \notin CliUnchecked,
                        ~ (m = "geometry" /\ k = "metadata"),
                        ~ (m = "file" /\ k = "output_stem"),
                        ~ (m = "nquads" /\ k # "graph_naming"),
                        k \notin {"chunk_min_count", "chunk_core_count"},
                        v # "a/b"
                 PROVE  FALSE
        OBVIOUS
    <1>1. m \in Checked /\ k \in CliKeys(m)
        BY CheckedModules DEF CliAccepts
    <1>2. k \in BrowserKeys(m)
        <2>1. CASE m = "geometry"
            BY <1>1, <2>1, GeometryTables
        <2>2. CASE m = "nquads"
            BY <1>1, <2>2, QuadTables
        <2>3. CASE m = "nquads-chunked"
            BY <1>1, <2>3, QuadTables DEF Counts
        <2>4. CASE m \notin {"geometry", "nquads", "nquads-chunked"}
            BY <1>1, <2>4, SameTables DEF Checked
        <2> QED BY <2>1, <2>2, <2>3, <2>4
    <1>3. k = "output_stem" => m = "file"
        <2>1. k = "output_stem" => k \in CliKeys(m)
            BY <1>1
        <2> QED BY <1>1, <2>1 DEF CliKeys, Checked, Counts
    <1>4. k # "output_stem"
        BY <1>3
    <1>5. CASE k = "chunk_prefix"
        BY <1>2, <1>5 DEF BrowserAccepts, Counts
    <1>6. CASE k \in Counts
        <2>1. k # "chunk_prefix" /\ k # "output_stem" /\ IsInteger(v)
            BY <1>1, <1>6 DEF CliAccepts, Counts
        <2> QED BY <1>2, <1>6, <2>1 DEF BrowserAccepts, Counts
    <1>7. CASE k # "chunk_prefix" /\ k \notin Counts
        <2>1. v \in Keyword(m, k)
            BY <1>1, <1>4, <1>7 DEF CliAccepts
        <2> QED BY <1>2, <1>4, <1>7, <2>1 DEF BrowserAccepts
    <1> QED BY <1>5, <1>6, <1>7

LEMMA BrowserOption ==
    ASSUME NEW m \in Known, NEW k, NEW v, BrowserAccepts(m, k, v), ~ CliAccepts(m, k, v)
    PROVE  m = "nquads-chunked" /\ k \in {"chunk_size_lines", "chunk_size_bytes"} /\ v = "0"
    <1>1. m \in Checked /\ m \notin CliUnchecked /\ k \in BrowserKeys(m)
        BY CheckedModules DEF BrowserAccepts, CliAccepts
    <1>2. k \in CliKeys(m) /\ (k \in Counts =>
              m = "nquads-chunked" /\ k \in {"chunk_size_lines", "chunk_size_bytes"})
        <2>1. CASE m = "geometry"
            BY <1>1, <2>1, GeometryTables DEF Counts
        <2>2. CASE m = "nquads"
            BY <1>1, <2>2, QuadTables DEF Counts
        <2>3. CASE m = "nquads-chunked"
            BY <1>1, <2>3, QuadTables DEF Counts
        <2>4. CASE m \notin {"geometry", "nquads", "nquads-chunked"}
            <3>1. BrowserKeys(m) = CliKeys(m)
                BY <1>1, <2>4, SameTables DEF Checked
            <3>2. CliKeys(m) \cap Counts = {}
                BY <1>1, <2>4, NoCounts
            <3> QED BY <1>1, <3>1, <3>2
        <2> QED BY <2>1, <2>2, <2>3, <2>4
    <1>3. k \notin {"output_stem", "chunk_prefix"}
        BY <1>1, <1>2 DEF CliAccepts
    <1>4. CASE k \in Counts
        <2>1. IsInteger(v)
            BY <1>3, <1>4 DEF BrowserAccepts, Counts
        <2>2. ~ (Integer(v) > 0)
            BY <1>1, <1>2, <1>3, <1>4, <2>1 DEF CliAccepts
        <2> QED BY <1>2, <1>4, <2>2 DEF Integer
    <1>5. CASE k \notin Counts
        <2>1. k \notin {"rml_mapping", "alignment_file", "ontology_file"}
            BY <1>1, <1>2 DEF CliKeys, Checked, Counts
        <2>2. v \in Keyword(m, k)
            BY <1>3, <1>5, <2>1 DEF BrowserAccepts
        <2> QED BY <1>1, <1>2, <1>3, <1>5, <2>2 DEF CliAccepts
    <1> QED BY <1>4, <1>5

(* The serializers whose options the hosts read are alike: the plain one     *)
(* stands in for the chunked one only when neither has options.              *)
LEMMA SameQuads ==
    ASSUME NEW active, NEW opts, PlanOfBuiltIns(active), OptionsAreActive(active, opts),
           NEW k, NEW default
    PROVE  /\ Option(opts, QuadModule(active), k, default)
                = Option(opts, BrowserQuadModule(active, opts), k, default)
           /\ Number(opts, QuadModule(active), k, default)
                = Number(opts, BrowserQuadModule(active, opts), k, default)
    <1>1. CASE QuadModule(active) = BrowserQuadModule(active, opts)
        BY <1>1
    <1>2. CASE QuadModule(active) # BrowserQuadModule(active, opts)
        <2>1. /\ "nquads-chunked" \in active /\ "nquads-chunked" \notin Modules(opts)
              /\ QuadModule(active) = "nquads-chunked" /\ BrowserQuadModule(active, opts) = "nquads"
            BY <1>2 DEF QuadModule, BrowserQuadModule
        <2>2. "nquads" \notin active
            BY <2>1 DEF PlanOfBuiltIns, Serializers
        <2>3. "nquads" \notin Modules(opts)
            BY <2>2 DEF OptionsAreActive
        <2>4. \A m : <<m, k>> \in DOMAIN opts => m \in Modules(opts)
            BY DEF Modules
        <2>5. <<"nquads-chunked", k>> \notin DOMAIN opts /\ <<"nquads", k>> \notin DOMAIN opts
            BY <2>1, <2>3, <2>4
        <2> QED BY <2>1, <2>5 DEF Option, Number
    <1> QED BY <1>1, <1>2

LEMMA SameSettings ==
    ASSUME NEW active, NEW opts, PlanOfBuiltIns(active), OptionsAreActive(active, opts),
           NEW large
    PROVE  LET c == CliSettings(active, opts, large)
               b == BrowserSettings(active, opts, large)
           IN  /\ c.common = b.common /\ c.grouping = b.grouping /\ c.chunking = b.asked
               /\ b.chunking = IF b.asked = "cores" THEN "lines" ELSE b.asked
    <1> DEFINE c == CliSettings(active, opts, large)
               b == BrowserSettings(active, opts, large)
    <1> DEFINE Q == QuadModule(active)
               B == BrowserQuadModule(active, opts)
    <1>1. \A k, d : Option(opts, Q, k, d) = Option(opts, B, k, d)
        BY SameQuads
    <1>2. \A k, d : Number(opts, Q, k, d) = Number(opts, B, k, d)
        BY SameQuads
    <1>3. /\ c.common = CommonSettings(active, opts, Q) /\ b.common = CommonSettings(active, opts, B)
          /\ c.grouping = Grouping(opts, large) /\ b.grouping = Grouping(opts, large)
          /\ c.chunking = Option(opts, Q, "chunking", DefaultChunking(active))
          /\ b.asked = Option(opts, B, "chunking", DefaultChunking(active))
          /\ b.chunking = IF b.asked = "cores" THEN "lines" ELSE b.asked
        BY DEF CliSettings, BrowserSettings
    <1> HIDE DEF Q, B
    <1>4. CommonSettings(active, opts, Q) = CommonSettings(active, opts, B)
        BY SMTT(20), <1>1, <1>2 DEF CommonSettings
    <1> QED BY <1>1, <1>3, <1>4

(* What the command line takes and the browser refuses, it refuses for a      *)
(* reason that is listed.                                                    *)
LEMMA CliNotBrowser ==
    ASSUME NEW active, NEW opts, PlanOfBuiltIns(active), OfPairs(opts),
           CliValid(active, opts), CliStageOk(active, opts), ~ BrowserValid(active, opts)
    PROVE  CliOnly(active, opts)
    <1> DEFINE c == CliSettings(active, opts, FALSE)
               b == BrowserSettings(active, opts, FALSE)
    <1>1. /\ OptionsAreActive(active, opts) /\ CliPlanOk(active) /\ CliArgsOk(c)
          /\ \A q \in DOMAIN opts : CliAccepts(q[1], q[2], opts[q])
        BY DEF CliValid
    <1>2. c.common = b.common /\ c.chunking = b.asked
        <2>1. OptionsAreActive(active, opts)
            BY <1>1
        <2> QED BY <2>1, SameSettings
    <1>3. c.common.partition = "mixed" \/ active \cap Postprocessors = {}
        BY DEF CliStageOk
    <1>4. \/ \E q \in DOMAIN opts : ~ BrowserAccepts(q[1], q[2], opts[q])
          \/ ~ BrowserPlanOk(active)
          \/ b.common.partition = "producers" /\ ~ ("ontology" \notin active /\ b.asked \in {"lines", "bytes"})
        BY <1>1 DEF BrowserValid
    <1> HIDE DEF c, b
    <1>5. CASE \E q \in DOMAIN opts : ~ BrowserAccepts(q[1], q[2], opts[q])
        <2>1. PICK q \in DOMAIN opts : ~ BrowserAccepts(q[1], q[2], opts[q])
            BY <1>5
        <2>2. q = <<q[1], q[2]>>
            BY DEF OfPairs
        <2>3. q[1] \in Known
            BY <1>1 DEF PlanOfBuiltIns, OptionsAreActive, Modules
        <2>4. \/ q[1] \in CliUnchecked
              \/ q[1] = "geometry" /\ q[2] = "metadata"
              \/ q[1] = "file" /\ q[2] = "output_stem"
              \/ q[1] = "nquads" /\ q[2] # "graph_naming"
              \/ q[2] \in {"chunk_min_count", "chunk_core_count"}
              \/ opts[q] = "a/b"
            BY <1>1, <2>1, <2>3, CliOption
        <2>5. \/ q[1] \in CliUnchecked
              \/ q \in {<<"geometry", "metadata">>, <<"file", "output_stem">>}
              \/ q[1] = "nquads" /\ q[2] # "graph_naming"
              \/ q[2] \in {"chunk_min_count", "chunk_core_count"}
              \/ opts[q] = "a/b"
            BY <2>2, <2>4
        <2> QED BY <2>5 DEF CliOnly
    <1>6. CASE ~ BrowserPlanOk(active)
        <2>1. CASE active \cap ((Producers \ {"geometry"}) \cup Postprocessors) = {}
            <3>1. active \cap Producers \subseteq {"geometry"} /\ "ontology" \notin active
                BY <2>1 DEF Postprocessors
            <3> QED BY <3>1 DEF CliOnly
        <2>2. CASE active \cap {"file", "log"} = {}
            <3>1. active \cap Exports # {}
                BY <1>1, FS_EmptySet DEF CliPlanOk
            <3>2. "stdout" \in active
                BY <2>2, <3>1 DEF Exports
            <3> QED BY <3>2 DEF CliOnly
        <2>3. CASE active \cap Serializers = {}
            BY <2>3 DEF CliOnly
        <2> QED BY <1>6, <2>1, <2>2, <2>3 DEF BrowserPlanOk
    <1>7. CASE b.common.partition = "producers" /\ ~ ("ontology" \notin active /\ b.asked \in {"lines", "bytes"})
        <2>1. b.asked \in {"lines", "bytes"}
            BY <1>1, <1>2, <1>7 DEF CliArgsOk
        <2>2. "ontology" \notin active
            BY <1>2, <1>3, <1>7 DEF Postprocessors
        <2> QED BY <1>7, <2>1, <2>2
    <1> QED BY <1>4, <1>5, <1>6, <1>7

(* One exporter, when the browser takes the plan and does not have both.     *)
LEMMA OneExporter ==
    ASSUME NEW active, PlanOfBuiltIns(active), active \cap {"file", "log"} # {},
           ~ ({"file", "log"} \subseteq active)
    PROVE  Cardinality(active \cap Exports) = 1
    <1>1. PICK x : active \cap Exports = {x}
        <2>1. CASE "file" \in active
            <3>1. active \cap Exports = {"file"}
                BY <2>1 DEF PlanOfBuiltIns, Exports
            <3> QED BY <3>1
        <2>2. CASE "log" \in active
            <3>1. active \cap Exports = {"log"}
                BY <2>2 DEF PlanOfBuiltIns, Exports
            <3> QED BY <3>1
        <2> QED BY <2>1, <2>2
    <1>2. Cardinality({x}) = 1
        BY FS_Singleton
    <1> QED BY <1>1, <1>2

(* A number that the browser takes is positive, unless it is the zero of a   *)
(* chunk size.                                                               *)
LEMMA BrowserNumbers ==
    ASSUME NEW active, NEW opts, BrowserValid(active, opts), PlanOfBuiltIns(active),
           ~ BrowserOnly(active, opts),
           NEW Q \in {"nquads", "nquads-chunked"}
    PROVE  /\ \A k \in {"chunk_size_lines", "chunk_size_bytes"} :
                 \A d \in Nat : d > 0 => Number(opts, Q, k, d) > 0
           /\ \A k \in {"chunk_min_count", "chunk_core_count"} : <<Q, k>> \notin DOMAIN opts
           /\ <<"nquads", "chunking">> \notin DOMAIN opts
           /\ <<"nquads", "partitioning">> \notin DOMAIN opts
    <1>1. \A m, k : <<m, k>> \in DOMAIN opts => k \in BrowserKeys(m)
        <2> SUFFICES ASSUME NEW m, NEW k, <<m, k>> \in DOMAIN opts PROVE k \in BrowserKeys(m)
            OBVIOUS
        <2>1. BrowserAccepts(<<m, k>>[1], <<m, k>>[2], opts[<<m, k>>])
            BY DEF BrowserValid
        <2> QED BY <2>1 DEF BrowserAccepts
    <1>2. /\ \A k \in {"chunk_min_count", "chunk_core_count"} : <<Q, k>> \notin DOMAIN opts
          /\ <<"nquads", "chunking">> \notin DOMAIN opts
          /\ <<"nquads", "partitioning">> \notin DOMAIN opts
        BY <1>1, QuadTables
    <1>3. ASSUME NEW k \in {"chunk_size_lines", "chunk_size_bytes"}, NEW d \in Nat, d > 0
          PROVE  Number(opts, Q, k, d) > 0
        <2>1. CASE <<Q, k>> \in DOMAIN opts /\ IsInteger(opts[<<Q, k>>])
            <3>1. Q = "nquads-chunked"
                BY <1>1, <2>1, QuadTables
            <3>2. opts[<<Q, k>>] # "0"
                BY <2>1, <3>1 DEF BrowserOnly
            <3>3. Number(opts, Q, k, d) = 7
                BY <2>1, <3>2 DEF Number, Integer
            <3> QED BY <3>3
        <2>2. CASE ~ (<<Q, k>> \in DOMAIN opts /\ IsInteger(opts[<<Q, k>>]))
            <3>1. Number(opts, Q, k, d) = d
                BY <2>2 DEF Number
            <3> QED BY <1>3, <3>1
        <2> QED BY <2>1, <2>2
    <1> QED BY <1>2, <1>3

(* The default sizes are positive.                                           *)
LEMMA DefaultSizes ==
    ASSUME NEW active, NEW opts, NEW Q
    PROVE  \E n, m \in Nat :
               /\ n > 0 /\ CommonSettings(active, opts, Q).lines = Number(opts, Q, "chunk_size_lines", n)
               /\ m > 0 /\ CommonSettings(active, opts, Q).bytes = Number(opts, Q, "chunk_size_bytes", m)
    <1>1. CommonSettings(active, opts, Q).lines = Number(opts, Q, "chunk_size_lines", 2000000)
        BY SMT DEF CommonSettings
    <1>2. CommonSettings(active, opts, Q).bytes = Number(opts, Q, "chunk_size_bytes", 268435456)
        BY SMT DEF CommonSettings
    <1> QED BY <1>1, <1>2, SMT

LEMMA BrowserNotCli ==
    ASSUME NEW active, NEW opts, PlanOfBuiltIns(active), OfPairs(opts),
           BrowserValid(active, opts), ~ (CliValid(active, opts) /\ CliStageOk(active, opts)),
           ~ BrowserOnly(active, opts)
    PROVE  FALSE
    <1> DEFINE c == CliSettings(active, opts, FALSE)
               b == BrowserSettings(active, opts, FALSE)
               Q == QuadModule(active)
    <1>1. /\ OptionsAreActive(active, opts) /\ BrowserPlanOk(active)
          /\ \A q \in DOMAIN opts : BrowserAccepts(q[1], q[2], opts[q])
          /\ b.common.partition = "producers" => "ontology" \notin active /\ b.asked \in {"lines", "bytes"}
        BY DEF BrowserValid
    <1>2. c.common = b.common /\ c.chunking = b.asked
        <2>1. OptionsAreActive(active, opts)
            BY <1>1
        <2> QED BY <2>1, SameSettings
    <1>3. Q \in {"nquads", "nquads-chunked"}
        BY DEF QuadModule
    <1>4. /\ c.common = CommonSettings(active, opts, Q)
          /\ c.common.partition = Option(opts, Q, "partitioning", "mixed")
          /\ c.minCount = Number(opts, Q, "chunk_min_count", 1)
          /\ c.coreSet = (<<Q, "chunk_core_count">> \in DOMAIN opts)
          /\ c.chunking = Option(opts, Q, "chunking", DefaultChunking(active))
          /\ c.turtle = ("turtle" \in active \/ Serializers \cap active = {})
        BY SMT DEF CliSettings, CommonSettings
    <1>5. CliValid(active, opts) =
              (/\ OptionsAreActive(active, opts) /\ CliPlanOk(active) /\ CliArgsOk(c)
               /\ \A q \in DOMAIN opts : CliAccepts(q[1], q[2], opts[q]))
        BY DEF CliValid
    <1>6. CliStageOk(active, opts) = (c.common.partition = "mixed" \/ active \cap Postprocessors = {})
        BY DEF CliStageOk
    <1> HIDE DEF c, b, Q
    <1>7. ASSUME NEW q \in DOMAIN opts PROVE CliAccepts(q[1], q[2], opts[q])
        <2>1. q = <<q[1], q[2]>>
            BY DEF OfPairs
        <2>2. q[1] \in Known
            BY <1>1 DEF PlanOfBuiltIns, OptionsAreActive, Modules
        <2>3. SUFFICES ASSUME ~ CliAccepts(q[1], q[2], opts[q]) PROVE FALSE
            OBVIOUS
        <2>4. /\ q[1] = "nquads-chunked" /\ q[2] \in {"chunk_size_lines", "chunk_size_bytes"}
              /\ opts[q] = "0"
            BY <1>1, <2>2, <2>3, BrowserOption
        <2>5. q \in {"nquads-chunked"} \X {"chunk_size_lines", "chunk_size_bytes"}
            BY <2>1, <2>4
        <2> QED BY <2>4, <2>5 DEF BrowserOnly
    <1>8. CliPlanOk(active)
        <2>1. active \cap Producers # {} /\ ~ ({"file", "log"} \subseteq active)
            BY DEF BrowserOnly
        <2>2. active \cap {"file", "log"} # {} /\ active \cap Serializers # {}
            BY <1>1 DEF BrowserPlanOk
        <2>3. Cardinality(active \cap Exports) = 1
            BY <2>1, <2>2, OneExporter
        <2> QED BY <2>1, <2>2, <2>3 DEF CliPlanOk
    <1>9. c.turtle => c.chunking = "none"
        <2> SUFFICES ASSUME c.turtle PROVE c.chunking = "none"
            OBVIOUS
        <2>1. "turtle" \in active
            BY <1>1, <1>4 DEF BrowserPlanOk
        <2>2. "nquads-chunked" \notin active
            BY <2>1 DEF PlanOfBuiltIns, Serializers
        <2>3. Q = "nquads" /\ DefaultChunking(active) = "none"
            BY <2>2 DEF Q, QuadModule, DefaultChunking
        <2>4. <<"nquads", "chunking">> \notin DOMAIN opts
            BY <1>3, BrowserNumbers
        <2> QED BY <1>4, <2>3, <2>4 DEF Option
    <1>10. c.common.lines > 0 /\ c.common.bytes > 0 /\ c.minCount > 0 /\ ~ c.coreSet
        <2>1. /\ \A k \in {"chunk_size_lines", "chunk_size_bytes"} :
                    \A d \in Nat : d > 0 => Number(opts, Q, k, d) > 0
              /\ \A k \in {"chunk_min_count", "chunk_core_count"} : <<Q, k>> \notin DOMAIN opts
            BY <1>3, BrowserNumbers
        <2>2. c.minCount = 1
            BY <1>4, <2>1 DEF Number
        <2>3. PICK n, m \in Nat :
                  /\ n > 0 /\ c.common.lines = Number(opts, Q, "chunk_size_lines", n)
                  /\ m > 0 /\ c.common.bytes = Number(opts, Q, "chunk_size_bytes", m)
            BY <1>4, DefaultSizes
        <2>4. c.common.lines > 0 /\ c.common.bytes > 0
            BY <2>1, <2>3
        <2>5. ~ c.coreSet
            BY <1>4, <2>1
        <2> QED BY <2>2, <2>4, <2>5
    <1>11. c.common.partition = "producers" => c.chunking \in {"lines", "bytes"}
        BY <1>1, <1>2
    <1>12. CliArgsOk(c)
        BY <1>9, <1>10, <1>11 DEF CliArgsOk
    <1>13. c.common.partition = "mixed" \/ active \cap Postprocessors = {}
        <2>1. CASE <<Q, "partitioning">> \notin DOMAIN opts
            BY <1>4, <2>1 DEF Option
        <2>2. CASE <<Q, "partitioning">> \in DOMAIN opts
            <3>1. Q = "nquads-chunked"
                BY <1>3, <2>2, BrowserNumbers
            <3>2. BrowserAccepts(<<Q, "partitioning">>[1], <<Q, "partitioning">>[2], opts[<<Q, "partitioning">>])
                BY <1>1, <2>2
            <3>3. opts[<<Q, "partitioning">>] \in Keyword(Q, "partitioning")
                BY <3>2 DEF BrowserAccepts, Counts
            <3>4. Keyword(Q, "partitioning") = {"mixed", "producers"}
                BY DEF Keyword
            <3>5. c.common.partition \in {"mixed", "producers"}
                BY <1>4, <2>2, <3>3, <3>4 DEF Option
            <3> QED BY <1>1, <1>2, <3>5 DEF Postprocessors
        <2> QED BY <2>1, <2>2
    <1> QED BY <1>1, <1>5, <1>6, <1>7, <1>8, <1>12, <1>13

LEMMA BothTake ==
    ASSUME NEW active, NEW opts, PlanOfBuiltIns(active),
           CliValid(active, opts), BrowserValid(active, opts), NEW large
    PROVE  LET c == CliSettings(active, opts, large)
               b == BrowserSettings(active, opts, large)
           IN  /\ c.common = b.common /\ c.grouping = b.grouping /\ c.turtle = b.turtle
               /\ b.chunking = IF c.chunking = "cores" THEN "lines" ELSE c.chunking
    <1> DEFINE c == CliSettings(active, opts, large)
               b == BrowserSettings(active, opts, large)
    <1>1. OptionsAreActive(active, opts) /\ Serializers \cap active # {}
        BY DEF BrowserValid, BrowserPlanOk
    <1>2. /\ c.common = b.common /\ c.grouping = b.grouping /\ c.chunking = b.asked
          /\ b.chunking = IF b.asked = "cores" THEN "lines" ELSE b.asked
        BY <1>1, SameSettings
    <1>3. c.turtle = b.turtle
        BY <1>1 DEF CliSettings, BrowserSettings
    <1> QED BY <1>2, <1>3

(* For every request whose plan is accepted - any options, any values: the   *)
(* two hosts take the same requests, but for the reasons listed, and what    *)
(* both take means the same to both (main.rs and validation.rs).             *)
THEOREM HostsReadAlike == SetupSpec => []HostsAgree
    <1>1. SetupInv => HostsAgree
        <2> SUFFICES ASSUME SetupInv, outcome = "accepted" PROVE HostsAgree
            BY DEF HostsAgree
        <2>1. host \in Hosts /\ Seen \subseteq Plugins
            BY Registry DEF SetupInv, ResolveInv, ResolveTypeOK
        <2>2. \A p, q \in Seen : p # q => q \notin Conflicts[host][p]
            BY DEF SetupInv, ResolveInv, Judged
        <2>3. PlanOfBuiltIns(Seen)
            <3>1. Seen \subseteq Known
                BY <2>1, ManifestsAssumption DEF Plugins
            <3>2. \A p, q \in Seen \cap Serializers : p = q
                BY <2>1, <2>2, ManifestsAssumption
            <3>3. "stdout" \in Seen => Seen \cap {"file", "log"} = {}
                BY <2>1, <2>2, ManifestsAssumption DEF Plugins
            <3> QED BY <3>1, <3>2, <3>3 DEF PlanOfBuiltIns
        <2>4. OfPairs(asked.opts)
            BY CasesAssumption DEF SetupInv, Request, OfPairs
        <2>5. /\ CliValid(Seen, asked.opts) /\ CliStageOk(Seen, asked.opts)
                 /\ ~ BrowserValid(Seen, asked.opts) => CliOnly(Seen, asked.opts)
              /\ BrowserValid(Seen, asked.opts)
                 /\ ~ (CliValid(Seen, asked.opts) /\ CliStageOk(Seen, asked.opts))
                 => BrowserOnly(Seen, asked.opts)
            BY <2>3, <2>4, CliNotBrowser, BrowserNotCli
        <2>6. CliValid(Seen, asked.opts) /\ BrowserValid(Seen, asked.opts) =>
                  \A large \in BOOLEAN :
                      LET c == CliSettings(Seen, asked.opts, large)
                          b == BrowserSettings(Seen, asked.opts, large)
                      IN  /\ c.common = b.common /\ c.grouping = b.grouping /\ c.turtle = b.turtle
                          /\ b.chunking = IF c.chunking = "cores" THEN "lines" ELSE c.chunking
            BY <2>3, BothTake
        <2> QED BY <2>5, <2>6 DEF HostsAgree
    <1> QED BY <1>1, SetupInvariant, PTL
=============================================================================
