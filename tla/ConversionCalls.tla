--------------------------- MODULE ConversionCalls ---------------------------
(* One call of one algorithm of the conversion, with any input of a set     *)
(* that the code can be given, and what each of them promises about it.     *)
EXTENDS Topology, IfcModel, BsddMatching, PropertyGraph, QuantityTakeOff

CONSTANTS BuildingInputs,    \* [model, outcome]: a model and the verdicts of geometry
          FileInputs,        \* lists of entities
          PropertyInputs,    \* [model, order, level]: objects, and as threads take them
          DictionaryInputs,  \* [index, base, overlay, asked, occurrences]
          QuantityInputs     \* [objects, sets, units]

ASSUME InputAssumption ==
    /\ \A x \in BuildingInputs : IsModel(x.model)
    /\ \A file \in FileInputs : IsFile(file)
    /\ \A x \in PropertyInputs : IsOrder(x.order) /\ Elem(x.order) = Elem(x.model)
    /\ \A x \in DictionaryInputs : /\ IsIndex(x.index) /\ IsProfile(x.base) /\ IsProfile(x.overlay)
                                   /\ x.occurrences \in Seq(ToSet(x.occurrences))
    /\ \A m \in QuantityInputs : IsAuthored(m)

VARIABLES topic,   \* the algorithm
          input    \* <<>> before the call, <<x>> when it is called with x
callVars == <<topic, input>>

CallTopics == {"topology", "model", "properties", "dictionary", "quantities"}
CallsInit == topic \in CallTopics /\ input = <<>>
Asked(t) == topic = t /\ input = <<>>
Give(x) == input' = <<x>> /\ UNCHANGED topic

GiveTopology == Asked("topology") /\ \E x \in BuildingInputs : Give(x)
GiveModel == Asked("model") /\ \E x \in FileInputs : Give(x)
GiveProperties == Asked("properties") /\ \E x \in PropertyInputs : Give(x)
GiveDictionary == Asked("dictionary") /\ \E x \in DictionaryInputs : Give(x)
GiveQuantities == Asked("quantities") /\ \E x \in QuantityInputs : Give(x)

CallsNext ==
    \/ GiveTopology
    \/ GiveModel
    \/ GiveProperties
    \/ GiveDictionary
    \/ GiveQuantities
Calls == CallsInit /\ [][CallsNext]_callVars
------------------------------------------------------------------------------
Promised(t, sound(_)) == topic = t /\ input # <<>> => sound(input[1])

(* A zone and an element are related by the strongest evidence there is,    *)
(* and by that only (ConsistentBot of Topology).                            *)
BotIsConsistent == Promised("topology", LAMBDA x : ConsistentBot(x.model, x.outcome))
(* The modular path and emit_lbd tell the same topology, and the call       *)
(* without a topology loses no containment.                                 *)
PathsAgree == Promised("topology", LAMBDA x : AgreeingPaths(x.model))
(* In any order of the file an object has its own sets and those of its     *)
(* type that none of them shadows.                                          *)
SetsAreInherited == Promised("model", LAMBDA file : InheritedSets(file))
(* The props and the bSDD module tell alike each value that both write as   *)
(* it is, whatever other values the model has.                              *)
ModulesShareNodes == Promised("properties", LAMBDA x : SharesNodes(x.model, x.level))
(* Whichever object is converted first, sharing nodes keeps every value,    *)
(* and a node says what one of those who share it says.                     *)
SharingChangesNothing == Promised("properties", LAMBDA x : SharingIsNeutral(x.model, x.order, x.level))
(* The strongest level with an answer gives it, for every property of the   *)
(* model, and the cache answers as the dictionary would.                    *)
MatchesAreEarned ==
    Promised("dictionary", LAMBDA x : /\ \A i \in DOMAIN x.occurrences : EarnedMatch(x.index, x.base, x.overlay, x.occurrences[i])
                                      /\ FaithfulCache(x.index, x.base, x.overlay, x.asked, x.occurrences))
(* What an object gains was measured on it, on its whole body or on exactly *)
(* the items of it closed forms are taken of, in the unit of the file and   *)
(* under a name none of its sets had; what was authored stays.              *)
TakeOffIsEarned == Promised("quantities", LAMBDA m : EarnedTakeOff(m))
==============================================================================
