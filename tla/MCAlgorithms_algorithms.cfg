CONSTANTS
    BuildingInputs <- MCBuildings
    FileInputs <- Files
    PropertyInputs <- MCProperties
    DictionaryInputs <- MCDictionary
    QuantityInputs <- MCQuantities
    SoftwarePrefixes = {"psetrevit"}
    Score <- MCScore
    Place <- MCPlace
    MaxFuzzyCandidates = 2
    Table <- MCTable
    SetName <- MCSetName
SPECIFICATION Spec
INVARIANT OntologyIsApplied
INVARIANT BotIsConsistent
INVARIANT PathsAgree
INVARIANT FilesReadBack ViewerSeesModel HashTellsChanges SectionAgrees
INVARIANT SetsAreInherited
INVARIANT ModulesShareNodes
INVARIANT SharingChangesNothing
INVARIANT MatchesAreEarned
INVARIANT GraphsReadBack
INVARIANT EntitiesStandAlone TakeOffIsEarned
CHECK_DEADLOCK FALSE
