CONSTANTS
    Radix = 4
    NULL = NULL
    Types <- AllTypes
    Numbers <- TheNumbers
    Texts <- TheTexts
    Written <- TheWritten
    MaxSizes <- TheMaxSizes
    Checks <- TheChecks
SPECIFICATION Spec
INVARIANTS ReadsSurviveReboot WholeRangeHolds ExportsImport TypedInv
PROPERTIES NumbersArrive UpgradesKeepValues
