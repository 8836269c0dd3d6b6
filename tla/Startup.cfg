CONSTANTS
    Old <- MCOld
    MaxFaults = 3
SPECIFICATION Spec
INVARIANTS
    TypeOK
    ImportAfterStartWorks
    UpgradeIsSafe
PROPERTIES
    ComesBack
    OnlyTheImportIsInTheWay
