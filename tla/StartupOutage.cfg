CONSTANTS
    Old <- MCOld
    MaxFaults = 3
SPECIFICATION Spec
PROPERTIES
    OutageIsSurvived
