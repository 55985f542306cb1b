SPECIFICATION Spec
CONSTANTS
    File <- MCFile
    Content <- MCContent
    Undecodable <- MCUndecodable
    MaxSize = 2
    Threshold = 2
    MaxFaults = 2
INVARIANTS
    ArchivedWasAdded
    AddedOnce
PROPERTIES
    GoldenLast
    FilesArchived
