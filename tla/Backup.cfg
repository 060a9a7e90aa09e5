CONSTANTS
    Names <- MCNames
    MaxIds = 2
    MaxKills = 1
    MaxBackups = 2
    MaxRestores = 2

SPECIFICATION Spec
INVARIANTS
    TypeOK
    ArchiveIsComplete
PROPERTY CompletedRestoreIsArchive
CHECK_DEADLOCK FALSE
