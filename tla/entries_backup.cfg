SPECIFICATION Spec
CONSTANTS
    a = a
    b = b
    Labels <- MCLabels
    MaxIds = 3
    MaxEntries = 3
    MaxImport = 2
    Unset = Unset
    Unreadable = Unreadable
    Posix = TRUE
INVARIANTS BackupKeepsTheList
