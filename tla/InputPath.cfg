SPECIFICATION Spec
CONSTANTS
    ScanCodes <- MCScanCodes
    UsbCodes <- MCUsbCodes
    WinTable <- MCWinTable
    OobReads <- MCOobReads
    AndroidOf <- MCAndroidOf
    KEYS <- MCKEYS
    KeyCodes <- MCKeyCodes
    FlagSets <- MCFlagSets
    Pos <- MCPos
    Data <- MCData
    MaxBatch = 2
INVARIANT TypeOK
INVARIANT SyncedView
INVARIANT ViewFollowsRequests
