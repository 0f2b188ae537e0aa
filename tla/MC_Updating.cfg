SPECIFICATION Spec
CONSTANTS
    MaxVersion = 2
    MaxDownloadAttempts = 1
    DiskErrors = TRUE
    Updaters = {u1}
INVARIANTS TypeOK FieldsAgree NeverOfferInstalled ReadyIsDownloaded
