SPECIFICATION HSpec
CONSTANTS
    MaxVersion = 2
    MaxDownloadAttempts = 1
    DiskErrors = FALSE
    Updaters = {u1}
PROPERTY NoLostUpdate
