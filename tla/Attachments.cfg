SPECIFICATION AttachmentsSpec

CONSTANTS
    w1 = w1
    w2 = w2
    w3 = w3
    result = result
    attachment = attachment
    Artifacts = {result, attachment}
    UserNames = {notes}
    Marker = marker
    Writers = {w1, w2, w3}
    NameOf <- SharedName
    AllowNonOwned = FALSE
    MaxRuns = 3
    Attaching = {w3}
    Shows <- FinalShows
    Limit = 1
    Largest = 3
    Strict = FALSE
    FollowLinks = TRUE
    AllowExternal = FALSE
    MaxChanges = 2
    None = None

INVARIANTS
    FreshReport
    TempsInUse
    AttachmentsComplete
    ReferencesOnDisk

PROPERTIES
    
    ImplementsArtifactStore
