SPECIFICATION Spec

CONSTANTS
    w1 = w1
    w2 = w2
    w3 = w3
    result = result
    attachment = attachment
    Artifacts = {result, attachment}
    UserNames = {notes}
    Marker = marker
    Writers = {w1}
    NameOf <- SharedName
    AllowNonOwned = FALSE
    MaxRuns = 3
    None = None

INVARIANTS
    PreparedNotRefused
