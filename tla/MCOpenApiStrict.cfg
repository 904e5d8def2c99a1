CONSTANTS
    None = None
    Unvalidated = Unvalidated
    r1 = r1  r2 = r2
    Exchange = {r1, r2}
    Request <- MCRequest
    Response <- MCResponse
    File <- MCFile
    Segments <- MCSegments
    Hash <- MCHash
    Serialized <- MCSerialized
    Rejection <- MCRejection
    Strict = TRUE
    MaxCacheSize = 2
SPECIFICATION Spec
PROPERTY StrictRejectsInvalid
