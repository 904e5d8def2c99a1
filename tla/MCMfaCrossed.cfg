SPECIFICATION MfaSpec
CONSTANTS
    MfaRequest = {km1, km2}
    Secret = {ks1}
    NoSecret = NoSecret
INVARIANT
    EnabledHasSecret
