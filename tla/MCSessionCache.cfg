SPECIFICATION FairSpec
CONSTANTS
    Reader = {p1, p2}
    Revoker = {v1}
    TTL = 2
    MaxVersion = 2
INVARIANTS IInv RevokedIsDenied StaleIsBounded
PROPERTIES DeniedRecovers
