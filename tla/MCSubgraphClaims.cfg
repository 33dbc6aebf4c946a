CONSTANTS
    Topics = {t1, t2}
    ClaimTopics = {t1}
    s1 = s1
    s2 = s2
    d1 = d1
    d2 = d2
    Signatures = {s1, s2}
    Data = {d1, d2}
    Issuers = {i1, self}
    Self = self
    None = None
    MaxRevoked = 1
    Decodable <- EncodedBy
SPECIFICATION IndexedClaimSpec
INVARIANTS
    ClaimsByTopicExact
    SchemeIndexFollows
    LiveEntityIsHeld
    VerifiedClaimIsShown
