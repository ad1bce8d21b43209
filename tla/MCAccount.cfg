CONSTANTS
    Emails = {mail}
    Ids = {i1, i2}
    Uids = {u1}
    Tokens = {t1, t2}
    Senders = {s1}
    Verifiers = {v1}
    Deleters = {x1}
    Janitors = {j1}
    ChallengeTTL = 2
    SessionTTL = 1
    Cooldown = 1
    Fresh = 1
    MaxAttempts = 2
    MaxNow = 1
    Users = {ann}
    Tenants = {}
    Nobody = Nobody
SPECIFICATION EitherSpec
INVARIANTS DeletedIsLockedOut
PROPERTIES DeletionCompletes ImplementsAuthority NothingHangs
