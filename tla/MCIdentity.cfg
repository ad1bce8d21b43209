\* Once the only account is deleted nothing more happens: no deadlock check.
CONSTANTS
    ann = ann
    acme = acme
    Emails = {mail}
    Ids = {i1, i2}
    Uids = {u1}
    Tokens = {t1, t2}
    Senders = {s1, s2}
    Verifiers = {v1, v2}
    Deleters = {}
    Janitors = {}
    ChallengeTTL = 2
    SessionTTL = 3
    Cooldown = 1
    Fresh = 2
    MaxAttempts = 2
    MaxNow = 2
    Users = {ann}
    Sessions = {s1, s2}
    UserOf <- MCUserOf
    Keys = {v1, v2}
    Tenants = {acme}
    TenantOf <- MCTenantOf
    Boxes = {b1, b2, b3}
    Linkers = {l1, l2}
    Forwarders = {f1}
SPECIFICATION EitherSpec
SYMMETRY Symmetry
CHECK_DEADLOCK FALSE
INVARIANTS SessionsAreProven
PROPERTIES ConnectionHolds
