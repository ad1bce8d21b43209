CONSTANTS
    Tenants = {acme}
    own = own
    customer = customer
    Tabs = {t1}
    Accounts = {ann, bob}
    Keys = {own, customer}
    AdminKeys = {own}
    LinkOf <- MCLinkOf
    Managed = {customer}
    Datasets = {d1, d2}
    InitialEntries <- MCInitialEntries
    Calls = {c1, c2}
SPECIFICATION EitherSpec
INVARIANTS ConsoleIsTruthful ButtonsComeBack PageFollowsAccount
PROPERTIES ChangesAreMeant
SYMMETRY Symmetry
