SPECIFICATION EitherSpec
CONSTANTS
    all = all
    crypto = crypto
    Filters = {all, crypto}
    AllPapers = all
    LastPage <- MCLastPage
    Sections = {overview, keys}
    Overview = overview
    Selections = {plan}
    MaxEntries = 3
    MaxY = 1
    Users = {ann, bob}
    Tenants = {desk, fund}
    Nobody = Nobody
    Keys = {k, l}
    MaxLibrary = 1
    MaxImport = 2
    Mails = {home, work}
    MaxChallenges = 2
INVARIANTS PageMatchesAddress CatalogFollowsAccount CodesGoWithTheirChallenge
PROPERTIES ReaderIsBroughtBack LibrariesKeepApart
SYMMETRY Symmetry
