SPECIFICATION FairSpec
CONSTANTS
    org = org
    team = team
    lib = lib
    app = app
    copy = copy
    priv = priv
    NoRepo = NoRepo
    NoAccount = NoAccount
    Logins <- TwoLogins
    Repo = {lib, app, copy, priv}
    Lists <- Overlap
    Private = {priv}
    Parent <- ForkOf
    Page = 1
    Providers = {"github"}
    Enumerable = {org, team}
    Renames = {"github"}
    Pasting = {ann}
    NameLists <- AnyOrApp
    ann = ann
    bob = bob
    MaxMoves = 2
    MaxEdits = 0
    MaxFaults = 0

PROPERTIES OthersAreTracked
