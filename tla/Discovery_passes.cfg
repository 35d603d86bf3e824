SPECIFICATION FairSpec
CONSTANTS
    org = org
    team = team
    lib = lib
    app = app
    copy = copy
    priv = priv
    NoRepo = NoRepo
    NoAccount = NoAccount
    Logins <- TwoLogins
    Repo = {lib, app, copy, priv}
    Lists <- Overlap
    Private = {priv}
    Parent <- ForkOf
    Page = 1
    Providers = {"github", "gitlab", "bitbucket"}
    Enumerable = {org, team}
    Renames = {"gitlab"}
    Pasting = {ann}
    NameLists <- AnyOrApp
    ann = ann
    bob = bob
    MaxMoves = 1
    MaxEdits = 1
    MaxFaults = 1
INVARIANT CountsAreTrue
PROPERTY EventuallyTracked
