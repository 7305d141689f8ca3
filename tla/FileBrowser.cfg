SPECIFICATION ViewFairSpec
CONSTANTS
    top = top
    sub = sub
    alias = alias
    e1 = e1
    e2 = e2
    Slugs = {x, y}
    PreviewShares = {x}
    Folders <- MCFolders
    Files <- MCFiles
    TextFiles <- MCFiles
    Parent <- MCParent
    Pages <- MCPages
    Canonical <- MCCanonical
    Null = Null
    MaxLoads = 2
    MaxCalls <- MCMaxCalls
CHECK_DEADLOCK FALSE
INVARIANTS ViewTypeOK ShowsRequested ListingWhole PreviewShowsEntry
PROPERTY LoadsEnd
