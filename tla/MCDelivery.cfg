CONSTANTS
    Words <- MCWords
    Fingerprinted <- MCFingerprinted
    Stripped <- MCStripped
    Trees <- MCTrees
    Unreadable <- MCUnreadable
    Page <- Root
    Paths <- MCPaths
    Names <- MCNames
    Accepts <- MCAccepts
    PageAge = 1
    LongAge = 2
    MaxDeploys = 2
    NoPublic = NoPublic
    None = None

SPECIFICATION FairSpec

INVARIANTS
    TypeOK
    CacheIsHonest
    MissingOnlyAfterDeploy
    PagesFound

PROPERTIES
    ShownIsRecent
    VisitorsCatchUp
