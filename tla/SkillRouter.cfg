\* Every prompt over a catalog of three skills and two embedders; the model may
\* name a skill that is on the shortlist of two, one that is not, or none.
CONSTANTS
    Catalog <- MCCatalog
    NoText = ""
    Embedders = 2
    Scores = {0, 1, 2, 3}
    MinScore = 1
    MinMargin = 2
    ShortlistK = 2
    RRFK = 60
    Denominator = 226920
    NameLength <- MCNameLength
    Replies <- MCReplies
SPECIFICATION MatcherSpec
INVARIANTS
    CascadeAgrees
    OverruledInDoubt
    FusedIsPareto
