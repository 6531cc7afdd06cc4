SPECIFICATION FairSpec
CONSTANTS
    a = a
    b = b
    p1 = p1
    p2 = p2
    Nil = Nil
    Chain = {1, 2}
    MaxHeight = 4
    Fork = {a, b}
    Parent = {p1, p2}
    ParentOf <- MCParentOf
    Tip <- MCTip
    Mainnet = {p1}
    MaxKept = 2
    MayReorg = {1}
    MayFail = FALSE
INVARIANTS
    TypeOK
    ListsExact
    IndexExact
    AnnouncedOnce
PROPERTIES
    EventuallyClassified
