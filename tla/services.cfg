CONSTANTS
    Pair = {a1, a2}
    Triple = {a1, a2, a3}
    Four = {a1, a2, a3, a4}
    Workers = {w1, w2}
    ThreeWorkers = {w1, w2, w3}
    Emails = {"root", "ann"}
    Root = "root"
    MaxIdentities = 2
    Vouchers = {k1}
    LoginLimit = 2
    LockAfter = 2
    MaxCodes = 2
    LongLimit = 2
    ResendLimit = 1
    OrderAmount = 100
    Amounts = {50, 150}
    Conns = {c1, c2}
    Entities = {"brand", "attribute", "product", "variant", "discount", "delivery"}
    Values = {v1, v2}
    MaxVersion = 4
    Shoppers = {"ann", "bob"}
    OrderStatuses = {"pending", "delivered", "completed"}
    Window = 1
    MaxData = 2
    Offered = {1, 2}
    Ranks <- MCRanks
    Affinity <- MCAffinity
    CoViews <- MCCoViews
    Interested <- MCInterested
    Seen <- MCSeen
    FeedRequests <- MCFeedRequests
    MaxVariants = 2
    MaxImages = 2
    Limit = 1
SYMMETRY Symmetric
SPECIFICATION Spec
INVARIANTS
    TypeOK
    AdminsWereAppointed
    ConfirmedPanicOnErrorOnly
    TriesBounded
    CounterEnds
    OldSessionsRaced
    CodeUsesBounded
    BeyondLimitOnlyRaced
    DiscountWithinOrder
    OneDefaultAddress
    CopyIsWishlist
    ClosureIsTree
    ShownCountIsRight
    ConfirmedEditsKept
    ReviewsWereEarned
    TablesGoForward
    FeedsAreSound
    FeedComplete
CHECK_DEADLOCK FALSE
