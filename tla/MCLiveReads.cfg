\* Two pages of one dashboard, a history of one change and a cache of one answer: both overflow.
\* Two routes read over two passes, two attempts and two syncs while they move twice.
SPECIFICATION SeenSpec
CONSTANTS
    Parts = {"pages", "routes"}
    Page = {1, 2}
    History = 1
    CacheRoom = 1
    MaxWrites = 2
    MaxUpsets = 1
    Route = {1, 2}
    Content = {1, 2}
    RoutePasses = 2
    RouteTries = 2
    Mornings <- MCMornings
    MaxSyncs = 2
    MaxMoves = 2
INVARIANTS
    QuietPagesAreAnnounced
    MealsAreTheDay
PROPERTIES
    AnswersAreCurrent
CHECK_DEADLOCK FALSE
