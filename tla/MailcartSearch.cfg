\* Searches for overlapping texts, in HTML bodies, and over pages and dates.
CONSTANTS
    Lower <- MCLower
    Entities <- MCEntities
    Calendar <- MCCalendar
    Searches <- MCSearches
    Arrivals <- MCArrivals
    MaxArrivals = 1
    RecentTop = 2
    TopFactor = 1
    TopFloor = 2
    ScanFactor = 2
    ScanFloor = 3
SPECIFICATION FairSpec
CHECK_DEADLOCK FALSE
INVARIANTS TypeOK MatcherIsRight ResultsAreWanted ResultsAreInOrder NothingIsMissed
PROPERTIES SearchEnds
