SPECIFICATION Spec
CONSTANTS
    Parts = {"parse", "pool", "prepare", "engine", "colo"}
    w1 = w1
    w2 = w2
    NoLine = NoLine
    NoLookup = NoLookup
    Broken = Broken
    Empty = Empty
    Absent = Absent
    Singles = {"ip1", "ip2", "ip3"}
    Blocks = {"net"}
    Domains = {"d1", "d2", "gone"}
    Resolved <- MCResolved
    Lines <- MCLines
    ParseLimit = 3
    LookupBudget = 2
    MaxLines = 3
    Tokens = {"a0", "a1", "quad", "six", "six63"}
    AddressesOf <- MCMembers
    Key <- MCKey
    Sub <- MCSub
    PoolLimit = 3
    ParseFactor = 2
    Limits <- MCLimits
    MaxTokens = 3
    NSources = 3
    Ips = {1, 2}
    Readings <- MCReadings
    Concurrency = 2
    MaxUrls = 2
INVARIANTS
    ParseSafe PoolSafe  SearchSafe DictionarySafe
PROPERTIES
    DictionaryKept
CHECK_DEADLOCK FALSE
