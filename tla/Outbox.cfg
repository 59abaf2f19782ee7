\* Two producers over two ids, two relayers, both kinds of database.
CONSTANTS
    e1 = e1
    e2 = e2
    a = a
    b = b
    s1 = s1
    r1 = r1
    r2 = r2
    p1 = p1
    p2 = p2
    Producer = {p1, p2}
    Event = {e1, e2}
    Content = {a, b}
    Plans <- MCPlans
    Subscriber = {s1}
    Relayer = {r1, r2}
    Known <- MCKnown
    Databases <- MCDatabases
    Nothing = Nothing
    MaxRows = 2
SPECIFICATION FairSpec
INVARIANTS FannedOutOnce IdsFaithful
PROPERTY EveryEventDelivered
CHECK_DEADLOCK FALSE
