\* Two processes and one job that dead-letters twice; one process may crash.
CONSTANTS
    j1 = j1
    s1 = s1
    s2 = s2
    Job = {j1}
    Sweeper = {s1, s2}
    NoDelivery = NoDelivery
    MaxDeliveries = 3
    MaxLives = 2
    Unsteady = {s2}
SPECIFICATION FairSpec
INVARIANTS DeliveriesFenced DeliveriesBounded NotifiedTruthfully
PROPERTY EveryLetterDealtWith
