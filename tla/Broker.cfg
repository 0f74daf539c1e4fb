SPECIFICATION BrokerFairSpec
CONSTANTS
    Topics = {t1, t2}
    Publishers = {p1, p2}
    MaxSubscriptions = 2
    MaxPublishes = 2
    MaxDepth = 2
INVARIANT OnlyOwed
PROPERTIES OnceAndInOrder EveryoneServed
