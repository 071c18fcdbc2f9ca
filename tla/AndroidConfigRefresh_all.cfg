\* Sessions one after the other, three changes or missed reads of the snapshot.
SPECIFICATION FairSpec
CONSTANTS
    own1 = own1  own2 = own2  cidr = cidr  tsnet = tsnet  other = other
    n1 = n1  n2 = n2  ip1 = ip1  ip2 = ip2
    SuffixRules = {tsnet, other}
    Default = tsnet
    Match = Match
    Names = {n1, n2}
    None = None
    MaxChanges = 3
    Short <- MCShort
    IpOrder <- MCIpOrder
    Fixed <- MCFixed
    UserRules <- MCUserRules
    UserHosts <- MCUserHosts
INVARIANTS TypeOK RefreshIsRegeneration RulesKeepTheirOrder
PROPERTIES EngineFollows
