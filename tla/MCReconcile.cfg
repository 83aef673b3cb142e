SPECIFICATION FairLoopSpec
CONSTANTS
    none = none  x = x  X = X  y = y  w = w
    ip1 = ip1  ip2 = ip2  ip6 = ip6
    s1 = s1  s2 = s2
    me = me  other = other
    Name <- MCName
    NoName = none
    Canon <- MCCanon
    BadName <- MCBadName
    IPv4 <- MCIPv4
    IPv6 <- MCIPv6
    Owner <- MCOwner
    NoOwner = NoOwner
    Section = {s1, s2, s3, s4, s5, s6}
    Absent = Absent
    OwnershipID = me
    Session = {a, b}
    NoSession = NoSession
    ChangeSet <- MCChangeSet
    Initial <- MCInitial
    Handmade <- MCHandmade
    Wildcard <- MCWildcard
    OtherType <- MCOtherType
    Desired <- MCDesired
    MaxTrouble = 2
INVARIANT LoopTypeOK
INVARIANT NeverJams
PROPERTY Converges
PROPERTY AddsReplaceNothing
