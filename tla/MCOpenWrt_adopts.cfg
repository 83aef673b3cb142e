SPECIFICATION SharedSpec
CONSTANTS
    none = none  x = x  X = X  y = y  z = z
    ip1 = ip1  ip6 = ip6
    s1 = s1  s2 = s2  s3 = s3
    me = me  other = other
    Name <- MCName
    NoName = none
    Canon <- MCCanon
    BadName = {}
    IPv4 <- MCIPv4
    IPv6 <- MCIPv6
    Owner <- MCOwner
    NoOwner = NoOwner
    Section = {s1, s2, s3}
    Absent = Absent
    OwnershipID = me
    Session = {a, b}
    NoSession = NoSession
    ChangeSet <- MCFewChangeSets
    Initial <- MCUnmarked
    Handmade <- MCAdopting
PROPERTY ForeignSectionsKept
