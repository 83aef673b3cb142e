SPECIFICATION Spec
CONSTANTS
    none = none  x = x  X = X  y = y  z = z
    ip1 = ip1  me = me
    Name <- MCName
    NoName = none
    Canon <- MCCanon
    BadName = {}
    IPv4 = {ip1}
    IPv6 = {}
    Owner = {NoOwner, me}
    NoOwner = NoOwner
    Section = {s1, s2, s3}
    Absent = Absent
    OwnershipID = me
    Index <- MCIndex
INVARIANT AnswersRight
PROPERTY Ends
CHECK_DEADLOCK FALSE
