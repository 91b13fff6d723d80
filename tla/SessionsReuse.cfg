SPECIFICATION Spec
CONSTANTS
    s1 = s1
    s2 = s2
    s3 = s3
    f1 = f1
    r1 = r1
    r2 = r2
    None = None
    Ids = {s1, s2, s3}
    Families = {f1}
    Requests = {r1, r2}
PROPERTY FamilyIsRevoked
CHECK_DEADLOCK FALSE
