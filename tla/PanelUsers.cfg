CONSTANTS
    Users = {u1, u2, u3}
    u1 = u1
    u2 = u2
    u3 = u3
    Admins = {a1, a2}
    a1 = a1
    a2 = a2
    Ids = {1, 2, 3}
    Requests = {1}
    MaxUsers = 2
    MaxOps = 2
    Panels <- Begin
    Worlds <- Chosen
    None = None
SPECIFICATION Spec
CHECK_DEADLOCK FALSE
PROPERTIES PurgedWasGone DeletesOnlyNamed
