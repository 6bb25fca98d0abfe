\* Two concurrent requests, two sessions at a time, two invitations in turn.
CONSTANTS
    u1 = u1
    u2 = u2
    t1 = t1
    t2 = t2
    None = None
    Users = {u1, u2}
    MailUsers = {u2}
    Edits <- MCEdits
    Tenants = {t1, t2}
    Members = {1, 2, 3}
    UserOf <- MCUserOf
    TenantOf <- MCTenantOf
    Joining = 3
    Sessions = {s1, s2}
    Invitations = {i1, i2}
    Requests = {r1, r2}
    MaxPassword = 2
SYMMETRY MCSymmetry
SPECIFICATION Spec
CHECK_DEADLOCK FALSE
INVARIANTS
    OldPasswordHasNoSession
    SuspendedHasNoSession
    AlwaysAnOwner
    FenceKeepsOrder
PROPERTY
    InvitationOnce
