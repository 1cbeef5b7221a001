SPECIFICATION Spec
CONSTANTS
    a = a
    b = b
    oa = oa
    ob = ob
    Tenants <- MCTenants
    TenantOf <- MCTenantOf
    OwnerOf <- MCOwnerOf
    Users <- MCUsers
    Invitees = {u1, u2}
    Workspaces = {w1, w2}
    Requests = {r1, r2}
    None = None
    MaxSeats = 2
    MaxSpaces = 1
    MaxPasswords = 2
    MaxBegun = 4
SYMMETRY Symmetry
CHECK_DEADLOCK FALSE
INVARIANTS
    TypeOK
    AdminKept
    CredentialsMailed
PROPERTIES
    LastAdminLeavesByRemoval
    LimitsNeedRace
    SecondOrgNeedsRace
