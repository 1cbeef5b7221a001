------------------------------- MODULE Members -------------------------------
(***************************************************************************)
(* Who belongs to an organization: its operators (tenant_members) and the  *)
(* members of its workspaces (workspace_members).  Both take a seat of the *)
(* plan.  Requests invite a user, one at a time or as a job of many;       *)
(* change and remove members; create workspaces; and send credentials      *)
(* again.                                                                  *)
(*                                                                         *)
(* Only a change or a removal of a workspace's member is serialized: it    *)
(* locks the workspace's row, for which the insertion of a member has to   *)
(* wait too (its foreign key).  Everything else reads and then writes, in  *)
(* awaited statements of its own.                                          *)
(***************************************************************************)
EXTENDS Integers, FiniteSets

CONSTANTS
    Users,         \* users, by their e-mail
    Invitees,      \* the users that are invited
    Tenants, Workspaces,
    TenantOf,      \* the tenant a workspace is created in
    OwnerOf,       \* the owner of a tenant
    Requests,      \* slots of requests and jobs
    None,          \* no tenant, workspace or user
    MaxSeats,      \* the plan's limits
    MaxSpaces,
    MaxPasswords,  \* bound: the temporary passwords
    MaxBegun       \* bound: the requests

ASSUME MembersAssumption ==
    /\ IsFiniteSet(Users) /\ Invitees \subseteq Users
    /\ TenantOf \in [Workspaces -> Tenants] /\ OwnerOf \in [Tenants -> Users]
    /\ \A t1, t2 \in Tenants : OwnerOf[t1] = OwnerOf[t2] => t1 = t2
    /\ None \notin Users \cup Tenants \cup Workspaces
ASSUME BoundsAssumption ==
    MaxSeats \in Nat /\ MaxSpaces \in Nat /\ MaxPasswords \in Nat /\ MaxBegun \in Nat

VARIABLES
    operator,  \* tenant_members, of which a user has at most one
    space,     \* the workspaces that exist
    member,    \* workspace_members
    password,  \* what users.password_hash is the hash of
    made,      \* how many temporary passwords were made
    mailed,    \* the temporary passwords that were mailed to their user
    begun,     \* how many requests there were
    req,       \* the requests and jobs in flight
    lost       \* users whose credentials went with a crash or to a race (history)

vars == <<operator, space, member, password, made, mailed, begun, req, lost>>
people == <<operator, space, member>>
secrets == <<password, made, mailed>>

-----------------------------------------------------------------------------
\* No account, a temporary password, one the user has chosen.
NoAccount   == 0
Passwords   == 1 .. MaxPasswords
Own         == MaxPasswords + 1

Member      == [role: {"none", "MEMBER", "ADMIN"}, active: BOOLEAN]
Absent      == [role |-> "none", active |-> FALSE]
Operator    == [tenant: Tenants \cup {None}, active: BOOLEAN]
Ops         == {"none", "invite", "bulk", "org", "change", "space", "resend"}
Steps       == {"none", "seats", "room", "queued", "next", "find", "create", "operator",
                "membership", "exists", "insert", "mail", "lock", "check",
                "write", "limit", "account", "reset"}
Request     == [op: Ops, step: Steps, tenant: Tenants \cup {None},
                space: Workspaces \cup {None}, list: SUBSET Users, left: SUBSET Users,
                user: Users \cup {None}, need: 0 .. Cardinality(Users), temp: 0 .. MaxPasswords,
                to: Member, noise: SUBSET {"tenant", "user"}]
Idle        == [op |-> "none", step |-> "none", tenant |-> None, space |-> None, list |-> {},
                left |-> {}, user |-> None, need |-> 0, temp |-> 0, to |-> Absent, noise |-> {}]

Admins(w)       == {u \in Users : member[w][u].role = "ADMIN"}
ActiveAdmins(w) == {u \in Admins(w) : member[w][u].active}
SpacesOf(t)     == {w \in space : TenantOf[w] = t}

\* The users that count for the plan, and the organizations of a user.
Seats(t) == {u \in Users : \/ operator[u] = [tenant |-> t, active |-> TRUE]
                           \/ \E w \in SpacesOf(t) : member[w][u].active}
JoinedBy(u) == {TenantOf[w] : w \in {v \in space : member[v][u].active}}
Orgs(u)     == JoinedBy(u) \cup ({operator[u].tenant} \ {None})

\* A transaction that has locked the row of the workspace is open.
Locked(w) == \E r \in Requests : req[r].space = w /\ req[r].step \in {"check", "write"}

At(r, step)    == req[r].step = step
With(r, step)  == [req[r] EXCEPT !.step = step]
Become(r, q)   == req' = [req EXCEPT ![r] = q]
Goto(r, step)  == Become(r, With(r, step))

\* A slot for one more request.
Free(r) == req[r].op = "none" /\ begun < MaxBegun
Begin(r, q) == begun' = begun + 1 /\ Become(r, q)

\* What u is in t has changed: the other requests are told (history).
Noisy(q, u, t) ==
    IF q.op \in {"change", "resend"} THEN q
    ELSE [q EXCEPT !.noise = @ \cup (IF q.tenant = t THEN {"tenant"} ELSE {})
                                \cup (IF q.user = u THEN {"user"} ELSE {})]
Tell(u, t) == [s \in Requests |-> Noisy(req[s], u, t)]

\* A request is over: a job goes on with the next user of its list.
AfterUser(r) == IF req[r].op = "bulk"
                THEN [req[r] EXCEPT !.step = "next", !.left = @ \ {req[r].user},
                                    !.user = None, !.temp = 0]
                ELSE Idle
\* An await has thrown: a job has one attempt, and then waits for staff to put
\* it back (retryFailedJobs).
Thrown(r) == IF req[r].op = "bulk"
             THEN [req[r] EXCEPT !.step = "queued", !.left = {}, !.user = None, !.temp = 0]
             ELSE Idle

\* The password that only this request knows, if that is why it goes.
Loses(r) == lost' = lost \cup {u \in Users : req[r].temp # 0 /\ password[u] = req[r].temp}

\* Refused, or another request was first.
Refuse(r, q) ==
    /\ Become(r, q)
    /\ IF "user" \in req[r].noise THEN Loses(r) ELSE UNCHANGED lost

-----------------------------------------------------------------------------
\* invite and bulkInvite of a workspace, inviteMember of an organization.
Invite(r, op, t, w, users) ==
    /\ op = "org" <=> w = None
    /\ w # None => w \in space /\ TenantOf[w] = t
    /\ op # "bulk" => Cardinality(users) = 1
    /\ Begin(r, [Idle EXCEPT !.op = op, !.step = "seats", !.tenant = t, !.space = w,
                             !.list = users, !.left = IF op = "bulk" THEN {} ELSE users])
    /\ UNCHANGED <<people, secrets, lost>>

\* Mutant: the seats that are taken, in place of those of the list.
CountBySize(r) ==
    /\ At(r, "seats")
    /\ Become(r, [req[r] EXCEPT !.step = "room", !.need = Cardinality(req[r].list)
                                    - Cardinality(Seats(req[r].tenant))])
    /\ UNCHANGED <<people, secrets, begun, lost>>

\* countNewSeatsForEmails.
CountNewSeats(r) ==
    /\ At(r, "seats")
    /\ Become(r, [req[r] EXCEPT !.step = "room",
                                !.need = Cardinality(req[r].list \ Seats(req[r].tenant))])
    /\ UNCHANGED <<people, secrets, begun, lost>>

\* Mutant: the users to come are not counted.
HasRoomNow(r) == req[r].need = 0 \/ Cardinality(Seats(req[r].tenant)) <= MaxSeats

HasRoom(r) == \/ req[r].need = 0
              \/ Cardinality(Seats(req[r].tenant)) + req[r].need <= MaxSeats

\* assertSeatsAvailable.  A job is queued; an invitation goes on.
AssertSeats(r) ==
    /\ At(r, "room")
    /\ Become(r, IF HasRoom(r)
                 THEN [req[r] EXCEPT !.need = 0,
                                     !.step = IF req[r].op = "bulk" THEN "queued" ELSE "next"]
                 ELSE Idle)
    /\ UNCHANGED <<people, secrets, begun, lost>>

\* The worker takes the job, for the first time or once more.
Take(r) ==
    /\ At(r, "queued")
    /\ Become(r, [req[r] EXCEPT !.step = "next", !.left = req[r].list])
    /\ UNCHANGED <<people, secrets, begun, lost>>

\* The next user of the list: is there such a user?
Find(r) ==
    /\ At(r, "next")
    /\ IF req[r].left = {}
       THEN Become(r, Idle)
       ELSE \E u \in req[r].left :
                Become(r, [req[r] EXCEPT
                    !.step = IF password[u] = NoAccount THEN "create" ELSE "operator",
                    !.user = u, !.noise = @ \ {"user"}])
    /\ UNCHANGED <<people, secrets, begun, lost>>

\* The e-mail is unique: the second of two creations throws.
CreateUser(r) ==
    /\ At(r, "create")
    /\ \/ /\ password[req[r].user] # NoAccount
          /\ Become(r, Thrown(r))
          /\ UNCHANGED secrets
       \/ /\ password[req[r].user] = NoAccount
          /\ made < MaxPasswords
          /\ made' = made + 1
          /\ password' = [password EXCEPT ![req[r].user] = made']
          /\ Become(r, [req[r] EXCEPT !.step = IF req[r].op = "org" THEN "insert" ELSE "exists",
                                      !.temp = made'])
          /\ UNCHANGED mailed
    /\ UNCHANGED <<people, begun, lost>>

\* Mutant: every organization will do.
ElsewhereNever(r, t) == FALSE

\* Another organization: an invitation ends, a job skips the user.
Elsewhere(r, t) == t # req[r].tenant

\* assertUserNotInOtherTenant: first the row of an operator, active or not.
CheckOperator(r) ==
    LET t == operator[req[r].user].tenant IN
    /\ At(r, "operator")
    /\ Become(r, IF t = None THEN With(r, "membership")
                 ELSE IF Elsewhere(r, t) THEN AfterUser(r)
                 ELSE With(r, "exists"))
    /\ UNCHANGED <<people, secrets, begun, lost>>

\* Then the oldest active membership; which that is, is not modelled.
CheckMembership(r) ==
    /\ At(r, "membership")
    /\ \/ JoinedBy(req[r].user) = {} /\ Goto(r, "exists")
       \/ \E t \in JoinedBy(req[r].user) :
              Become(r, IF Elsewhere(r, t) THEN AfterUser(r) ELSE With(r, "exists"))
    /\ UNCHANGED <<people, secrets, begun, lost>>

\* Is there such a row, in any state?
IsThere(r) == IF req[r].op = "org" THEN operator[req[r].user].tenant # None
              ELSE member[req[r].space][req[r].user] # Absent

CheckExists(r) ==
    /\ At(r, "exists")
    /\ IF IsThere(r) THEN Refuse(r, AfterUser(r)) ELSE Goto(r, "insert") /\ UNCHANGED lost
    /\ UNCHANGED <<people, secrets, begun>>

\* The row of a member or an operator is unique; that of a member waits for
\* the lock of the workspace.
Insert(r) ==
    LET u == req[r].user IN
    /\ At(r, "insert") /\ req[r].op # "space"
    /\ \/ IsThere(r) /\ Refuse(r, Thrown(r)) /\ UNCHANGED people
       \/ /\ ~IsThere(r)
          /\ \/ /\ req[r].op = "org"
                /\ operator' = [operator EXCEPT ![u] = [tenant |-> req[r].tenant, active |-> TRUE]]
                /\ UNCHANGED <<space, member>>
             \/ /\ req[r].op # "org" /\ ~Locked(req[r].space)
                /\ \E role \in {"MEMBER", "ADMIN"} :
                       member' = [member EXCEPT ![req[r].space][u] =
                                      [role |-> role, active |-> TRUE]]
                /\ UNCHANGED <<operator, space>>
          /\ req' = [Tell(u, req[r].tenant) EXCEPT ![r] = With(r, "mail")]
          /\ UNCHANGED lost
    /\ UNCHANGED <<secrets, begun>>

\* Mutant: a job sends everyone the note.
MailNote(r) ==
    /\ At(r, "mail")
    /\ mailed' = mailed \cup (IF req[r].op = "bulk" THEN {} ELSE {req[r].temp} \ {0})
    /\ Become(r, AfterUser(r))
    /\ UNCHANGED <<people, password, made, begun, lost>>

\* Credentials to a new user, a note to one who was there.
Mail(r) ==
    /\ At(r, "mail")
    /\ mailed' = mailed \cup ({req[r].temp} \ {0})
    /\ Become(r, AfterUser(r))
    /\ UNCHANGED <<people, password, made, begun, lost>>

-----------------------------------------------------------------------------
\* updateMember and removeMember of a workspace, by an admin or an operator.
Change(r, w, u) ==
    /\ w \in space /\ member[w][u] # Absent
    /\ Begin(r, [Idle EXCEPT !.op = "change", !.step = "lock", !.tenant = TenantOf[w],
                             !.space = w, !.user = u])
    /\ UNCHANGED <<people, secrets, lost>>

\* Mutant: the row is read, not locked.
ReadSpace(r) ==
    /\ At(r, "lock")
    /\ Goto(r, "check")
    /\ UNCHANGED <<people, secrets, begun, lost>>

LockSpace(r) ==
    /\ At(r, "lock") /\ ~Locked(req[r].space)
    /\ Goto(r, "check")
    /\ UNCHANGED <<people, secrets, begun, lost>>

\* Mutant: all of them count every admin.
MayBecomeOfAll(r, to) ==
    LET w == req[r].space  row == member[w][req[r].user] IN
    /\ row # Absent /\ to # row
    /\ row.role = "ADMIN" /\ (to.role # "ADMIN" \/ ~to.active) => Cardinality(Admins(w)) > 1

\* A demotion and a deactivation count the active admins, a removal all.
MayBecome(r, to) ==
    LET w == req[r].space  row == member[w][req[r].user] IN
    /\ row # Absent /\ to # row
    /\ row.role = "ADMIN" /\ to # Absent /\ (to.role = "MEMBER" \/ ~to.active)
           => Cardinality(ActiveAdmins(w)) > 1
    /\ row.role = "ADMIN" /\ to = Absent => Cardinality(Admins(w)) > 1

CheckChange(r) ==
    /\ At(r, "check")
    /\ \/ Become(r, Idle)
       \/ \E to \in {m \in Member : m.role # "none"} \cup {Absent} :
              MayBecome(r, to) /\ Become(r, [req[r] EXCEPT !.step = "write", !.to = to])
    /\ UNCHANGED <<people, secrets, begun, lost>>

WriteChange(r) ==
    /\ At(r, "write")
    /\ member' = [member EXCEPT ![req[r].space][req[r].user] = req[r].to]
    /\ req' = [Tell(req[r].user, req[r].tenant) EXCEPT ![r] = Idle]
    /\ UNCHANGED <<operator, space, secrets, begun, lost>>

\* updateMember of an organization; there is one owner, who stays.
ToggleOperator(u) ==
    LET t == operator[u].tenant IN
    /\ t # None /\ OwnerOf[t] # u /\ begun < MaxBegun
    /\ begun' = begun + 1
    /\ operator' = [operator EXCEPT ![u].active = ~@]
    /\ req' = Tell(u, t)
    /\ UNCHANGED <<space, member, secrets, lost>>

-----------------------------------------------------------------------------
\* create of a workspace, by an active operator.
NewSpace(r, u) ==
    /\ operator[u].active
    /\ \E w \in Workspaces \ space : TenantOf[w] = operator[u].tenant   \* bound
    /\ Begin(r, [Idle EXCEPT !.op = "space", !.step = "limit", !.user = u,
                             !.tenant = operator[u].tenant])
    /\ UNCHANGED <<people, secrets, lost>>

\* Mutant: one more than the plan allows.
AtLimit(r) == Cardinality(SpacesOf(req[r].tenant)) <= MaxSpaces

BelowLimit(r) == Cardinality(SpacesOf(req[r].tenant)) < MaxSpaces

\* assertWorkspaceCreateAllowed.
AssertSpaces(r) ==
    /\ At(r, "limit")
    /\ Become(r, IF BelowLimit(r) THEN With(r, "insert") ELSE Idle)
    /\ UNCHANGED <<people, secrets, begun, lost>>

InsertSpace(r) ==
    /\ At(r, "insert") /\ req[r].op = "space"
    /\ \E w \in Workspaces \ space :
           /\ TenantOf[w] = req[r].tenant
           /\ space' = space \cup {w}
           /\ member' = [member EXCEPT ![w][req[r].user] = [role |-> "ADMIN", active |-> TRUE]]
    /\ req' = [Tell(req[r].user, req[r].tenant) EXCEPT ![r] = Idle]
    /\ UNCHANGED <<operator, secrets, begun, lost>>

-----------------------------------------------------------------------------
\* resendMemberCredentials.
Resend(r, w, u) ==
    /\ w \in space /\ member[w][u] # Absent
    /\ Begin(r, [Idle EXCEPT !.op = "resend", !.step = "account", !.tenant = TenantOf[w],
                             !.space = w, !.user = u])
    /\ UNCHANGED <<people, secrets, lost>>

\* Only as long as the user has not chosen a password.
ReadAccount(r) ==
    /\ At(r, "account")
    /\ Become(r, IF password[req[r].user] \in Passwords THEN With(r, "reset") ELSE Idle)
    /\ UNCHANGED <<people, secrets, begun, lost>>

ResetPassword(r) ==
    /\ At(r, "reset") /\ made < MaxPasswords
    /\ made' = made + 1
    /\ password' = [password EXCEPT ![req[r].user] = made']
    /\ Become(r, [req[r] EXCEPT !.step = "mail", !.temp = made'])
    /\ lost' = lost \ {req[r].user}
    /\ UNCHANGED <<people, mailed, begun>>

\* setInitialPassword, or the reset of a forgotten password.
ChoosePassword(u) ==
    /\ password[u] \in Passwords
    /\ password' = [password EXCEPT ![u] = Own]
    /\ UNCHANGED <<people, made, mailed, begun, req, lost>>

\* The process dies, or the next await throws.
Crash(r) ==
    /\ ~At(r, "none") /\ ~At(r, "queued")
    /\ Become(r, IF At(r, "seats") \/ At(r, "room") THEN Idle ELSE Thrown(r))
    /\ Loses(r)
    /\ UNCHANGED <<people, secrets, begun>>

-----------------------------------------------------------------------------
Init ==
    /\ operator = [u \in Users |->
           IF \E t \in Tenants : OwnerOf[t] = u
           THEN [tenant |-> CHOOSE t \in Tenants : OwnerOf[t] = u, active |-> TRUE]
           ELSE [tenant |-> None, active |-> FALSE]]
    /\ space = {}
    /\ member = [w \in Workspaces |-> [u \in Users |-> Absent]]
    /\ password = [u \in Users |-> IF \E t \in Tenants : OwnerOf[t] = u THEN Own ELSE NoAccount]
    /\ made = 0 /\ mailed = {} /\ begun = 0 /\ lost = {}
    /\ req = [r \in Requests |-> Idle]

Starting(r) ==
    \/ \E op \in {"invite", "bulk", "org"}, t \in Tenants, w \in Workspaces \cup {None},
          users \in (SUBSET Invitees) \ {{}} : Invite(r, op, t, w, users)
    \/ \E w \in Workspaces, u \in Users : Change(r, w, u) \/ Resend(r, w, u)
    \/ \E u \in Users : NewSpace(r, u)

Inviting(r) ==
    \/ CountNewSeats(r) \/ AssertSeats(r) \/ Take(r)
    \/ Find(r) \/ CreateUser(r) \/ CheckOperator(r) \/ CheckMembership(r)
    \/ CheckExists(r) \/ Insert(r) \/ Mail(r)

Changing(r)  == LockSpace(r) \/ CheckChange(r) \/ WriteChange(r)
Creating(r)  == AssertSpaces(r) \/ InsertSpace(r)
Resending(r) == ReadAccount(r) \/ ResetPassword(r)

Next ==
    \/ \E r \in Requests :
           \/ Free(r) /\ Starting(r)
           \/ Inviting(r) \/ Changing(r) \/ Creating(r) \/ Resending(r) \/ Crash(r)
    \/ \E u \in Users : ToggleOperator(u) \/ ChoosePassword(u)

Spec == Init /\ [][Next]_vars

-----------------------------------------------------------------------------
(* Properties.                                                             *)

TypeOK ==
    /\ operator \in [Users -> Operator]
    /\ space \subseteq Workspaces
    /\ member \in [Workspaces -> [Users -> Member]]
    /\ password \in [Users -> NoAccount .. Own]
    /\ made \in 0 .. MaxPasswords
    /\ mailed \subseteq Passwords
    /\ begun \in 0 .. MaxBegun
    /\ req \in [Requests -> Request]
    /\ lost \subseteq Users

\* A workspace never is without an admin, active or not, however demotions
\* and removals of its admins race: updateMember and removeMember count under
\* the lock of the workspace.
AdminKept == \A w \in space : Admins(w) # {}

\* Only a removal leaves a workspace without an active admin: a demotion or a
\* deactivation of updateMember does not.
LastAdminLeavesByRemoval ==
    [][\A w \in space :
           ActiveAdmins(w) # {} /\ ActiveAdmins(w)' = {}
               => \E u \in Users : member[w][u] # Absent /\ member'[w][u] = Absent]_member

\* Request r makes this step.
Moves(r) == req'[r].step # req[r].step

\* The organization t already has a row of u, which need not be active.
\* (Coarser than "made active again": a user with an inactive row who gets a new
\* row, by an invitation into another workspace of t, counts as well.)
Reactivated(u, t) ==
    \/ operator[u].tenant = t
    \/ \E w \in SpacesOf(t) : member[w][u] # Absent

\* No request alone takes an organization over its seats or its workspaces:
\* it takes a change of the organization since the request began, or, for a seat,
\* someone of whom the organization has an inactive row, made active again or
\* invited anew (assertSeatsAvailable, assertWorkspaceCreateAllowed).
LimitsNeedRace ==
    [][\A t \in Tenants :
           /\ \A u \in Seats(t)' \ Seats(t) :
                  Cardinality(Seats(t)') > MaxSeats
                      => \/ Reactivated(u, t)
                         \/ \E r \in Requests : Moves(r) /\ "tenant" \in req[r].noise
           /\ SpacesOf(t)' # SpacesOf(t) /\ Cardinality(SpacesOf(t)') > MaxSpaces
                  => \E r \in Requests : Moves(r) /\ "tenant" \in req[r].noise]_people

\* No invitation alone brings a user into a second organization: the user has
\* to join, or to be changed, while it is on its way; or that organization
\* has an inactive row of the user, who is made active again or invited anew
\* (assertUserNotInOtherTenant).
SecondOrgNeedsRace ==
    [][\A u \in Users : \A t \in Orgs(u)' \ Orgs(u) :
           Orgs(u) # {} => \/ Reactivated(u, t)
                           \/ \E r \in Requests : Moves(r) /\ "user" \in req[r].noise]_people

\* The password of a user who has not chosen one was mailed to them, or is
\* about to be, whatever invitations and resent credentials overtake each
\* other; but for a crash, or another invitation that was first.
CredentialsMailed ==
    \A u \in Users :
        password[u] \in Passwords
            => \/ password[u] \in mailed \/ u \in lost
               \/ \E r \in Requests : req[r].user = u /\ req[r].temp = password[u]

\* What docs/specs/tenants.md says of organizations, and the message of
\* removeMember of admins; neither holds.
OneOrganization == \A u \in Users : Cardinality(Orgs(u)) <= 1
ActiveAdminKept == \A w \in space : ActiveAdmins(w) # {}
==============================================================================
