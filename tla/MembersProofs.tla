----------------------------- MODULE MembersProofs -----------------------------
(***************************************************************************)
(* A workspace keeps an admin, only a removal takes its last active one,   *)
(* a temporary password is mailed or lost for a reason, and it takes a     *)
(* race to pass the limits of the plan or to be in two organizations, for  *)
(* any users, workspaces and requests.                                     *)
(*                                                                         *)
(* What a change has found under the lock of the workspace is still true   *)
(* when it writes; a password is only known to the request that made it,   *)
(* which no other can keep from its mail without being noticed; and what   *)
(* an invitation has read of seats, workspaces and its user still holds    *)
(* when it inserts, unless it was told otherwise.                          *)
(***************************************************************************)
EXTENDS Members, FiniteSetTheorems, TLAPS

Invitations == {"invite", "bulk", "org"}
Early       == {"seats", "room", "queued", "next"}
Holding     == {"check", "write"}
StepsOf(op) ==
    CASE op = "none"   -> {"none"}
      [] op = "change" -> {"lock"} \cup Holding
      [] op = "space"  -> {"limit", "insert"}
      [] op = "resend" -> {"account", "reset", "mail"}
      [] OTHER         -> Early \cup {"create", "operator", "membership",
                                      "exists", "insert", "mail"}

Joined(u) == operator[u].tenant # None \/ \E w \in Workspaces : member[w][u] # Absent

\* What the step of a request shows of its user, its password and its space.
RequestOK(q) ==
    /\ q.step \in StepsOf(q.op)
    /\ q.step \notin Early \cup {"none"} => q.user \in Users
    /\ q.step \notin Early \cup {"none", "create"} => password[q.user] # NoAccount
    /\ q.temp # 0 => q.step \in {"exists", "insert", "mail"} /\ q.op # "space"
    /\ q.temp # 0 /\ q.step \in {"exists", "insert"} /\ "user" \notin q.noise => ~Joined(q.user)
    /\ q.op \in {"invite", "bulk", "change"} => q.space \in space

RequestsOK == \A r \in Requests : RequestOK(req[r])

\* The lock holds, and with it what was found under it.
Exclusive ==
    \A r, s \in Requests :
        req[r].step \in Holding /\ req[s].step \in Holding /\ req[r].space = req[s].space => r = s
WritesOK ==
    \A r \in Requests :
        req[r].step = "write" => /\ MayBecome(r, req[r].to)
                                 /\ req[r].to.role # "none" \/ req[r].to = Absent

\* Who belongs anywhere has an account.
AccountsOK == \A u \in Users : Joined(u) => password[u] # NoAccount

IInv == /\ TypeOK /\ RequestsOK /\ Exclusive /\ WritesOK /\ AccountsOK
        /\ AdminKept /\ CredentialsMailed

-----------------------------------------------------------------------------
(* Users and requests.                                                     *)

LEMMA FiniteUsers ==
    ASSUME NEW S \in SUBSET Users
    PROVE  IsFiniteSet(S) /\ Cardinality(S) \in 0 .. Cardinality(Users)
BY MembersAssumption, FS_Subset, FS_CardinalityType

\* Among more than one there is another.
LEMMA Another ==
    ASSUME NEW S \in SUBSET Users, NEW u, Cardinality(S) > 1
    PROVE  \E v \in S : v # u
<1>1. IsFiniteSet({u}) /\ Cardinality({u}) = 1
  BY FS_Singleton
<1>2. S \subseteq {u} => Cardinality(S) <= 1
  BY <1>1, FS_Subset
<1>3. Cardinality(S) \in Int
  BY FiniteUsers
<1> QED
  BY <1>2, <1>3

LEMMA IdleTyped == Idle \in Request /\ Absent \in Member
BY BoundsAssumption, FiniteUsers DEF Idle, Request, Ops, Steps, Absent, Member

LEMMA IdleOK == RequestOK(Idle)
BY DEF RequestOK, Idle, StepsOf, Early

\* Two requests that differ in what has been noticed.
Like(p, q) ==
    /\ p.op = q.op /\ p.step = q.step /\ p.user = q.user /\ p.temp = q.temp
    /\ p.space = q.space /\ p.to = q.to /\ q.noise \subseteq p.noise

LEMMA Told ==
    ASSUME TypeOK, NEW u, NEW t, NEW s \in Requests
    PROVE  /\ Noisy(req[s], u, t) \in Request
           /\ Like(Noisy(req[s], u, t), req[s])
           /\ req[s].op \notin {"change", "resend"} /\ req[s].user = u
                  => "user" \in Noisy(req[s], u, t).noise
<1>1. req[s] \in Request
  BY DEF TypeOK
<1>2. CASE req[s].op \in {"change", "resend"}
  BY <1>1, <1>2 DEF Noisy, Like
<1>3. CASE req[s].op \notin {"change", "resend"}
  <2> DEFINE more == (IF req[s].tenant = t THEN {"tenant"} ELSE {})
                        \cup (IF req[s].user = u THEN {"user"} ELSE {})
  <2>1. Noisy(req[s], u, t) = [req[s] EXCEPT !.noise = req[s].noise \cup more]
    BY <1>3 DEF Noisy
  <2>2. req[s].noise \cup more \in SUBSET {"tenant", "user"}
    BY <1>1 DEF Request
  <2>3. req[s].user = u => "user" \in more
    OBVIOUS
  <2> HIDE DEF more
  <2> QED
    BY <1>1, <2>1, <2>2, <2>3 DEF Request, Like
<1> QED
  BY <1>2, <1>3

-----------------------------------------------------------------------------
(* What a step keeps of the requests it is not about.                      *)

\* Request r becomes q, and the others notice what they notice.
Stepped(r, q) ==
    /\ req'[r] = q /\ DOMAIN req' = Requests
    /\ \A s \in Requests \ {r} : req'[s] \in Request /\ Like(req'[s], req[s])

\* Accounts and spaces stay.
Onwards ==
    /\ \A u \in Users : password[u] # NoAccount => password'[u] # NoAccount
    /\ space \subseteq space'

\* Who joins is noticed.
Noticed(r) ==
    \A s \in Requests \ {r} :
        /\ req[s].user \in Users /\ Joined(req[s].user)' /\ ~Joined(req[s].user)
        /\ req[s].op \notin {"change", "resend"}
        => "user" \in req'[s].noise

LEMMA BecomeSteps ==
    ASSUME TypeOK, NEW r \in Requests, NEW q, Become(r, q)
    PROVE  Stepped(r, q)
BY DEF TypeOK, Become, Stepped, Like

LEMMA RequestsKept ==
    ASSUME IInv, NEW r \in Requests, NEW q, Stepped(r, q), Onwards, Noticed(r), RequestOK(q)'
    PROVE  RequestsOK'
<1> SUFFICES ASSUME NEW s \in Requests, s # r PROVE RequestOK(req[s])'
  BY DEF RequestsOK, Stepped
<1>1. RequestOK(req[s]) /\ Like(req'[s], req[s])
  BY DEF IInv, RequestsOK, Stepped
<1>2. req[s].temp # 0 /\ req[s].step \in {"exists", "insert"}
         => req[s].op \notin {"change", "resend"} /\ req[s].user \in Users
  BY <1>1 DEF RequestOK, StepsOf, Early, Holding
<1>3. /\ req'[s].temp # 0 /\ req'[s].step \in {"exists", "insert"} /\ "user" \notin req'[s].noise
      => ~Joined(req[s].user)'
  BY <1>1, <1>2 DEF RequestOK, Like, Noticed
<1> QED
  BY <1>1, <1>3 DEF RequestOK, Like, Onwards, Early

\* Who knows a password still knows it, has mailed it or has lost it.
LEMMA MailedKept ==
    ASSUME IInv, NEW r \in Requests, NEW q, Stepped(r, q),
           NEW u \in Users, password'[u] = password[u], mailed \subseteq mailed',
           u \in lost => u \in lost',
           req[r].temp # 0 /\ req[r].user = u /\ req[r].temp = password[u]
               => \/ q.user = u /\ q.temp = req[r].temp
                  \/ req[r].temp \in mailed' \/ u \in lost',
           password'[u] \in Passwords
    PROVE  \/ password'[u] \in mailed' \/ u \in lost'
           \/ \E s \in Requests : req'[s].user = u /\ req'[s].temp = password'[u]
<1>1. password[u] # 0
  BY DEF Passwords
<1>2. \/ password[u] \in mailed \/ u \in lost
      \/ \E s \in Requests : req[s].user = u /\ req[s].temp = password[u]
  BY DEF IInv, CredentialsMailed
<1> QED
  BY <1>1, <1>2 DEF Stepped, Like

-----------------------------------------------------------------------------
(* Steps that change nobody: only a request goes on.                       *)

\* The request that goes on keeps the password it knows, or says where it is.
Remembers(r, q) ==
    \A u \in Users : req[r].temp # 0 /\ req[r].user = u /\ req[r].temp = password[u]
        => \/ q.user = u /\ q.temp = req[r].temp
           \/ req[r].temp \in mailed' \/ u \in lost'

LEMMA GoesOn ==
    ASSUME IInv, NEW r \in Requests, NEW q \in Request, Become(r, q), RequestOK(q),
           UNCHANGED <<people, password, made>>, Remembers(r, q),
           mailed \subseteq mailed', mailed' \subseteq Passwords,
           lost \subseteq lost', lost' \subseteq Users, begun' \in 0 .. MaxBegun
    PROVE  TypeOK' /\ RequestsOK' /\ AccountsOK' /\ AdminKept' /\ CredentialsMailed'
<1>1. Stepped(r, q)
  BY BecomeSteps DEF IInv
<1>2. TypeOK'
  BY DEF IInv, TypeOK, Become, people
<1>3. Onwards /\ RequestOK(q)'
  BY DEF Onwards, people, RequestOK, Joined
<1>4. RequestsOK'
  <2>1. Noticed(r)
    BY <1>1 DEF Noticed, Stepped, Like, people, Joined
  <2> QED
    BY <1>1, <1>3, <2>1, RequestsKept
<1>5. AccountsOK' /\ AdminKept'
  BY DEF IInv, AccountsOK, Joined, AdminKept, Admins, people
<1>6. CredentialsMailed'
  BY <1>1, MailedKept DEF CredentialsMailed, Remembers
<1> QED
  BY <1>2, <1>4, <1>5, <1>6

\* Requests outside of a lock do not disturb those that hold it.
LEMMA LocksKept ==
    ASSUME IInv, NEW r \in Requests, NEW q, Stepped(r, q), q.step \notin Holding,
           \A s \in Requests \ {r} : req[s].step = "write"
               => member'[req[s].space] = member[req[s].space]
    PROVE  Exclusive' /\ WritesOK'
<1>1. Exclusive'
  BY DEF IInv, Exclusive, Stepped, Like
<1>2. WritesOK'
  <2> SUFFICES ASSUME NEW s \in Requests, req'[s].step = "write"
               PROVE  MayBecome(s, req[s].to)' /\ (req'[s].to.role # "none" \/ req'[s].to = Absent)
    BY DEF WritesOK
  <2>1. s # r /\ Like(req'[s], req[s]) /\ req[s].step = "write"
    BY DEF Stepped, Like, Holding
  <2>2. MayBecome(s, req[s].to) /\ (req[s].to.role # "none" \/ req[s].to = Absent)
    BY <2>1 DEF IInv, WritesOK
  <2>3. member'[req'[s].space] = member[req[s].space]
    BY <2>1 DEF Like
  <2> QED
    BY <2>1, <2>2, <2>3 DEF MayBecome, Admins, ActiveAdmins, Like
<1> QED
  BY <1>1, <1>2

LEMMA Quiet ==
    ASSUME IInv, NEW r \in Requests, NEW q \in Request, Become(r, q), RequestOK(q),
           q.step \notin Holding, UNCHANGED <<people, password, made>>, Remembers(r, q),
           mailed \subseteq mailed', mailed' \subseteq Passwords,
           lost \subseteq lost', lost' \subseteq Users, begun' \in 0 .. MaxBegun
    PROVE  IInv'
<1>1. Stepped(r, q)
  BY BecomeSteps DEF IInv
<1>2. Exclusive' /\ WritesOK'
  BY <1>1, LocksKept DEF people
<1> QED
  BY <1>2, GoesOn DEF IInv

-----------------------------------------------------------------------------
(* Invitations.                                                            *)

\* A request that is on its way.
LEMMA Going ==
    ASSUME IInv, NEW r \in Requests
    PROVE  req[r] \in Request /\ RequestOK(req[r])
BY DEF IInv, TypeOK, RequestsOK

\* A request that has just begun, in a slot that was free.
LEMMA KeepsBegin ==
    ASSUME IInv, NEW r \in Requests, NEW q \in Request, Free(r), Begin(r, q),
           RequestOK(q), q.step \notin Holding, UNCHANGED <<people, secrets, lost>>
    PROVE  IInv'
<1>1. begun' \in 0 .. MaxBegun
  BY BoundsAssumption DEF IInv, TypeOK, Free, Begin
<1>2. req[r].temp = 0
  BY Going DEF Free, RequestOK, StepsOf
<1>3. Remembers(r, q)
  BY <1>2 DEF Remembers
<1> QED
  BY <1>1, <1>3, Quiet DEF Begin, secrets, IInv, TypeOK

LEMMA KeepsInvite ==
    ASSUME IInv, NEW r \in Requests, NEW op \in Invitations, NEW t \in Tenants,
           NEW w \in Workspaces \cup {None}, NEW users \in SUBSET Invitees,
           Free(r), Invite(r, op, t, w, users)
    PROVE  IInv'
<1> DEFINE q == [Idle EXCEPT !.op = op, !.step = "seats", !.tenant = t, !.space = w,
                             !.list = users, !.left = IF op = "bulk" THEN {} ELSE users]
<1>1. q \in Request
  BY IdleTyped, MembersAssumption DEF Request, Ops, Steps, Invitations
<1>2. q.op = op /\ q.step = "seats" /\ q.temp = 0
  BY DEF Idle
<1>3. Begin(r, q) /\ UNCHANGED <<people, secrets, lost>>
  BY DEF Invite
<1>4. RequestOK(q) /\ q.step \notin Holding
  <2>1. q.space = w
    BY DEF Idle
  <2>2. op \in {"invite", "bulk"} => w \in space
    BY DEF Invite
  <2> QED
    BY <1>2, <2>1, <2>2 DEF RequestOK, StepsOf, Early, Invitations, Holding
<1> HIDE DEF q
<1> QED
  BY <1>1, <1>3, <1>4, KeepsBegin

\* A request that knows no password goes on to an early step.
LEMMA EarlyOn ==
    ASSUME IInv, NEW r \in Requests, NEW q \in Request, Become(r, q),
           \/ /\ q.op = req[r].op /\ q.op \in Invitations /\ q.step \in Early
              /\ q.space = req[r].space
           \/ q = Idle,
           req[r].temp = 0, q.temp = 0, UNCHANGED <<people, secrets, begun, lost>>
    PROVE  IInv'
<1>1. RequestOK(q) /\ q.step \notin Holding
  BY IdleOK, Going DEF RequestOK, StepsOf, Early, Invitations, Holding, Idle
<1>2. Remembers(r, q)
  BY DEF Remembers
<1> QED
  BY <1>1, <1>2, Quiet DEF secrets, IInv, TypeOK

\* What an early step shows.
LEMMA EarlyStep ==
    ASSUME IInv, NEW r \in Requests, req[r].step \in Early
    PROVE  req[r].temp = 0 /\ req[r].op \in Invitations
<1>1. req[r] \in Request /\ RequestOK(req[r])
  BY Going
<1> QED
  BY <1>1 DEF RequestOK, StepsOf, Early, Invitations, Holding, Request, Ops

LEMMA KeepsCountNewSeats ==
    ASSUME IInv, NEW r \in Requests, CountNewSeats(r)
    PROVE  IInv'
<1> DEFINE n == Cardinality(req[r].list \ Seats(req[r].tenant))
           q == [req[r] EXCEPT !.step = "room", !.need = n]
<1>1. req[r] \in Request /\ req[r].temp = 0 /\ req[r].op \in Invitations
  BY Going, EarlyStep DEF CountNewSeats, At, Early
<1>2. n \in 0 .. Cardinality(Users)
  <2>1. req[r].list \ Seats(req[r].tenant) \in SUBSET Users
    BY <1>1 DEF Request
  <2> QED
    BY <2>1, FiniteUsers
<1>3. Become(r, q) /\ UNCHANGED <<people, secrets, begun, lost>>
  BY DEF CountNewSeats
<1> HIDE DEF n
<1>4. /\ q \in Request /\ q.op = req[r].op /\ q.step = "room" /\ q.temp = 0
      /\ q.space = req[r].space
  BY <1>1, <1>2 DEF Request, Steps
<1> HIDE DEF q
<1> QED
  BY <1>1, <1>3, <1>4, EarlyOn DEF Early

LEMMA KeepsAssertSeats ==
    ASSUME IInv, NEW r \in Requests, AssertSeats(r)
    PROVE  IInv'
<1>1. req[r] \in Request /\ req[r].temp = 0 /\ req[r].op \in Invitations
  BY Going, EarlyStep DEF AssertSeats, At, Early
<1> DEFINE s == IF req[r].op = "bulk" THEN "queued" ELSE "next"
           q == [req[r] EXCEPT !.need = 0, !.step = s]
<1>2. /\ q \in Request /\ q.op = req[r].op /\ q.step \in Early /\ q.temp = 0
      /\ q.space = req[r].space
  <2>1. 0 \in 0 .. Cardinality(Users)
    BY FiniteUsers
  <2>2. s \in Steps /\ s \in Early
    BY DEF Steps, Early
  <2> HIDE DEF s
  <2> QED
    BY <1>1, <2>1, <2>2 DEF Request
<1>3. Become(r, q) \/ Become(r, Idle)
  BY DEF AssertSeats
<1>4. UNCHANGED <<people, secrets, begun, lost>>
  BY DEF AssertSeats
<1> HIDE DEF q
<1> QED
  BY <1>1, <1>2, <1>3, <1>4, IdleTyped, EarlyOn DEF Idle

LEMMA KeepsTake ==
    ASSUME IInv, NEW r \in Requests, Take(r)
    PROVE  IInv'
<1> DEFINE q == [req[r] EXCEPT !.step = "next", !.left = req[r].list]
<1>1. req[r] \in Request /\ req[r].temp = 0 /\ req[r].op \in Invitations
  BY Going, EarlyStep DEF Take, At, Early
<1>2. /\ q \in Request /\ q.op = req[r].op /\ q.step = "next" /\ q.temp = 0
      /\ q.space = req[r].space
  BY <1>1 DEF Request, Steps
<1>3. Become(r, q) /\ UNCHANGED <<people, secrets, begun, lost>>
  BY DEF Take
<1> HIDE DEF q
<1> QED
  BY <1>1, <1>2, <1>3, EarlyOn DEF Early

LEMMA KeepsFind ==
    ASSUME IInv, NEW r \in Requests, Find(r)
    PROVE  IInv'
<1>1. req[r] \in Request /\ req[r].temp = 0 /\ req[r].op \in Invitations
  BY Going, EarlyStep DEF Find, At, Early
<1>2. UNCHANGED <<people, secrets, begun, lost>>
  BY DEF Find
<1>3. CASE Become(r, Idle)
  BY <1>1, <1>2, <1>3, IdleTyped, EarlyOn DEF Idle
<1>4. ASSUME NEW u \in req[r].left, NEW q,
             q = [req[r] EXCEPT
                     !.step = IF password[u] = NoAccount THEN "create" ELSE "operator",
                     !.user = u, !.noise = req[r].noise \ {"user"}],
             Become(r, q)
      PROVE  IInv'
  <2>1. /\ q \in Request /\ q.op = req[r].op /\ q.user = u /\ q.temp = 0 /\ u \in Users
        /\ q.space = req[r].space
        /\ q.step = IF password[u] = NoAccount THEN "create" ELSE "operator"
    BY <1>1, <1>4 DEF Request, Steps
  <2>2. RequestOK(q) /\ q.step \notin Holding
    BY <1>1, <2>1, Going DEF RequestOK, StepsOf, Invitations, Early, Holding
  <2>3. Remembers(r, q)
    BY <1>1 DEF Remembers
  <2> QED
    BY <1>2, <1>4, <2>1, <2>2, <2>3, Quiet DEF secrets, IInv, TypeOK
<1> QED
  BY <1>3, <1>4 DEF Find

\* A request that is over, or has thrown.
LEMMA Over ==
    ASSUME IInv, NEW r \in Requests, NEW q \in {AfterUser(r), Thrown(r), Idle}
    PROVE  q \in Request /\ RequestOK(q) /\ q.step \notin Holding /\ q.temp = 0
<1>1. req[r] \in Request
  BY Going
<1>2. CASE q = Idle
  BY <1>2, IdleTyped, IdleOK DEF Idle, Holding
<1>3. CASE q # Idle
  <2>1. req[r].op = "bulk"
    BY <1>3 DEF AfterUser, Thrown
  <2>2. \E s \in {"next", "queued"}, left \in SUBSET Users :
            q = [req[r] EXCEPT !.step = s, !.left = left, !.user = None, !.temp = 0]
    <3>1. req[r].left \ {req[r].user} \in SUBSET Users /\ {} \in SUBSET Users
      BY <1>1 DEF Request
    <3> QED
      BY <1>3, <2>1, <3>1 DEF AfterUser, Thrown
  <2>3. 0 \in 0 .. MaxPasswords
    BY BoundsAssumption
  <2>4. /\ q \in Request /\ q.op = "bulk" /\ q.step \in {"next", "queued"} /\ q.temp = 0
        /\ q.space = req[r].space
    BY <1>1, <2>1, <2>2, <2>3 DEF Request, Steps
  <2>5. q.space \in space
    BY <2>1, <2>4, Going DEF RequestOK
  <2> QED
    BY <2>4, <2>5 DEF RequestOK, StepsOf, Early, Holding
<1> QED
  BY <1>2, <1>3

\* A request that ends and knows no password, or says where it is.
LEMMA KeepsOver ==
    ASSUME IInv, NEW r \in Requests, NEW q \in {AfterUser(r), Thrown(r), Idle}, Become(r, q),
           UNCHANGED <<people, secrets, begun>>, lost \subseteq lost', lost' \subseteq Users,
           Remembers(r, q)
    PROVE  IInv'
<1>1. q \in Request /\ RequestOK(q) /\ q.step \notin Holding
  BY Over
<1> QED
  BY <1>1, Quiet DEF secrets, IInv, TypeOK

\* A request that goes on to another step with what it knows.
LEMMA KeepsGoto ==
    ASSUME IInv, NEW r \in Requests, NEW s \in Steps, Goto(r, s), s \notin Holding,
           s \in StepsOf(req[r].op), req[r].step \notin Early \cup {"none", "create"},
           req[r].temp # 0 => s \in {"exists", "insert", "mail"},
           req[r].temp # 0 => req[r].step \in {"exists", "insert"},
           UNCHANGED <<people, secrets, begun, lost>>
    PROVE  IInv'
<1> DEFINE q == [req[r] EXCEPT !.step = s]
<1>1. req[r] \in Request /\ RequestOK(req[r])
  BY Going
<1>2. /\ q \in Request /\ q.step = s /\ q.op = req[r].op /\ q.user = req[r].user
      /\ q.temp = req[r].temp /\ q.noise = req[r].noise /\ q.space = req[r].space
  BY <1>1 DEF Request
<1>3. Become(r, q)
  BY DEF Goto, With
<1> HIDE DEF q
<1>4. RequestOK(q)
  BY <1>1, <1>2 DEF RequestOK, Early
<1>5. Remembers(r, q)
  BY <1>2 DEF Remembers
<1> QED
  BY <1>2, <1>3, <1>4, <1>5, Quiet DEF secrets, IInv, TypeOK

\* What the steps of an invitation show after its user was found.
LEMMA LateStep ==
    ASSUME IInv, NEW r \in Requests,
           req[r].step \in {"create", "operator", "membership", "exists"}
    PROVE  /\ req[r].op \in Invitations /\ req[r].user \in Users
           /\ req[r].step # "exists" => req[r].temp = 0
           /\ req[r].step # "create" => password[req[r].user] # NoAccount
<1>1. req[r] \in Request /\ RequestOK(req[r])
  BY Going
<1> QED
  BY <1>1 DEF RequestOK, StepsOf, Early, Invitations, Holding, Request, Ops

LEMMA KeepsCheckOperator ==
    ASSUME IInv, NEW r \in Requests, CheckOperator(r) \/ CheckMembership(r)
    PROVE  IInv'
<1>1. /\ req[r].op \in Invitations /\ req[r].step \in {"operator", "membership"}
      /\ req[r].temp = 0
  BY LateStep DEF CheckOperator, CheckMembership, At
<1>2. UNCHANGED <<people, secrets, begun, lost>>
  BY DEF CheckOperator, CheckMembership
<1>3. \/ Become(r, AfterUser(r)) \/ Goto(r, "membership") \/ Goto(r, "exists")
  BY DEF CheckOperator, CheckMembership, Goto
<1>4. CASE Become(r, AfterUser(r))
  BY <1>1, <1>2, <1>4, KeepsOver DEF Remembers, IInv, TypeOK
<1>5. ASSUME NEW s \in {"membership", "exists"}, Goto(r, s)
      PROVE  IInv'
  <2>1. s \in Steps /\ s \notin Holding /\ s \in StepsOf(req[r].op)
    BY <1>1, <1>5 DEF Steps, Holding, StepsOf, Invitations
  <2> QED
    BY <1>1, <1>2, <1>5, <2>1, KeepsGoto DEF Early
<1> QED
  BY <1>3, <1>4, <1>5

\* A request that is refused loses no password that it does not say it has lost:
\* the user of a password nobody else has noticed has joined nothing.
LEMMA KeepsRefuse ==
    ASSUME IInv, NEW r \in Requests, req[r].step \in {"exists", "insert"}, req[r].op # "space",
           IsThere(r), NEW q \in {AfterUser(r), Thrown(r)}, Refuse(r, q),
           UNCHANGED <<people, secrets, begun>>
    PROVE  IInv'
<1>1. req[r] \in Request /\ RequestOK(req[r])
  BY Going
<1>2. Joined(req[r].user)
  <2>1. req[r].op = "org" \/ req[r].space \in Workspaces
    BY <1>1 DEF RequestOK, StepsOf, Holding, Request, Ops, IInv, TypeOK
  <2> QED
    BY <1>1, <2>1 DEF IsThere, Joined, RequestOK, Early
<1>3. req[r].temp # 0 => "user" \in req[r].noise
  BY <1>1, <1>2 DEF RequestOK
<1>4. lost \subseteq lost' /\ lost' \subseteq Users
  BY DEF Refuse, Loses, IInv, TypeOK
<1>5. Remembers(r, q)
  BY <1>3 DEF Remembers, Refuse, Loses
<1> QED
  BY <1>4, <1>5, KeepsOver DEF Refuse

\* An account is made, and only this request knows its password.
LEMMA KeepsCreateUser ==
    ASSUME IInv, NEW r \in Requests, CreateUser(r)
    PROVE  IInv'
<1>1. req[r] \in Request /\ RequestOK(req[r]) /\ req[r].step = "create"
  BY Going DEF CreateUser, At
<1>2. req[r].op \in Invitations /\ req[r].user \in Users /\ req[r].temp = 0
  BY <1>1, LateStep
<1>3. UNCHANGED <<people, begun, lost>>
  BY DEF CreateUser
<1>4. CASE Become(r, Thrown(r)) /\ UNCHANGED secrets
  BY <1>2, <1>3, <1>4, KeepsOver DEF Remembers, IInv, TypeOK
<1>5. ASSUME NEW u \in Users, u = req[r].user, NEW s \in {"insert", "exists"}, NEW q,
             s = "insert" => req[r].op = "org", q = [req[r] EXCEPT !.step = s, !.temp = made'],
             password[u] = NoAccount, made < MaxPasswords, made' = made + 1,
             password' = [password EXCEPT ![u] = made'], Become(r, q), UNCHANGED mailed
      PROVE  IInv'
  <2>1. made' \in 0 .. MaxPasswords /\ made' # 0 /\ made' \in NoAccount .. Own
    BY <1>5, BoundsAssumption DEF IInv, TypeOK, NoAccount, Own
  <2>2. /\ q \in Request /\ q.step = s /\ q.temp = made' /\ q.op = req[r].op
        /\ q.user = u /\ q.space = req[r].space
    BY <1>1, <1>5, <2>1 DEF Request, Steps
  <2>3. /\ password' \in [Users -> NoAccount .. Own] /\ password'[u] = made'
        /\ \A v \in Users : v # u => password'[v] = password[v]
    BY <1>2, <1>5, <2>1 DEF IInv, TypeOK
  <2>4. Stepped(r, q)
    BY <1>5, BecomeSteps DEF IInv
  <2>5. TypeOK'
    BY <1>3, <1>5, <2>1, <2>2, <2>3 DEF IInv, TypeOK, Become, people
  <2>6. RequestsOK'
    <3>1. RequestOK(q)'
      <4>1. ~Joined(u) /\ ~Joined(u)'
        BY <1>2, <1>3, <1>5, <2>4 DEF IInv, AccountsOK, Joined, people
      <4>2. q.space \in space \/ q.op = "org"
        BY <1>1, <1>2, <2>2 DEF RequestOK, Invitations
      <4> QED
        BY <1>2, <1>3, <2>1, <2>2, <2>3, <4>1, <4>2
           DEF RequestOK, StepsOf, Invitations, people, Joined, NoAccount
    <3>2. Onwards
      BY <1>3, <2>1, <2>3 DEF Onwards, NoAccount, people
    <3>3. Noticed(r)
      BY <1>3, <2>4 DEF Noticed, Stepped, Like, people, Joined
    <3> QED
      BY <2>4, <3>1, <3>2, <3>3, RequestsKept
  <2>7. Exclusive' /\ WritesOK'
    BY <1>3, <2>2, <2>4, LocksKept DEF people, Holding
  <2>8. AccountsOK' /\ AdminKept'
    BY <1>3, <2>1, <2>3 DEF IInv, AccountsOK, Joined, AdminKept, Admins, people, NoAccount
  <2>9. CredentialsMailed'
    <3> SUFFICES ASSUME NEW v \in Users, password'[v] \in Passwords
                 PROVE  \/ password'[v] \in mailed' \/ v \in lost'
                        \/ \E x \in Requests : req'[x].user = v /\ req'[x].temp = password'[v]
      BY DEF CredentialsMailed
    <3>1. CASE v = u
      BY <2>2, <2>3, <2>4, <3>1 DEF Stepped
    <3>2. CASE v # u
      BY <1>2, <1>3, <1>5, <2>3, <2>4, <3>2, MailedKept
    <3> QED
      BY <3>1, <3>2
  <2> QED
    BY <2>5, <2>6, <2>7, <2>8, <2>9 DEF IInv
<1> QED
  <2>1. PICK s \in {"insert", "exists"} :
            s = (IF req[r].op = "org" THEN "insert" ELSE "exists")
    OBVIOUS
  <2>2. CASE password[req[r].user] # NoAccount
    BY <1>3, <1>4, <2>2 DEF CreateUser
  <2>3. CASE password[req[r].user] = NoAccount
    BY <1>2, <1>5, <2>1, <2>3 DEF CreateUser
  <2> QED
    BY <2>2, <2>3

LEMMA KeepsCheckExists ==
    ASSUME IInv, NEW r \in Requests, CheckExists(r)
    PROVE  IInv'
<1>1. req[r].step = "exists" /\ req[r].op \in Invitations
  BY LateStep DEF CheckExists, At
<1>2. UNCHANGED <<people, secrets, begun>>
  BY DEF CheckExists
<1>3. CASE IsThere(r) /\ Refuse(r, AfterUser(r))
  BY <1>1, <1>2, <1>3, KeepsRefuse DEF Invitations
<1>4. CASE Goto(r, "insert") /\ UNCHANGED lost
  <2>1. "insert" \in Steps /\ "insert" \notin Holding /\ "insert" \in StepsOf(req[r].op)
    BY <1>1 DEF Steps, Holding, StepsOf, Invitations
  <2> QED
    BY <1>1, <1>2, <1>4, <2>1, KeepsGoto DEF Early
<1> QED
  BY <1>3, <1>4 DEF CheckExists

\* The requests that are told are still requests.
LEMMA TellTyped ==
    ASSUME TypeOK, NEW u, NEW t
    PROVE  Tell(u, t) \in [Requests -> Request]
BY Told DEF Tell

\* A step in which only u joins, leaves or changes.
OnlyAbout(u) ==
    \A v \in Users \ {u} :
        operator'[v] = operator[v] /\ \A w \in Workspaces : member'[w][v] = member[w][v]

LEMMA OneChanges ==
    ASSUME IInv, NEW r \in Requests, NEW q \in Request, NEW u \in Users, NEW t,
           req'[r] = q, DOMAIN req' = Requests, req' \in [Requests -> Request],
           \A s \in Requests \ {r} : req'[s] = Noisy(req[s], u, t),
           RequestOK(q)', password[u] # NoAccount,
           OnlyAbout(u), UNCHANGED secrets, UNCHANGED lost, space \subseteq space', Remembers(r, q)
    PROVE  /\ Stepped(r, q) /\ RequestsOK' /\ AccountsOK' /\ CredentialsMailed'
<1>1. Stepped(r, q)
  BY Told DEF Stepped, IInv
<1>3. \A v \in Users : v # u => (Joined(v) <=> (operator'[v].tenant # None
                                        \/ \E w \in Workspaces : member'[w][v] # Absent))
  BY DEF Joined, OnlyAbout
<1>4. AccountsOK'
  BY <1>3 DEF IInv, AccountsOK, Joined, secrets
<1>5. Noticed(r)
  <2> SUFFICES ASSUME NEW s \in Requests \ {r}, req[s].user \in Users,
                      Joined(req[s].user)', ~Joined(req[s].user),
                      req[s].op \notin {"change", "resend"}
               PROVE  "user" \in req'[s].noise
    BY DEF Noticed
  <2>1. req'[s].user = req[s].user
    BY <1>1 DEF Stepped, Like
  <2>2. req[s].user = u
    BY <1>3, <2>1 DEF Joined
  <2> QED
    BY <2>2, Told DEF IInv
<1>6. RequestsOK'
  BY <1>1, <1>5, RequestsKept DEF Onwards, secrets
<1>7. CredentialsMailed'
  BY <1>1, MailedKept DEF CredentialsMailed, Remembers, secrets
<1> QED
  BY <1>1, <1>4, <1>6, <1>7

LEMMA KeepsInsert ==
    ASSUME IInv, NEW r \in Requests, Insert(r)
    PROVE  IInv'
<1>1. req[r] \in Request /\ RequestOK(req[r]) /\ req[r].step = "insert" /\ req[r].op # "space"
  BY Going DEF Insert, At
<1>2. req[r].op \in Invitations /\ req[r].user \in Users /\ password[req[r].user] # NoAccount
  BY <1>1 DEF RequestOK, StepsOf, Early, Holding, Invitations, Request, Ops
<1>3. UNCHANGED <<secrets, begun>>
  BY DEF Insert
<1>4. CASE IsThere(r) /\ Refuse(r, Thrown(r)) /\ UNCHANGED people
  BY <1>1, <1>3, <1>4, KeepsRefuse
<1> PICK u \in Users : u = req[r].user
  BY <1>2
<1> PICK t, w, q : /\ t = req[r].tenant /\ w = req[r].space
                   /\ q = [req[r] EXCEPT !.step = "mail"]
  OBVIOUS
<1>5. CASE /\ ~IsThere(r) /\ req' = [Tell(u, t) EXCEPT ![r] = q] /\ UNCHANGED lost
           /\ \/ /\ operator' = [operator EXCEPT ![u] = [tenant |-> t, active |-> TRUE]]
                 /\ UNCHANGED <<space, member>>
              \/ \E role \in {"MEMBER", "ADMIN"} :
                     /\ req[r].op # "org" /\ ~Locked(w)
                     /\ member' = [member EXCEPT ![w][u] = [role |-> role, active |-> TRUE]]
                     /\ UNCHANGED <<operator, space>>
  <2>1. /\ q \in Request /\ q.step = "mail" /\ q.op = req[r].op /\ q.user = u
        /\ q.temp = req[r].temp /\ q.space = w /\ t \in Tenants \cup {None}
    BY <1>1, <1>5 DEF Request, Steps
  <2>2. /\ operator' \in [Users -> Operator] /\ member' \in [Workspaces -> [Users -> Member]]
        /\ OnlyAbout(u)
        /\ \A x \in Workspaces : member'[x] = member[x] \/ (x = w /\ ~Locked(w))
        /\ \A x \in Workspaces : Admins(x) \subseteq Admins(x)'
    <3>1. CASE UNCHANGED member /\ operator' = [operator EXCEPT ![u] = [tenant |-> t, active |-> TRUE]]
      <4>1. [tenant |-> t, active |-> TRUE] \in Operator
        BY <2>1 DEF Operator
      <4>2. operator' \in [Users -> Operator] /\ member' \in [Workspaces -> [Users -> Member]]
        BY <3>1, <4>1 DEF IInv, TypeOK
      <4>3. OnlyAbout(u)
        BY <3>1 DEF OnlyAbout, IInv, TypeOK
      <4>4. /\ \A x \in Workspaces : member'[x] = member[x] \/ (x = w /\ ~Locked(w))
            /\ \A x \in Workspaces : Admins(x) \subseteq Admins(x)'
        BY <3>1 DEF Admins
      <4> QED
        BY <4>2, <4>3, <4>4
    <3>2. ASSUME NEW role \in {"MEMBER", "ADMIN"}, req[r].op # "org", ~Locked(w), UNCHANGED operator,
                 member' = [member EXCEPT ![w][u] = [role |-> role, active |-> TRUE]]
          PROVE  <2>2
      <4>1. [role |-> role, active |-> TRUE] \in Member
        BY DEF Member
      <4>2. w \in Workspaces /\ member[w][u] = Absent
        BY <1>1, <1>2, <1>5, <3>2 DEF IsThere, RequestOK, Invitations, IInv, TypeOK
      <4>3. member' \in [Workspaces -> [Users -> Member]]
        BY <3>2, <4>1, <4>2 DEF IInv, TypeOK
      <4>4. \A x \in Workspaces, v \in Users : x # w \/ v # u => member'[x][v] = member[x][v]
        BY <3>2, <4>2 DEF IInv, TypeOK
      <4>5. \A x \in Workspaces : x # w => member'[x] = member[x]
        BY <3>2 DEF IInv, TypeOK
      <4>6. \A x \in Workspaces : Admins(x) \subseteq Admins(x)'
        BY <4>2, <4>4 DEF Admins, Absent
      <4>7. OnlyAbout(u)
        BY <3>2, <4>4 DEF OnlyAbout
      <4> QED
        BY <3>2, <4>3, <4>5, <4>6, <4>7 DEF IInv, TypeOK
    <3> QED
      BY <1>5, <3>1, <3>2
  <2>3. space' = space
    BY <1>5
  <2>4. RequestOK(q)'
    BY <1>1, <1>2, <1>3, <1>5, <2>1, <2>3
       DEF RequestOK, StepsOf, Invitations, Early, secrets
  <2>5. /\ Stepped(r, q) /\ req' \in [Requests -> Request]
        /\ RequestsOK' /\ AccountsOK' /\ CredentialsMailed'
    <3>1. Remembers(r, q)
      BY <2>1 DEF Remembers
    <3>2. /\ req'[r] = q /\ DOMAIN req' = Requests /\ req' \in [Requests -> Request]
          /\ \A s \in Requests \ {r} : req'[s] = Noisy(req[s], u, t)
      BY <1>5, <2>1, Told DEF Tell, IInv
    <3>3. password[u] # NoAccount /\ UNCHANGED secrets /\ UNCHANGED lost /\ space \subseteq space'
      BY <1>2, <1>3, <1>5, <2>3
    <3> QED
      BY <2>1, <2>2, <2>4, <3>1, <3>2, <3>3, OneChanges
  <2>6. TypeOK'
    BY <1>3, <1>5, <2>2, <2>3, <2>5 DEF IInv, TypeOK, secrets
  <2>7. Exclusive' /\ WritesOK'
    <3>1. \A s \in Requests \ {r} : req[s].step = "write" => member'[req[s].space] = member[req[s].space]
      <4> SUFFICES ASSUME NEW s \in Requests \ {r}, req[s].step = "write"
                   PROVE  member'[req[s].space] = member[req[s].space]
        OBVIOUS
      <4>1. req[s].op = "change" /\ req[s].space \in Workspaces
        BY Going DEF RequestOK, StepsOf, Early, Holding, IInv, TypeOK, Request, Ops
      <4>2. Locked(req[s].space)
        BY DEF Locked
      <4> QED
        BY <2>2, <4>1, <4>2
    <3> QED
      BY <2>1, <2>5, <3>1, LocksKept DEF Holding
  <2>8. AdminKept'
    BY <2>2, <2>3 DEF IInv, AdminKept, TypeOK
  <2> QED
    BY <2>5, <2>6, <2>7, <2>8 DEF IInv
<1> QED
  <2>1. CASE IsThere(r)
    BY <1>4, <2>1 DEF Insert
  <2>2. CASE ~IsThere(r)
    BY <1>5, <2>2 DEF Insert, With
  <2> QED
    BY <2>1, <2>2

LEMMA KeepsMail ==
    ASSUME IInv, NEW r \in Requests, Mail(r)
    PROVE  IInv'
<1>1. req[r] \in Request
  BY Going
<1>2. Become(r, AfterUser(r)) /\ mailed' = mailed \cup ({req[r].temp} \ {0})
      /\ UNCHANGED <<people, password, made, begun, lost>>
  BY DEF Mail
<1>3. mailed' \subseteq Passwords
  <2>1. req[r].temp \in 0 .. MaxPasswords
    BY <1>1 DEF Request
  <2>2. req[r].temp # 0 => req[r].temp \in Passwords
    BY <2>1, BoundsAssumption DEF Passwords
  <2>3. mailed \subseteq Passwords
    BY DEF IInv, TypeOK
  <2> QED
    BY <1>2, <2>2, <2>3
<1>4. /\ AfterUser(r) \in Request /\ RequestOK(AfterUser(r)) /\ AfterUser(r).step \notin Holding
  BY Over
<1> DEFINE q == AfterUser(r)
<1>5. Remembers(r, q)
  BY <1>2 DEF Remembers
<1> HIDE DEF q
<1> QED
  BY <1>2, <1>3, <1>4, <1>5, Quiet DEF IInv, TypeOK, q

-----------------------------------------------------------------------------
(* Changes and removals.                                                   *)

LEMMA KeepsChange ==
    ASSUME IInv, NEW r \in Requests, NEW w \in Workspaces, NEW u \in Users,
           Free(r), Change(r, w, u) \/ Resend(r, w, u)
    PROVE  IInv'
<1>1. w \in space /\ password[u] # NoAccount
  BY DEF Change, Resend, IInv, AccountsOK, Joined
<1>2. PICK op, s, q :
          /\ op \in {"change", "resend"} /\ s \in {"lock", "account"}
          /\ s = IF op = "change" THEN "lock" ELSE "account"
          /\ q = [Idle EXCEPT !.op = op, !.step = s, !.tenant = TenantOf[w],
                              !.space = w, !.user = u]
          /\ Begin(r, q)
  BY DEF Change, Resend
<1>3. /\ q \in Request /\ q.op = op /\ q.step = s /\ q.temp = 0 /\ q.user = u /\ q.space = w
  <2>1. TenantOf[w] \in Tenants
    BY MembersAssumption
  <2> QED
    BY <1>2, <2>1, IdleTyped DEF Request, Ops, Steps, Idle
<1>4. RequestOK(q) /\ q.step \notin Holding
  BY <1>1, <1>2, <1>3 DEF RequestOK, StepsOf, Early, Holding
<1>5. UNCHANGED <<people, secrets, lost>>
  BY DEF Change, Resend
<1> QED
  BY <1>2, <1>3, <1>4, <1>5, KeepsBegin

\* What the steps of a change show.
LEMMA ChangeStep ==
    ASSUME IInv, NEW r \in Requests, req[r].step \in {"lock", "check", "write"}
    PROVE  /\ req[r] \in Request /\ req[r].op = "change" /\ req[r].temp = 0
           /\ req[r].user \in Users /\ req[r].space \in space /\ space \subseteq Workspaces
           /\ password[req[r].user] # NoAccount
<1>1. req[r] \in Request /\ RequestOK(req[r])
  BY Going
<1>2. req[r].op = "change"
  BY <1>1 DEF RequestOK, StepsOf, Early, Request, Ops
<1> QED
  BY <1>1, <1>2 DEF RequestOK, Early, IInv, TypeOK

LEMMA KeepsLockSpace ==
    ASSUME IInv, NEW r \in Requests, LockSpace(r)
    PROVE  IInv'
<1> PICK q : q = [req[r] EXCEPT !.step = "check"]
  OBVIOUS
<1>1. /\ req[r] \in Request /\ req[r].op = "change" /\ req[r].temp = 0 /\ req[r].step = "lock"
      /\ RequestOK(req[r])
  BY ChangeStep, Going DEF LockSpace, At
<1>2. /\ q \in Request /\ q.op = "change" /\ q.step = "check" /\ q.temp = 0
      /\ q.user = req[r].user /\ q.space = req[r].space
  BY <1>1 DEF Request, Steps
<1>3. Become(r, q) /\ UNCHANGED <<people, secrets, begun, lost>> /\ ~Locked(req[r].space)
  BY DEF LockSpace, Goto, With
<1>4. RequestOK(q) /\ Remembers(r, q)
  BY <1>1, <1>2 DEF RequestOK, StepsOf, Early, Holding, Remembers
<1>5. TypeOK' /\ RequestsOK' /\ AccountsOK' /\ AdminKept' /\ CredentialsMailed'
  BY <1>2, <1>3, <1>4, GoesOn DEF secrets, IInv, TypeOK
<1>6. Stepped(r, q)
  BY <1>3, BecomeSteps DEF IInv
<1>7. Exclusive'
  <2>1. \A s \in Requests : req[s].step \in Holding => req[s].space # req[r].space
    BY <1>3 DEF Locked, Holding
  <2>2. \A s \in Requests \ {r} : req'[s].step = req[s].step /\ req'[s].space = req[s].space
    BY <1>6 DEF Stepped, Like
  <2>3. req'[r].space = req[r].space
    BY <1>2, <1>6 DEF Stepped
  <2> QED
    BY <2>1, <2>2, <2>3 DEF Exclusive, IInv
<1>8. WritesOK'
  <2> SUFFICES ASSUME NEW s \in Requests, req'[s].step = "write"
               PROVE  MayBecome(s, req[s].to)' /\ (req'[s].to.role # "none" \/ req'[s].to = Absent)
    BY DEF WritesOK
  <2>1. req'[s] = req[s]
    BY <1>2, <1>3, <1>6 DEF Become, Stepped, IInv, TypeOK
  <2> QED
    BY <1>3, <2>1 DEF IInv, WritesOK, MayBecome, Admins, ActiveAdmins, people
<1> QED
  BY <1>5, <1>7, <1>8 DEF IInv

LEMMA KeepsCheckChange ==
    ASSUME IInv, NEW r \in Requests, CheckChange(r)
    PROVE  IInv'
<1>1. /\ req[r] \in Request /\ req[r].op = "change" /\ req[r].temp = 0 /\ req[r].step = "check"
      /\ RequestOK(req[r])
  BY ChangeStep, Going DEF CheckChange, At
<1>2. UNCHANGED <<people, secrets, begun, lost>>
  BY DEF CheckChange
<1>3. CASE Become(r, Idle)
  BY <1>1, <1>2, <1>3, KeepsOver DEF Remembers, IInv, TypeOK
<1>4. ASSUME NEW to, to \in {m \in Member : m.role # "none"} \cup {Absent}, MayBecome(r, to),
             NEW q, q = [req[r] EXCEPT !.step = "write", !.to = to], Become(r, q)
      PROVE  IInv'
  <2>1. /\ q \in Request /\ q.op = "change" /\ q.step = "write" /\ q.temp = 0 /\ q.to = to
        /\ q.user = req[r].user /\ q.space = req[r].space
    <3>1. to \in Member
      BY <1>4, IdleTyped
    <3> QED
      BY <1>1, <1>4, <3>1 DEF Request, Steps
  <2>2. RequestOK(q) /\ Remembers(r, q)
    BY <1>1, <2>1 DEF RequestOK, StepsOf, Early, Holding, Remembers
  <2>3. TypeOK' /\ RequestsOK' /\ AccountsOK' /\ AdminKept' /\ CredentialsMailed'
    BY <1>2, <1>4, <2>1, <2>2, GoesOn DEF secrets, IInv, TypeOK
  <2>4. Stepped(r, q)
    BY <1>4, BecomeSteps DEF IInv
  <2>5. Exclusive'
    BY <1>1, <2>1, <2>4 DEF Exclusive, Stepped, Like, IInv, Holding
  <2>6. WritesOK'
    <3> SUFFICES ASSUME NEW s \in Requests, req'[s].step = "write"
                 PROVE  MayBecome(s, req[s].to)' /\ (req'[s].to.role # "none" \/ req'[s].to = Absent)
      BY DEF WritesOK
    <3>1. CASE s = r
      <4>1. req'[s] = q /\ member' = member
        BY <1>2, <2>4, <3>1 DEF Stepped, people
      <4>2. MayBecome(s, req[s].to)'
        BY <1>4, <2>1, <3>1, <4>1 DEF MayBecome, Admins, ActiveAdmins
      <4>3. to.role # "none" \/ to = Absent
        BY <1>4
      <4> QED
        BY <2>1, <4>1, <4>2, <4>3
    <3>2. CASE s # r
      <4>1. req'[s] = req[s]
        BY <1>4, <3>2 DEF Become, IInv, TypeOK
      <4> QED
        BY <1>2, <4>1 DEF IInv, WritesOK, MayBecome, Admins, ActiveAdmins, people
    <3> QED
      BY <3>1, <3>2
  <2> QED
    BY <2>3, <2>5, <2>6 DEF IInv
<1> QED
  BY <1>3, <1>4 DEF CheckChange

\* Who is to be no admin any more leaves another one.
LEMMA AdminLeft ==
    ASSUME IInv, NEW r \in Requests, req[r].step = "write", req[r].to.role # "ADMIN"
    PROVE  \E v \in Admins(req[r].space) : v # req[r].user
<1> PICK w, u, to : w = req[r].space /\ u = req[r].user /\ to = req[r].to
  OBVIOUS
<1>1. MayBecome(r, to) /\ (to.role # "none" \/ to = Absent) /\ w \in space
  BY ChangeStep DEF IInv, WritesOK
<1>2. Admins(w) \in SUBSET Users /\ ActiveAdmins(w) \in SUBSET Admins(w)
  BY DEF Admins, ActiveAdmins
<1>3. CASE member[w][u].role # "ADMIN"
  <2>1. Admins(w) # {}
    BY <1>1 DEF IInv, AdminKept
  <2> QED
    BY <1>3, <2>1 DEF Admins
<1>4. CASE member[w][u].role = "ADMIN" /\ to = Absent
  <2>1. Cardinality(Admins(w)) > 1
    BY <1>1, <1>4 DEF MayBecome
  <2> QED
    BY <1>2, <2>1, Another
<1>5. CASE member[w][u].role = "ADMIN" /\ to # Absent
  <2>1. to.role = "MEMBER"
    BY <1>1, <1>5, ChangeStep DEF Request, Member
  <2>2. Cardinality(ActiveAdmins(w)) > 1
    BY <1>1, <1>5, <2>1 DEF MayBecome
  <2> QED
    BY <1>2, <2>2, Another
<1> QED
  BY <1>3, <1>4, <1>5

LEMMA KeepsWriteChange ==
    ASSUME IInv, NEW r \in Requests, WriteChange(r)
    PROVE  IInv'
<1> PICK w, u, to, t : /\ w = req[r].space /\ u = req[r].user /\ to = req[r].to
                       /\ t = req[r].tenant
  OBVIOUS
<1>1. /\ req[r].step = "write" /\ w \in space /\ w \in Workspaces /\ u \in Users
      /\ to \in Member /\ password[u] # NoAccount /\ req[r].temp = 0
  BY ChangeStep DEF WriteChange, At, Request
<1>2. /\ UNCHANGED <<operator, space, secrets, begun, lost>>
      /\ member' = [member EXCEPT ![w][u] = to]
      /\ req' = [Tell(u, t) EXCEPT ![r] = Idle]
  BY DEF WriteChange
<1>3. member' \in [Workspaces -> [Users -> Member]]
  BY <1>1, <1>2 DEF IInv, TypeOK
<1>4. /\ member'[w][u] = to
      /\ \A x \in Workspaces, v \in Users : x # w \/ v # u => member'[x][v] = member[x][v]
      /\ \A x \in Workspaces : x # w => member'[x] = member[x]
  BY <1>1, <1>2 DEF IInv, TypeOK
<1>5. OnlyAbout(u)
  BY <1>2, <1>4 DEF OnlyAbout
<1>6. /\ req'[r] = Idle /\ DOMAIN req' = Requests /\ req' \in [Requests -> Request]
      /\ \A s \in Requests \ {r} : req'[s] = Noisy(req[s], u, t)
  BY <1>2, IdleTyped, Told DEF Tell, IInv
<1>7. Stepped(r, Idle) /\ RequestsOK' /\ AccountsOK' /\ CredentialsMailed'
  <2>1. RequestOK(Idle)'
    BY DEF RequestOK, Idle, StepsOf, Early
  <2>2. Remembers(r, Idle)
    BY <1>1 DEF Remembers
  <2> QED
    BY <1>1, <1>2, <1>5, <1>6, <2>1, <2>2, IdleTyped, OneChanges
<1>8. TypeOK'
  BY <1>2, <1>3, <1>6 DEF IInv, TypeOK, secrets
<1>9. Exclusive' /\ WritesOK'
  <2>1. \A s \in Requests \ {r} : req[s].step = "write" => member'[req[s].space] = member[req[s].space]
    BY <1>1, <1>4, ChangeStep DEF IInv, Exclusive, Holding
  <2>2. Idle.step \notin Holding
    BY DEF Idle, Holding
  <2> QED
    BY <1>7, <2>1, <2>2, LocksKept
<1>10. AdminKept'
  <2> SUFFICES ASSUME NEW x \in space PROVE \E v \in Users : member'[x][v].role = "ADMIN"
    BY <1>2 DEF AdminKept, Admins
  <2>1. \E v \in Users : member[x][v].role = "ADMIN" /\ (x = w /\ v = u => to.role = "ADMIN")
    BY <1>1, AdminLeft DEF IInv, AdminKept, Admins
  <2> QED
    BY <1>4, <2>1 DEF IInv, TypeOK
<1> QED
  BY <1>7, <1>8, <1>9, <1>10 DEF IInv

\* An operator is made active or inactive.
LEMMA KeepsToggleOperator ==
    ASSUME IInv, NEW u \in Users, ToggleOperator(u)
    PROVE  IInv'
<1> PICK t : t = operator[u].tenant
  OBVIOUS
<1>1. /\ UNCHANGED <<space, member, secrets, lost>> /\ begun' = begun + 1 /\ begun < MaxBegun
      /\ operator' = [operator EXCEPT ![u].active = ~operator[u].active]
      /\ req' = Tell(u, t)
  BY DEF ToggleOperator
<1>2. /\ operator' \in [Users -> Operator]
      /\ \A v \in Users : operator'[v].tenant = operator[v].tenant
  <2>1. operator \in [Users -> Operator]
    BY DEF IInv, TypeOK
  <2>2. [operator[u] EXCEPT !.active = ~operator[u].active] \in Operator
    BY <2>1 DEF Operator
  <2> QED
    BY <1>1, <2>1, <2>2 DEF Operator
<1>3. /\ req' \in [Requests -> Request]
      /\ \A s \in Requests : req'[s] = Noisy(req[s], u, t) /\ Like(req'[s], req[s])
  BY <1>1, Told DEF Tell, IInv
<1>4. begun' \in 0 .. MaxBegun
  BY <1>1, BoundsAssumption DEF IInv, TypeOK
<1>5. TypeOK'
  BY <1>1, <1>2, <1>3, <1>4 DEF IInv, TypeOK, secrets
<1>6. RequestsOK'
  <2> SUFFICES ASSUME NEW s \in Requests PROVE RequestOK(req[s])'
    BY DEF RequestsOK
  <2>1. RequestOK(req[s]) /\ Like(req'[s], req[s])
    BY <1>3, Going
  <2>2. req[s].step \in {"exists", "insert"} => req[s].user \in Users
    BY <2>1 DEF RequestOK, Early
  <2> QED
    BY <1>1, <1>2, <2>1, <2>2 DEF RequestOK, Like, Joined, secrets
<1>7. Exclusive'
  BY <1>3 DEF IInv, Exclusive, Like
<1>8. WritesOK'
  <2> SUFFICES ASSUME NEW s \in Requests, req'[s].step = "write"
               PROVE  MayBecome(s, req[s].to)' /\ (req'[s].to.role # "none" \/ req'[s].to = Absent)
    BY DEF WritesOK
  <2>1. Like(req'[s], req[s]) /\ member' = member
    BY <1>1, <1>3
  <2>2. MayBecome(s, req[s].to) /\ (req[s].to.role # "none" \/ req[s].to = Absent)
    BY <2>1 DEF IInv, WritesOK, Like
  <2> QED
    BY <2>1, <2>2 DEF MayBecome, Admins, ActiveAdmins, Like
<1>9. AccountsOK' /\ AdminKept'
  BY <1>1, <1>2 DEF IInv, AccountsOK, Joined, AdminKept, Admins, secrets
<1>10. CredentialsMailed'
  BY <1>1, <1>3 DEF IInv, CredentialsMailed, Like, secrets
<1> QED
  BY <1>5, <1>6, <1>7, <1>8, <1>9, <1>10 DEF IInv

-----------------------------------------------------------------------------
(* New workspaces, and credentials once more.                              *)

LEMMA KeepsNewSpace ==
    ASSUME IInv, NEW r \in Requests, NEW u \in Users, Free(r), NewSpace(r, u)
    PROVE  IInv'
<1> PICK q : q = [Idle EXCEPT !.op = "space", !.step = "limit", !.user = u,
                              !.tenant = operator[u].tenant]
  OBVIOUS
<1>1. operator[u].tenant \in Tenants
  BY MembersAssumption DEF NewSpace
<1>2. q \in Request /\ q.op = "space" /\ q.step = "limit" /\ q.temp = 0 /\ q.user = u
  BY <1>1, IdleTyped DEF Request, Ops, Steps, Idle
<1>3. password[u] # NoAccount
  <2>1. operator[u].tenant # None
    BY <1>1, MembersAssumption
  <2> QED
    BY <2>1 DEF IInv, AccountsOK, Joined
<1>4. RequestOK(q) /\ q.step \notin Holding
  BY <1>2, <1>3 DEF RequestOK, StepsOf, Early, Holding
<1>5. Begin(r, q) /\ UNCHANGED <<people, secrets, lost>>
  BY DEF NewSpace
<1> QED
  BY <1>2, <1>4, <1>5, KeepsBegin

\* What the steps of a new workspace, and of credentials sent again, show.
LEMMA LaterStep ==
    ASSUME IInv, NEW r \in Requests,
           req[r].step \in {"limit", "account", "reset"} \/ req[r].op = "space"
    PROVE  /\ req[r] \in Request /\ RequestOK(req[r])
           /\ req[r].temp = 0 /\ req[r].user \in Users /\ password[req[r].user] # NoAccount
           /\ req[r].op = IF req[r].step \in {"account", "reset"} THEN "resend" ELSE "space"
<1>1. req[r] \in Request /\ RequestOK(req[r])
  BY Going
<1> QED
  BY <1>1 DEF RequestOK, StepsOf, Early, Holding, Request, Ops

LEMMA KeepsAssertSpaces ==
    ASSUME IInv, NEW r \in Requests, AssertSpaces(r) \/ ReadAccount(r)
    PROVE  IInv'
<1>1. /\ req[r].temp = 0 /\ req[r].step \in {"limit", "account"}
      /\ req[r].op = IF req[r].step = "limit" THEN "space" ELSE "resend"
  BY LaterStep DEF AssertSpaces, ReadAccount, At
<1>2. UNCHANGED <<people, secrets, begun, lost>>
  BY DEF AssertSpaces, ReadAccount
<1>3. CASE Become(r, Idle)
  BY <1>1, <1>2, <1>3, KeepsOver DEF Remembers, IInv, TypeOK
<1>4. CASE Goto(r, IF req[r].step = "limit" THEN "insert" ELSE "reset")
  <2> PICK s : s = IF req[r].step = "limit" THEN "insert" ELSE "reset"
    OBVIOUS
  <2>1. s \in Steps /\ s \notin Holding /\ s \in StepsOf(req[r].op)
    BY <1>1 DEF Steps, Holding, StepsOf
  <2> QED
    BY <1>1, <1>2, <1>4, <2>1, KeepsGoto DEF Early
<1> QED
  BY <1>3, <1>4 DEF AssertSpaces, ReadAccount, At, Goto

LEMMA KeepsInsertSpace ==
    ASSUME IInv, NEW r \in Requests, InsertSpace(r)
    PROVE  IInv'
<1> PICK u, t, m : u = req[r].user /\ t = req[r].tenant /\ m = [role |-> "ADMIN", active |-> TRUE]
  OBVIOUS
<1>1. req[r].temp = 0 /\ u \in Users /\ password[u] # NoAccount
  BY LaterStep DEF InsertSpace
<1>2. /\ UNCHANGED <<operator, secrets, begun, lost>>
      /\ req' = [Tell(u, t) EXCEPT ![r] = Idle]
  BY DEF InsertSpace
<1>3. PICK w \in Workspaces \ space :
          space' = space \cup {w} /\ member' = [member EXCEPT ![w][u] = m]
  BY DEF InsertSpace
<1>4. m \in Member /\ m.role = "ADMIN"
  BY DEF Member
<1>5. /\ member' \in [Workspaces -> [Users -> Member]] /\ member'[w][u] = m
      /\ \A x \in Workspaces, v \in Users : x # w \/ v # u => member'[x][v] = member[x][v]
      /\ \A x \in Workspaces : x # w => member'[x] = member[x]
  BY <1>1, <1>3, <1>4 DEF IInv, TypeOK
<1>6. OnlyAbout(u)
  BY <1>2, <1>5 DEF OnlyAbout
<1>7. /\ req'[r] = Idle /\ DOMAIN req' = Requests /\ req' \in [Requests -> Request]
      /\ \A s \in Requests \ {r} : req'[s] = Noisy(req[s], u, t)
  BY <1>2, IdleTyped, Told DEF Tell, IInv
<1>8. Stepped(r, Idle) /\ RequestsOK' /\ AccountsOK' /\ CredentialsMailed'
  <2>1. RequestOK(Idle)'
    BY DEF RequestOK, Idle, StepsOf, Early
  <2>2. Remembers(r, Idle)
    BY <1>1 DEF Remembers
  <2>3. space \subseteq space'
    BY <1>3
  <2> QED
    BY <1>1, <1>2, <1>6, <1>7, <2>1, <2>2, <2>3, IdleTyped, OneChanges
<1>9. TypeOK'
  BY <1>2, <1>3, <1>5, <1>7 DEF IInv, TypeOK, secrets
<1>10. Exclusive' /\ WritesOK'
  <2>1. \A s \in Requests \ {r} : req[s].step = "write" => member'[req[s].space] = member[req[s].space]
    BY <1>3, <1>5, ChangeStep
  <2>2. Idle.step \notin Holding
    BY DEF Idle, Holding
  <2> QED
    BY <1>8, <2>1, <2>2, LocksKept
<1>11. AdminKept'
  <2> SUFFICES ASSUME NEW x \in space \cup {w} PROVE \E v \in Users : member'[x][v].role = "ADMIN"
    BY <1>3 DEF AdminKept, Admins
  <2>1. CASE x = w
    BY <1>1, <1>4, <1>5, <2>1
  <2>2. CASE x # w
    BY <1>5, <2>2 DEF IInv, TypeOK, AdminKept, Admins
  <2> QED
    BY <2>1, <2>2
<1> QED
  BY <1>8, <1>9, <1>10, <1>11 DEF IInv

LEMMA KeepsResetPassword ==
    ASSUME IInv, NEW r \in Requests, ResetPassword(r)
    PROVE  IInv'
<1> PICK u : u = req[r].user
  OBVIOUS
<1>1. /\ req[r] \in Request /\ req[r].temp = 0 /\ req[r].op = "resend" /\ u \in Users
      /\ password[u] # NoAccount /\ req[r].step = "reset"
  BY LaterStep DEF ResetPassword, At
<1>2. PICK n : n = made + 1
  OBVIOUS
<1>3. PICK q : q = [req[r] EXCEPT !.step = "mail", !.temp = n]
  OBVIOUS
<1>4. /\ made' = n /\ made < MaxPasswords /\ password' = [password EXCEPT ![u] = n]
      /\ Become(r, q) /\ lost' = lost \ {u} /\ UNCHANGED <<people, mailed, begun>>
  BY <1>2, <1>3 DEF ResetPassword
<1>5. n \in 0 .. MaxPasswords /\ n # 0 /\ n \in NoAccount .. Own
  BY <1>2, <1>4, BoundsAssumption DEF IInv, TypeOK, NoAccount, Own
<1>6. /\ q \in Request /\ q.step = "mail" /\ q.temp = n /\ q.op = "resend" /\ q.user = u
  BY <1>1, <1>3, <1>5 DEF Request, Steps
<1>7. /\ password' \in [Users -> NoAccount .. Own] /\ password'[u] = n
      /\ \A v \in Users : v # u => password'[v] = password[v]
  BY <1>1, <1>4, <1>5 DEF IInv, TypeOK
<1>8. Stepped(r, q)
  BY <1>4, BecomeSteps DEF IInv
<1>9. TypeOK'
  BY <1>4, <1>5, <1>6, <1>7 DEF IInv, TypeOK, Become, people
<1>10. RequestsOK'
  <2>1. RequestOK(q)'
    BY <1>1, <1>5, <1>6, <1>7 DEF RequestOK, StepsOf, NoAccount
  <2>2. Onwards /\ Noticed(r)
    BY <1>4, <1>5, <1>7, <1>8 DEF Onwards, Noticed, Stepped, Like, people, Joined, NoAccount
  <2> QED
    BY <1>8, <2>1, <2>2, RequestsKept
<1>11. Exclusive' /\ WritesOK'
  BY <1>4, <1>6, <1>8, LocksKept DEF people, Holding
<1>12. AccountsOK' /\ AdminKept'
  BY <1>4, <1>5, <1>7 DEF IInv, AccountsOK, Joined, AdminKept, Admins, people, NoAccount
<1>13. CredentialsMailed'
  <2> SUFFICES ASSUME NEW v \in Users, password'[v] \in Passwords
               PROVE  \/ password'[v] \in mailed' \/ v \in lost'
                      \/ \E x \in Requests : req'[x].user = v /\ req'[x].temp = password'[v]
    BY DEF CredentialsMailed
  <2>1. CASE v = u
    BY <1>6, <1>7, <1>8, <2>1 DEF Stepped
  <2>2. CASE v # u
    BY <1>1, <1>4, <1>7, <1>8, <2>2, MailedKept
  <2> QED
    BY <2>1, <2>2
<1> QED
  BY <1>9, <1>10, <1>11, <1>12, <1>13 DEF IInv

LEMMA KeepsChoosePassword ==
    ASSUME IInv, NEW u \in Users, ChoosePassword(u)
    PROVE  IInv'
<1>1. /\ password' = [password EXCEPT ![u] = Own]
      /\ UNCHANGED <<people, made, mailed, begun, req, lost>>
  BY DEF ChoosePassword
<1>2. Own \in NoAccount .. Own /\ Own # NoAccount /\ Own \notin Passwords
  BY BoundsAssumption DEF Own, NoAccount, Passwords
<1>3. /\ password' \in [Users -> NoAccount .. Own]
      /\ \A v \in Users : password[v] # NoAccount => password'[v] # NoAccount
      /\ \A v \in Users : password'[v] \in Passwords => password'[v] = password[v]
  BY <1>1, <1>2 DEF IInv, TypeOK
<1>4. TypeOK'
  BY <1>1, <1>3 DEF IInv, TypeOK, people
<1>5. RequestsOK'
  BY <1>1, <1>3 DEF IInv, RequestsOK, RequestOK, Early, Joined, people
<1>6. Exclusive' /\ AdminKept'
  BY <1>1 DEF IInv, Exclusive, AdminKept, Admins, people
<1>7. WritesOK'
  BY <1>1 DEF IInv, WritesOK, MayBecome, Admins, ActiveAdmins, people
<1>8. AccountsOK'
  BY <1>1, <1>3 DEF IInv, AccountsOK, Joined, people
<1>9. CredentialsMailed'
  BY <1>1, <1>3 DEF IInv, CredentialsMailed
<1> QED
  BY <1>4, <1>5, <1>6, <1>7, <1>8, <1>9 DEF IInv

LEMMA KeepsCrash ==
    ASSUME IInv, NEW r \in Requests, Crash(r)
    PROVE  IInv'
<1> PICK q \in {Thrown(r), Idle} : Become(r, q)
  BY DEF Crash
<1>1. UNCHANGED <<people, secrets, begun>> /\ Loses(r)
  BY DEF Crash
<1>2. lost \subseteq lost' /\ lost' \subseteq Users
  BY <1>1 DEF Loses, IInv, TypeOK
<1>3. Remembers(r, q)
  BY <1>1 DEF Loses, Remembers
<1> QED
  BY <1>1, <1>2, <1>3, KeepsOver

-----------------------------------------------------------------------------
LEMMA InitIInv == Init => IInv
<1> SUFFICES ASSUME Init PROVE IInv
  OBVIOUS
<1>1. operator \in [Users -> Operator]
  <2> SUFFICES ASSUME NEW u \in Users
               PROVE  (IF \E t \in Tenants : OwnerOf[t] = u
                       THEN [tenant |-> CHOOSE t \in Tenants : OwnerOf[t] = u, active |-> TRUE]
                       ELSE [tenant |-> None, active |-> FALSE]) \in Operator
    BY DEF Init
  <2> QED
    BY DEF Operator
<1>2. TypeOK
  <2>1. 0 \in NoAccount .. Own /\ Own \in NoAccount .. Own /\ 0 \in 0 .. MaxPasswords
        /\ 0 \in 0 .. MaxBegun
    BY BoundsAssumption DEF NoAccount, Own
  <2>2. password \in [Users -> NoAccount .. Own]
    BY <2>1 DEF Init, NoAccount
  <2>3. member \in [Workspaces -> [Users -> Member]] /\ req \in [Requests -> Request]
    BY IdleTyped DEF Init
  <2> QED
    BY <1>1, <2>1, <2>2, <2>3 DEF Init, TypeOK
<1>3. RequestsOK
  BY IdleOK DEF Init, RequestsOK
<1>4. Exclusive /\ WritesOK
  BY DEF Init, Exclusive, WritesOK, Idle, Holding
<1>5. AccountsOK
  BY BoundsAssumption DEF Init, AccountsOK, Joined, Own, NoAccount
<1>6. AdminKept /\ CredentialsMailed
  BY BoundsAssumption DEF Init, AdminKept, CredentialsMailed, Own, NoAccount, Passwords
<1> QED
  BY <1>2, <1>3, <1>4, <1>5, <1>6 DEF IInv

LEMMA NextIInv == IInv /\ [Next]_vars => IInv'
<1> SUFFICES ASSUME IInv, [Next]_vars PROVE IInv'
  OBVIOUS
<1>1. ASSUME NEW r \in Requests, Free(r), Starting(r)
      PROVE  IInv'
  BY <1>1, KeepsInvite, KeepsChange, KeepsNewSpace DEF Starting, Invitations
<1>2. ASSUME NEW r \in Requests, Inviting(r)
      PROVE  IInv'
  BY <1>2, KeepsCountNewSeats, KeepsAssertSeats, KeepsTake, KeepsFind, KeepsCreateUser,
     KeepsCheckOperator, KeepsCheckExists, KeepsInsert, KeepsMail DEF Inviting
<1>3. ASSUME NEW r \in Requests, Changing(r)
      PROVE  IInv'
  BY <1>3, KeepsLockSpace, KeepsCheckChange, KeepsWriteChange DEF Changing
<1>4. ASSUME NEW r \in Requests, Creating(r) \/ Resending(r)
      PROVE  IInv'
  BY <1>4, KeepsAssertSpaces, KeepsInsertSpace, KeepsResetPassword DEF Creating, Resending
<1>5. ASSUME NEW r \in Requests, Crash(r)
      PROVE  IInv'
  BY <1>5, KeepsCrash
<1>6. ASSUME NEW u \in Users, ToggleOperator(u) \/ ChoosePassword(u)
      PROVE  IInv'
  BY <1>6, KeepsToggleOperator, KeepsChoosePassword
<1>7. CASE UNCHANGED vars
  <2>1. UNCHANGED <<operator, space, member, password, made, mailed, begun, req, lost>>
    BY <1>7 DEF vars
  <2>2. TypeOK' /\ RequestsOK' /\ Exclusive' /\ AccountsOK'
    BY <2>1 DEF IInv, TypeOK, RequestsOK, RequestOK, Exclusive, AccountsOK, Joined
  <2>3. WritesOK' /\ AdminKept' /\ CredentialsMailed'
    BY <2>1 DEF IInv, WritesOK, MayBecome, Admins, ActiveAdmins, AdminKept, CredentialsMailed
  <2> QED
    BY <2>2, <2>3 DEF IInv
<1> QED
  BY <1>1, <1>2, <1>3, <1>4, <1>5, <1>6, <1>7 DEF Next

\* The inductive invariant: types, the steps of every request, one change at a
\* time under the lock of a workspace and what it has found there, and where
\* every temporary password is.
THEOREM Invariance == Spec => []IInv
BY InitIInv, NextIInv, PTL DEF Spec

\* Rows, accounts and requests keep their types for any users and bounds.
THEOREM TypeCorrect == Spec => []TypeOK
BY Invariance, PTL DEF IInv

\* However demotions and removals race, a workspace keeps an admin.
THEOREM AdminAlwaysKept == Spec => []AdminKept
BY Invariance, PTL DEF IInv

\* The password of an account that nobody has chosen one for was mailed, is
\* about to be, or went with a crash or to another invitation.
THEOREM PasswordsMailed == Spec => []CredentialsMailed
BY Invariance, PTL DEF IInv

-----------------------------------------------------------------------------
(* The last active admin.                                                  *)

\* Who is to be no active admin any more, and stays, leaves another one.
LEMMA ActiveAdminLeft ==
    ASSUME IInv, NEW r \in Requests, req[r].step = "write", req[r].to # Absent,
           NEW v \in ActiveAdmins(req[r].space)
    PROVE  \/ req[r].to.role = "ADMIN" /\ req[r].to.active
           \/ \E x \in ActiveAdmins(req[r].space) : x # req[r].user
<1> PICK w, u, to : w = req[r].space /\ u = req[r].user /\ to = req[r].to
  OBVIOUS
<1>1. MayBecome(r, to) /\ to \in Member /\ to.role # "none"
  BY ChangeStep DEF IInv, WritesOK, Request
<1>2. ActiveAdmins(w) \in SUBSET Users
  BY DEF Admins, ActiveAdmins
<1>3. CASE member[w][u].role # "ADMIN"
  BY <1>3 DEF Admins, ActiveAdmins
<1>4. CASE member[w][u].role = "ADMIN" /\ ~(to.role = "ADMIN" /\ to.active)
  <2>1. to.role = "MEMBER" \/ ~to.active
    BY <1>1, <1>4 DEF Member
  <2>2. Cardinality(ActiveAdmins(w)) > 1
    BY <1>1, <1>4, <2>1 DEF MayBecome
  <2> QED
    BY <1>2, <2>2, Another
<1> QED
  BY <1>3, <1>4

LEMMA NextLastAdmin ==
    IInv /\ [Next]_vars
    => [\A w \in space :
           ActiveAdmins(w) # {} /\ ActiveAdmins(w)' = {}
               => \E u \in Users : member[w][u] # Absent /\ member'[w][u] = Absent]_member
<1> SUFFICES ASSUME IInv, [Next]_vars, member' # member, NEW w \in space,
                    ActiveAdmins(w) # {}, ActiveAdmins(w)' = {}
             PROVE  \E u \in Users : member[w][u] # Absent /\ member'[w][u] = Absent
  OBVIOUS
<1>1. w \in Workspaces
  BY DEF IInv, TypeOK
<1> PICK v \in ActiveAdmins(w) : TRUE
  OBVIOUS
<1>2. ASSUME NEW u \in Users, member'[w][u].role = "ADMIN", member'[w][u].active
      PROVE  FALSE
  BY <1>2 DEF ActiveAdmins, Admins
<1>3. PICK r \in Requests : Insert(r) \/ InsertSpace(r) \/ WriteChange(r)
  <2>1. ASSUME NEW r \in Requests, Starting(r) \/ Crash(r)
        PROVE  UNCHANGED member
    BY <2>1 DEF Starting, Crash, Invite, Change, Resend, NewSpace, people
  <2>2. ASSUME NEW r \in Requests, Inviting(r), ~Insert(r)
        PROVE  UNCHANGED member
    BY <2>2 DEF Inviting, CountNewSeats, AssertSeats, Take, Find, CreateUser, CheckOperator,
       CheckMembership, CheckExists, Mail, people
  <2>3. ASSUME NEW r \in Requests, Changing(r), ~WriteChange(r)
        PROVE  UNCHANGED member
    BY <2>3 DEF Changing, LockSpace, CheckChange, people
  <2>4. ASSUME NEW r \in Requests, Creating(r) \/ Resending(r), ~InsertSpace(r)
        PROVE  UNCHANGED member
    BY <2>4 DEF Creating, Resending, AssertSpaces, ReadAccount, ResetPassword, people
  <2>5. ASSUME NEW u \in Users, ToggleOperator(u) \/ ChoosePassword(u)
        PROVE  UNCHANGED member
    BY <2>5 DEF ToggleOperator, ChoosePassword, people
  <2> QED
    BY <2>1, <2>2, <2>3, <2>4, <2>5 DEF Next, vars
<1>4. CASE Insert(r)
  <2> PICK u, x : u = req[r].user /\ x = req[r].space
    OBVIOUS
  <2>1. PICK m : member[x][u] = Absent /\ member' = [member EXCEPT ![x][u] = m]
    BY <1>4 DEF Insert, people, IsThere
  <2>2. member[w][v].role = "ADMIN" /\ member[w][v].active /\ v \in Users
    BY DEF ActiveAdmins, Admins
  <2>3. member'[w][v] = member[w][v]
    BY <1>1, <2>1, <2>2 DEF IInv, TypeOK, Absent
  <2> QED
    BY <1>2, <2>2, <2>3
<1>5. CASE InsertSpace(r)
  <2>1. member'[w] = member[w]
    BY <1>1, <1>5 DEF InsertSpace, IInv, TypeOK
  <2> QED
    BY <1>2, <2>1 DEF ActiveAdmins, Admins
<1>6. CASE WriteChange(r)
  <2> PICK u, x, to : u = req[r].user /\ x = req[r].space /\ to = req[r].to
    OBVIOUS
  <2>1. /\ req[r].step = "write" /\ x \in Workspaces /\ u \in Users
        /\ member' = [member EXCEPT ![x][u] = to]
    BY <1>6, ChangeStep DEF WriteChange, At
  <2>2. /\ member'[x][u] = to
        /\ \A y \in Workspaces, z \in Users : y # x \/ z # u => member'[y][z] = member[y][z]
    BY <2>1 DEF IInv, TypeOK
  <2>3. CASE w # x
    BY <1>1, <1>2, <2>2, <2>3 DEF ActiveAdmins, Admins
  <2>4. CASE w = x /\ to = Absent
    <3>1. member[x][u] # Absent
      BY <2>1 DEF IInv, WritesOK, MayBecome
    <3> QED
      BY <2>1, <2>2, <2>4, <3>1
  <2>5. CASE w = x /\ to # Absent
    <3>1. \/ to.role = "ADMIN" /\ to.active
          \/ \E z \in ActiveAdmins(x) : z # u
      BY <2>1, <2>5, ActiveAdminLeft
    <3>2. ASSUME NEW z \in ActiveAdmins(x), z # u
          PROVE  z \in ActiveAdmins(w)'
      BY <1>1, <2>1, <2>2, <2>5, <3>2 DEF ActiveAdmins, Admins
    <3>3. ASSUME to.role = "ADMIN", to.active
          PROVE  u \in ActiveAdmins(w)'
      BY <1>1, <2>1, <2>2, <2>5, <3>3 DEF ActiveAdmins, Admins
    <3> QED
      BY <1>2, <3>1, <3>2, <3>3
  <2> QED
    BY <2>3, <2>4, <2>5
<1> QED
  BY <1>3, <1>4, <1>5, <1>6

\* No demotion or deactivation, in whatever order, takes the last active admin.
THEOREM OnlyRemovalTakesLastAdmin == Spec => LastAdminLeavesByRemoval
BY Invariance, NextLastAdmin, PTL DEF Spec, LastAdminLeavesByRemoval

-----------------------------------------------------------------------------
(* Limits and second organizations.  What a request has read of seats,     *)
(* workspaces and its user is still true, unless it has been told of a     *)
(* change of its organization or of its user.                              *)

\* Whom a request is about.
RoutedOK(q) ==
    /\ q.op \in Invitations => q.tenant \in Tenants /\ q.left \subseteq q.list
    /\ q.op \in Invitations /\ q.step \notin Early => q.user \in q.list
    /\ q.op \in {"invite", "bulk", "change"} => TenantOf[q.space] = q.tenant
    /\ q.op = "space" => q.tenant \in Tenants /\ operator[q.user].tenant = q.tenant

\* The plan has room for the whole list, or every one of it has a seat.
Seated(list, t) ==
    list \subseteq Seats(t) \/ Cardinality(Seats(t) \cup list) <= MaxSeats

SeatedOK(q) ==
    "tenant" \notin q.noise =>
        /\ q.op \in Invitations /\ q.step = "room"
               => q.need = Cardinality(q.list \ Seats(q.tenant))
        /\ q.op \in Invitations /\ q.step \notin {"seats", "room"} => Seated(q.list, q.tenant)
        /\ q.op = "space" /\ q.step = "insert" => Cardinality(SpacesOf(q.tenant)) < MaxSpaces

\* The user is in no organization, or in that of the invitation.
ScreenedOK(q) ==
    "user" \notin q.noise /\ q.op \in Invitations =>
        /\ q.step = "membership" => operator[q.user].tenant = None
        /\ q.step \in {"exists", "insert"} => Orgs(q.user) = {} \/ q.tenant \in Orgs(q.user)

Fits(q) == RoutedOK(q) /\ SeatedOK(q) /\ ScreenedOK(q)

SpacesFit == /\ IsFiniteSet(space)
             /\ \A w \in Workspaces \ space, u \in Users : member[w][u] = Absent

FitInv == SpacesFit /\ \A r \in Requests : Fits(req[r])

\* A step in which nobody joins or leaves.
LEMMA QuietFits ==
    ASSUME TypeOK, FitInv, UNCHANGED people, NEW r \in Requests, NEW q, Become(r, q), Fits(q)
    PROVE  FitInv'
<1>1. UNCHANGED operator /\ UNCHANGED space /\ UNCHANGED member
  BY DEF people
<1>2. SpacesFit'
  BY <1>1 DEF FitInv, SpacesFit
<1>3. /\ \A t : SpacesOf(t)' = SpacesOf(t) /\ Seats(t)' = Seats(t)
      /\ \A u : Orgs(u)' = Orgs(u)
  BY <1>1 DEF SpacesOf, Seats, Orgs, JoinedBy
<1>4. ASSUME NEW s \in Requests PROVE Fits(req[s])'
  <2>1. Fits(req'[s])
    BY DEF TypeOK, Become, FitInv
  <2>2. RoutedOK(req[s])'
    BY <1>1, <2>1 DEF Fits, RoutedOK
  <2>3. SeatedOK(req[s])'
    BY <1>3, <2>1 DEF Fits, SeatedOK, Seated
  <2>4. ScreenedOK(req[s])'
    BY <1>1, <1>3, <2>1 DEF Fits, ScreenedOK
  <2> QED
    BY <2>2, <2>3, <2>4 DEF Fits
<1> QED
  BY <1>2, <1>4 DEF FitInv

LEMMA IdleFits == Fits(Idle)
BY DEF Fits, RoutedOK, SeatedOK, ScreenedOK, Idle, Invitations

\* What a request knows when it goes on to another step.
LEMMA StepFits ==
    ASSUME IInv, FitInv, NEW r \in Requests, NEW s
    PROVE  /\ req[r] \in Request /\ RequestOK(req[r]) /\ Fits(req[r])
           /\ With(r, s).step = s /\ With(r, s).op = req[r].op
           /\ With(r, s).tenant = req[r].tenant /\ With(r, s).list = req[r].list
           /\ With(r, s).left = req[r].left /\ With(r, s).user = req[r].user
           /\ With(r, s).space = req[r].space /\ With(r, s).noise = req[r].noise
           /\ With(r, s).need = req[r].need
<1>1. req[r] \in Request /\ RequestOK(req[r]) /\ Fits(req[r])
  BY Going DEF FitInv
<1> QED
  BY <1>1 DEF With, Request

\* A job that goes on with its next user, or waits for staff.
LEMMA OverFits ==
    ASSUME IInv, FitInv, NEW r \in Requests, NEW q \in {AfterUser(r), Thrown(r), Idle},
           req[r].step \notin {"seats", "room"}
    PROVE  Fits(q)
<1>1. req[r] \in Request /\ Fits(req[r])
  BY StepFits
<1>2. CASE q # Idle
  <2>1. req[r].op = "bulk"
    BY <1>2 DEF AfterUser, Thrown
  <2>2. \E s \in {"next", "queued"}, left \in SUBSET req[r].list :
            q = [req[r] EXCEPT !.step = s, !.left = left, !.user = None, !.temp = 0]
    <3>1. req[r].left \ {req[r].user} \in SUBSET req[r].list /\ {} \in SUBSET req[r].list
      BY <1>1, <2>1 DEF Fits, RoutedOK, Invitations
    <3> QED
      BY <1>2, <2>1, <3>1 DEF AfterUser, Thrown
  <2>3. /\ q.op = "bulk" /\ q.step \in {"next", "queued"} /\ q.left \subseteq q.list
        /\ q.list = req[r].list /\ q.tenant = req[r].tenant /\ q.noise = req[r].noise
        /\ q.space = req[r].space
    BY <1>1, <2>1, <2>2 DEF Request
  <2> QED
    BY <1>1, <2>1, <2>3 DEF Fits, RoutedOK, SeatedOK, ScreenedOK, Early, Invitations
<1> QED
  BY <1>2, IdleFits

-----------------------------------------------------------------------------
(* Steps that read, or write secrets.                                      *)

LEMMA FitsInvite ==
    ASSUME IInv, FitInv, NEW r \in Requests, NEW op \in Invitations, NEW t \in Tenants,
           NEW w \in Workspaces \cup {None}, NEW users \in SUBSET Invitees,
           Invite(r, op, t, w, users)
    PROVE  FitInv'
<1> DEFINE q == [Idle EXCEPT !.op = op, !.step = "seats", !.tenant = t, !.space = w,
                             !.list = users, !.left = IF op = "bulk" THEN {} ELSE users]
<1>1. /\ q.op = op /\ q.step = "seats" /\ q.tenant = t /\ q.space = w /\ q.list = users
      /\ q.left = IF op = "bulk" THEN {} ELSE users
  BY DEF Idle
<1>2. Become(r, q) /\ UNCHANGED people /\ (op \in {"invite", "bulk"} => TenantOf[w] = t)
  BY DEF Invite, Begin
<1> HIDE DEF q
<1>3. Fits(q)
  BY <1>1, <1>2 DEF Fits, RoutedOK, SeatedOK, ScreenedOK, Early, Invitations
<1> QED
  BY <1>2, <1>3, QuietFits DEF IInv

LEMMA FitsBegin ==
    ASSUME IInv, FitInv, NEW r \in Requests, NEW w \in Workspaces, NEW u \in Users,
           Change(r, w, u) \/ Resend(r, w, u) \/ NewSpace(r, u)
    PROVE  FitInv'
<1>1. ASSUME NEW op \in {"change", "resend"}, NEW step,
             Become(r, [Idle EXCEPT !.op = op, !.step = step, !.tenant = TenantOf[w],
                                    !.space = w, !.user = u]),
             UNCHANGED people
      PROVE  FitInv'
  <2> DEFINE q == [Idle EXCEPT !.op = op, !.step = step, !.tenant = TenantOf[w],
                               !.space = w, !.user = u]
  <2>1. q.op = op /\ q.tenant = TenantOf[w] /\ q.space = w
    BY DEF Idle
  <2> HIDE DEF q
  <2>2. Fits(q)
    BY <2>1 DEF Fits, RoutedOK, SeatedOK, ScreenedOK, Invitations
  <2> QED
    BY <1>1, <2>2, QuietFits DEF q, IInv
<1>2. CASE NewSpace(r, u)
  <2> DEFINE q == [Idle EXCEPT !.op = "space", !.step = "limit", !.user = u,
                               !.tenant = operator[u].tenant]
  <2>1. q.op = "space" /\ q.step = "limit" /\ q.user = u /\ q.tenant = operator[u].tenant
    BY DEF Idle
  <2>2. operator[u].tenant \in Tenants
    BY <1>2, MembersAssumption DEF NewSpace
  <2>3. Become(r, q) /\ UNCHANGED people
    BY <1>2 DEF NewSpace, Begin
  <2> HIDE DEF q
  <2>4. Fits(q)
    BY <2>1, <2>2 DEF Fits, RoutedOK, SeatedOK, ScreenedOK, Invitations
  <2> QED
    BY <2>3, <2>4, QuietFits DEF IInv
<1>3. CASE Change(r, w, u)
  BY <1>1, <1>3 DEF Change, Begin
<1>4. CASE Resend(r, w, u)
  BY <1>1, <1>4 DEF Resend, Begin
<1> QED
  BY <1>2, <1>3, <1>4

LEMMA FitsCountNewSeats ==
    ASSUME IInv, FitInv, NEW r \in Requests, CountNewSeats(r)
    PROVE  FitInv'
<1> DEFINE n == Cardinality(req[r].list \ Seats(req[r].tenant))
           q == [req[r] EXCEPT !.step = "room", !.need = n]
<1>1. req[r] \in Request /\ Fits(req[r]) /\ req[r].op \in Invitations
  BY StepFits, EarlyStep DEF CountNewSeats, At, Early
<1>2. Become(r, q) /\ UNCHANGED people
  BY DEF CountNewSeats
<1>3. /\ q.step = "room" /\ q.need = n /\ q.op = req[r].op /\ q.tenant = req[r].tenant
      /\ q.list = req[r].list /\ q.left = req[r].left /\ q.space = req[r].space
  BY <1>1 DEF Request
<1> HIDE DEF q
<1>4. Fits(q)
  BY <1>1, <1>3 DEF Fits, RoutedOK, SeatedOK, ScreenedOK, Early, Invitations
<1> QED
  BY <1>2, <1>4, QuietFits DEF IInv

\* What assertSeatsAvailable finds.
LEMMA RoomSeats ==
    ASSUME NEW list \in SUBSET Users, NEW t, NEW need,
           need = Cardinality(list \ Seats(t)),
           need = 0 \/ Cardinality(Seats(t)) + need <= MaxSeats
    PROVE  Seated(list, t)
<1> DEFINE S == Seats(t)
           new == list \ S
<1>1. S \in SUBSET Users /\ new \in SUBSET Users
  BY DEF Seats
<1>2. IsFiniteSet(S) /\ IsFiniteSet(new)
  BY <1>1, FiniteUsers
<1>3. S \cup list = S \cup new /\ S \cap new = {}
  OBVIOUS
<1>4. need = 0 => new = {}
  BY <1>2, FS_EmptySet
<1>5. Cardinality(S \cup new) = Cardinality(S) + Cardinality(new) - Cardinality(S \cap new)
  <2> HIDE DEF S, new
  <2> QED BY <1>2, FS_Union
<1>6. Cardinality({}) = 0 /\ Cardinality(S) \in Nat /\ Cardinality(new) \in Nat
  <2> HIDE DEF S, new
  <2>1. Cardinality({}) = 0
    BY FS_EmptySet
  <2> QED
    BY <1>2, <2>1, FS_CardinalityType
<1>7. Cardinality(S \cup new) = Cardinality(S) + need
  <2>1. Cardinality(S \cap new) = 0 /\ need = Cardinality(new)
    BY <1>3, <1>6
  <2> HIDE DEF S, new
  <2> QED BY <1>5, <1>6, <2>1
<1> QED
  BY <1>3, <1>4, <1>7 DEF Seated

LEMMA FitsAssertSeats ==
    ASSUME IInv, FitInv, NEW r \in Requests, AssertSeats(r)
    PROVE  FitInv'
<1> DEFINE s == IF req[r].op = "bulk" THEN "queued" ELSE "next"
           q == [req[r] EXCEPT !.need = 0, !.step = s]
<1>1. req[r] \in Request /\ Fits(req[r]) /\ req[r].op \in Invitations /\ req[r].step = "room"
  BY StepFits, EarlyStep DEF AssertSeats, At, Early
<1>2. UNCHANGED people
  BY DEF AssertSeats
<1>3. /\ q.step \in {"queued", "next"} /\ q.op = req[r].op /\ q.tenant = req[r].tenant
      /\ q.list = req[r].list /\ q.left = req[r].left /\ q.space = req[r].space
      /\ q.noise = req[r].noise
  BY <1>1 DEF Request
<1> HIDE DEF s
<1>4. CASE HasRoom(r)
  <2>1. Become(r, q)
    BY <1>4 DEF AssertSeats, s
  <2>2. "tenant" \notin q.noise => Seated(req[r].list, req[r].tenant)
    BY <1>1, <1>3, <1>4, RoomSeats DEF HasRoom, Fits, SeatedOK, Request
  <2> HIDE DEF q
  <2>3. Fits(q)
    BY <1>1, <1>3, <2>2 DEF Fits, RoutedOK, SeatedOK, ScreenedOK, Early, Invitations
  <2> QED
    BY <1>2, <2>1, <2>3, QuietFits DEF IInv
<1>5. CASE ~HasRoom(r)
  BY <1>2, <1>5, IdleFits, QuietFits DEF AssertSeats, IInv
<1> QED
  BY <1>4, <1>5

LEMMA FitsTake ==
    ASSUME IInv, FitInv, NEW r \in Requests, Take(r)
    PROVE  FitInv'
<1> DEFINE q == [req[r] EXCEPT !.step = "next", !.left = req[r].list]
<1>1. req[r] \in Request /\ Fits(req[r]) /\ req[r].op \in Invitations /\ req[r].step = "queued"
  BY StepFits, EarlyStep DEF Take, At, Early
<1>2. Become(r, q) /\ UNCHANGED people
  BY DEF Take
<1>3. /\ q.step = "next" /\ q.op = req[r].op /\ q.tenant = req[r].tenant
      /\ q.list = req[r].list /\ q.left = q.list /\ q.space = req[r].space
      /\ q.noise = req[r].noise
  BY <1>1 DEF Request
<1> HIDE DEF q
<1>4. Fits(q)
  BY <1>1, <1>3 DEF Fits, RoutedOK, SeatedOK, ScreenedOK, Early, Invitations
<1> QED
  BY <1>2, <1>4, QuietFits DEF IInv

LEMMA FitsFind ==
    ASSUME IInv, FitInv, NEW r \in Requests, Find(r)
    PROVE  FitInv'
<1>1. req[r] \in Request /\ Fits(req[r]) /\ req[r].op \in Invitations /\ req[r].step = "next"
      /\ UNCHANGED people
  BY StepFits, EarlyStep DEF Find, At, Early
<1>2. CASE Become(r, Idle)
  BY <1>1, <1>2, IdleFits, QuietFits DEF IInv
<1>3. ASSUME NEW u \in req[r].left, NEW s \in {"create", "operator"},
             Become(r, [req[r] EXCEPT !.step = s, !.user = u, !.noise = @ \ {"user"}])
      PROVE  FitInv'
  <2> DEFINE q == [req[r] EXCEPT !.step = s, !.user = u, !.noise = @ \ {"user"}]
  <2>1. /\ q.step = s /\ q.user = u /\ q.op = req[r].op /\ q.tenant = req[r].tenant
        /\ q.list = req[r].list /\ q.left = req[r].left /\ q.space = req[r].space
        /\ q.noise = req[r].noise \ {"user"}
    BY <1>1 DEF Request
  <2> HIDE DEF q
  <2>2. RoutedOK(q)
    BY <1>1, <2>1 DEF Fits, RoutedOK, Early, Invitations
  <2>3. SeatedOK(q) /\ ScreenedOK(q)
    BY <1>1, <2>1 DEF Fits, SeatedOK, ScreenedOK, Invitations
  <2>4. Become(r, q)
    BY <1>3 DEF q
  <2> QED
    BY <1>1, <2>2, <2>3, <2>4, QuietFits DEF IInv, Fits
<1> QED
  BY <1>2, <1>3 DEF Find

\* A user without an account belongs nowhere.
LEMMA FitsCreateUser ==
    ASSUME IInv, FitInv, NEW r \in Requests, CreateUser(r)
    PROVE  FitInv'
<1>1. /\ req[r] \in Request /\ Fits(req[r]) /\ req[r].op \in Invitations /\ req[r].step = "create"
      /\ req[r].user \in Users /\ UNCHANGED people
  BY StepFits, LateStep DEF CreateUser, At
<1>2. CASE Become(r, Thrown(r))
  BY <1>1, <1>2, OverFits, QuietFits DEF IInv
<1>3. ASSUME password[req[r].user] = NoAccount, NEW s \in {"insert", "exists"}, NEW n,
             Become(r, [req[r] EXCEPT !.step = s, !.temp = n])
      PROVE  FitInv'
  <2> DEFINE q == [req[r] EXCEPT !.step = s, !.temp = n]
  <2>1. /\ q.step = s /\ q.user = req[r].user /\ q.op = req[r].op /\ q.tenant = req[r].tenant
        /\ q.list = req[r].list /\ q.left = req[r].left /\ q.space = req[r].space
        /\ q.noise = req[r].noise
    BY <1>1 DEF Request
  <2>2. Become(r, q)
    BY <1>3
  <2> HIDE DEF q
  <2>3. ~Joined(req[r].user)
    BY <1>1, <1>3 DEF IInv, AccountsOK
  <2>4. Orgs(req[r].user) = {}
    BY <2>3 DEF Joined, Orgs, JoinedBy, Absent, IInv, TypeOK
  <2>5. Fits(q)
    BY <1>1, <2>1, <2>4 DEF Fits, RoutedOK, SeatedOK, ScreenedOK, Early, Invitations
  <2> QED
    BY <1>1, <2>2, <2>5, QuietFits DEF IInv
<1> QED
  BY <1>2, <1>3 DEF CreateUser

\* A request goes on with what is known of its user.
LEMMA FitsGoto ==
    ASSUME IInv, FitInv, NEW r \in Requests, NEW s, Goto(r, s), UNCHANGED people,
           req[r].op \in Invitations, req[r].step \notin Early, s \notin Early,
           s = "membership" => operator[req[r].user].tenant = None,
           s \in {"exists", "insert"}
               => \/ "user" \in req[r].noise
                  \/ Orgs(req[r].user) = {} \/ req[r].tenant \in Orgs(req[r].user)
    PROVE  FitInv'
<1>1. Become(r, With(r, s))
  BY DEF Goto
<1>2. RoutedOK(With(r, s))
  BY StepFits DEF Fits, RoutedOK, Invitations
<1>3. SeatedOK(With(r, s))
  <2>1. req[r].step \notin {"seats", "room"} /\ s \notin {"seats", "room"}
    BY DEF Early
  <2>2. "tenant" \notin req[r].noise => Seated(req[r].list, req[r].tenant)
    BY <2>1, StepFits DEF Fits, SeatedOK
  <2>3. /\ With(r, s).step = s /\ With(r, s).op = req[r].op
        /\ With(r, s).tenant = req[r].tenant /\ With(r, s).list = req[r].list
        /\ With(r, s).noise = req[r].noise
    BY StepFits
  <2> QED
    BY <2>1, <2>2, <2>3 DEF SeatedOK, Invitations
<1>4. ScreenedOK(With(r, s))
  BY StepFits DEF ScreenedOK
<1> QED
  BY <1>1, <1>2, <1>3, <1>4, QuietFits DEF IInv, Fits

LEMMA FitsCheckOperator ==
    ASSUME IInv, FitInv, NEW r \in Requests, CheckOperator(r)
    PROVE  FitInv'
<1> DEFINE u == req[r].user
           t == operator[u].tenant
<1>1. /\ req[r] \in Request /\ Fits(req[r]) /\ req[r].op \in Invitations /\ req[r].step = "operator"
      /\ UNCHANGED people
  BY StepFits, LateStep DEF CheckOperator, At
<1>2. CASE t = None
  BY <1>1, <1>2, FitsGoto DEF CheckOperator, Goto, Early
<1>3. CASE t # None /\ Elsewhere(r, t)
  BY <1>1, <1>3, OverFits, QuietFits DEF CheckOperator, IInv
<1>4. CASE t # None /\ ~Elsewhere(r, t)
  <2>1. Goto(r, "exists")
    BY <1>4 DEF CheckOperator, Goto
  <2>2. req[r].tenant \in Orgs(u)
    BY <1>4 DEF Elsewhere, Orgs
  <2> QED
    BY <1>1, <2>1, <2>2, FitsGoto DEF Early
<1> QED
  BY <1>2, <1>3, <1>4

LEMMA FitsCheckMembership ==
    ASSUME IInv, FitInv, NEW r \in Requests, CheckMembership(r)
    PROVE  FitInv'
<1> DEFINE u == req[r].user
<1>1. /\ req[r] \in Request /\ Fits(req[r]) /\ req[r].op \in Invitations /\ req[r].step = "membership"
      /\ UNCHANGED people
  BY StepFits, LateStep DEF CheckMembership, At
<1>2. CASE JoinedBy(u) = {} /\ Goto(r, "exists")
  <2>1. "user" \in req[r].noise \/ Orgs(u) = {}
    BY <1>1, <1>2 DEF Fits, ScreenedOK, Orgs
  <2> QED
    BY <1>1, <1>2, <2>1, FitsGoto DEF Early
<1>3. ASSUME NEW t \in JoinedBy(u), Elsewhere(r, t), Become(r, AfterUser(r))
      PROVE  FitInv'
  BY <1>1, <1>3, OverFits, QuietFits DEF IInv
<1>4. ASSUME NEW t \in JoinedBy(u), ~Elsewhere(r, t), Become(r, With(r, "exists"))
      PROVE  FitInv'
  <2>1. Goto(r, "exists") /\ req[r].tenant \in Orgs(u)
    BY <1>4 DEF Goto, Elsewhere, Orgs
  <2> QED
    BY <1>1, <2>1, FitsGoto DEF Early
<1> QED
  BY <1>2, <1>3, <1>4 DEF CheckMembership

LEMMA FitsCheckExists ==
    ASSUME IInv, FitInv, NEW r \in Requests, CheckExists(r)
    PROVE  FitInv'
<1>1. /\ req[r] \in Request /\ Fits(req[r]) /\ req[r].op \in Invitations /\ req[r].step = "exists"
      /\ UNCHANGED people
  BY StepFits, LateStep DEF CheckExists, At
<1>2. CASE Refuse(r, AfterUser(r))
  BY <1>1, <1>2, OverFits, QuietFits DEF Refuse, IInv
<1>3. CASE Goto(r, "insert")
  BY <1>1, <1>3, FitsGoto DEF Fits, ScreenedOK, Early
<1> QED
  BY <1>2, <1>3 DEF CheckExists

\* A request that is no invitation goes on.
LEMMA FitsOther ==
    ASSUME IInv, FitInv, NEW r \in Requests, NEW q, Become(r, q), UNCHANGED people,
           req[r].op \notin Invitations,
           q.op = req[r].op, q.tenant = req[r].tenant, q.space = req[r].space,
           q.user = req[r].user,
           q.op = "space" => q.step # "insert"
    PROVE  FitInv'
<1>1. Fits(q)
  BY StepFits DEF Fits, RoutedOK, SeatedOK, ScreenedOK, Invitations
<1> QED
  BY <1>1, QuietFits DEF IInv

LEMMA FitsMail ==
    ASSUME IInv, FitInv, NEW r \in Requests, Mail(r)
    PROVE  FitInv'
<1>1. Become(r, AfterUser(r)) /\ UNCHANGED people /\ req[r].step \notin {"seats", "room"}
  BY DEF Mail, At
<1> QED
  BY <1>1, OverFits, QuietFits DEF IInv

LEMMA FitsLockSpace ==
    ASSUME IInv, FitInv, NEW r \in Requests, LockSpace(r)
    PROVE  FitInv'
<1>1. req[r].op = "change"
  BY ChangeStep DEF LockSpace, At
<1>2. Become(r, With(r, "check")) /\ UNCHANGED people
  BY DEF LockSpace, Goto
<1> QED
  BY <1>1, <1>2, StepFits, FitsOther DEF Invitations

LEMMA FitsCheckChange ==
    ASSUME IInv, FitInv, NEW r \in Requests, CheckChange(r)
    PROVE  FitInv'
<1>1. req[r].op = "change" /\ req[r] \in Request /\ UNCHANGED people
  BY ChangeStep, StepFits DEF CheckChange, At
<1>2. CASE Become(r, Idle)
  BY <1>1, <1>2, IdleFits, QuietFits DEF IInv
<1>3. ASSUME NEW to, Become(r, [req[r] EXCEPT !.step = "write", !.to = to])
      PROVE  FitInv'
  <2> DEFINE q == [req[r] EXCEPT !.step = "write", !.to = to]
  <2>1. /\ q.op = req[r].op /\ q.tenant = req[r].tenant /\ q.space = req[r].space
        /\ q.user = req[r].user /\ Become(r, q)
    BY <1>1, <1>3 DEF Request
  <2> HIDE DEF q
  <2> QED
    BY <1>1, <2>1, FitsOther DEF Invitations
<1> QED
  BY <1>2, <1>3 DEF CheckChange

LEMMA FitsAssertSpaces ==
    ASSUME IInv, FitInv, NEW r \in Requests, AssertSpaces(r)
    PROVE  FitInv'
<1>1. UNCHANGED people /\ req[r].op = "space"
  BY LaterStep DEF AssertSpaces, At
<1>2. CASE BelowLimit(r)
  <2>1. Become(r, With(r, "insert"))
    BY <1>2 DEF AssertSpaces
  <2> DEFINE q == With(r, "insert")
  <2>2. /\ q.op = "space" /\ q.tenant = req[r].tenant /\ q.user = req[r].user
        /\ Fits(req[r]) /\ Cardinality(SpacesOf(q.tenant)) < MaxSpaces
    BY <1>1, <1>2, StepFits DEF BelowLimit
  <2> HIDE DEF q
  <2>3. Fits(q)
    BY <1>1, <2>2 DEF Fits, RoutedOK, SeatedOK, ScreenedOK, Invitations
  <2> QED
    BY <1>1, <2>1, <2>3, QuietFits DEF IInv, q
<1>3. CASE ~BelowLimit(r)
  BY <1>1, <1>3, IdleFits, QuietFits DEF AssertSpaces, IInv
<1> QED
  BY <1>2, <1>3

LEMMA FitsReadAccount ==
    ASSUME IInv, FitInv, NEW r \in Requests, ReadAccount(r)
    PROVE  FitInv'
<1>1. UNCHANGED people /\ req[r].op = "resend"
  BY LaterStep DEF ReadAccount, At
<1>2. CASE Become(r, Idle)
  BY <1>1, <1>2, IdleFits, QuietFits DEF IInv
<1>3. CASE Become(r, With(r, "reset"))
  BY <1>1, <1>3, StepFits, FitsOther DEF Invitations
<1> QED
  BY <1>2, <1>3 DEF ReadAccount

LEMMA FitsResetPassword ==
    ASSUME IInv, FitInv, NEW r \in Requests, ResetPassword(r)
    PROVE  FitInv'
<1> DEFINE q == [req[r] EXCEPT !.step = "mail", !.temp = made']
<1>1. UNCHANGED people /\ req[r].op = "resend" /\ req[r] \in Request /\ Become(r, q)
  BY LaterStep, StepFits DEF ResetPassword, At
<1>2. /\ q.op = req[r].op /\ q.tenant = req[r].tenant /\ q.space = req[r].space
      /\ q.user = req[r].user
  BY <1>1 DEF Request
<1> HIDE DEF q
<1> QED
  BY <1>1, <1>2, FitsOther DEF Invitations

LEMMA FitsCrash ==
    ASSUME IInv, FitInv, NEW r \in Requests, Crash(r)
    PROVE  FitInv'
<1>1. UNCHANGED people
  BY DEF Crash
<1>2. CASE req[r].step \in {"seats", "room"}
  BY <1>1, <1>2, IdleFits, QuietFits DEF Crash, At, IInv
<1>3. CASE req[r].step \notin {"seats", "room"}
  BY <1>1, <1>3, OverFits, QuietFits DEF Crash, At, IInv
<1> QED
  BY <1>2, <1>3

LEMMA FitsUnchanged ==
    ASSUME FitInv, UNCHANGED <<operator, space, member, req>>
    PROVE  FitInv'
<1>1. SpacesFit'
  BY DEF FitInv, SpacesFit
<1>2. /\ \A t : SpacesOf(t)' = SpacesOf(t) /\ Seats(t)' = Seats(t)
      /\ \A u : Orgs(u)' = Orgs(u)
  BY DEF SpacesOf, Seats, Orgs, JoinedBy
<1>3. ASSUME NEW r \in Requests PROVE Fits(req[r])'
  <2>1. RoutedOK(req[r])'
    BY DEF FitInv, Fits, RoutedOK
  <2>2. SeatedOK(req[r])' /\ ScreenedOK(req[r])'
    BY <1>2 DEF FitInv, Fits, SeatedOK, Seated, ScreenedOK
  <2> QED
    BY <2>1, <2>2 DEF Fits
<1> QED
  BY <1>1, <1>3 DEF FitInv

-----------------------------------------------------------------------------
(* Steps in which user u joins, leaves or changes in tenant t.             *)

Local(u, t) ==
    /\ \A v \in Users \ {u} : operator'[v] = operator[v]
    /\ \A w \in Workspaces, v \in Users :
           v # u \/ TenantOf[w] # t => member'[w][v] = member[w][v]
    /\ \/ operator'[u] = operator[u]
       \/ operator[u].tenant \in {None, t} /\ operator'[u].tenant = t
    /\ space \subseteq space' /\ space' \subseteq Workspaces
    /\ \A w \in space' \ space : TenantOf[w] = t

\* Nothing else changes.
LEMMA Nearby ==
    ASSUME IInv, FitInv, NEW u \in Users, NEW t \in Tenants, Local(u, t)
    PROVE  /\ \A s \in Tenants \ {t} : Seats(s)' = Seats(s) /\ SpacesOf(s)' = SpacesOf(s)
           /\ \A v \in Users \ {u} : Orgs(v)' = Orgs(v)
           /\ Seats(t) \ {u} = Seats(t)' \ {u}
           /\ Orgs(u)' \subseteq Orgs(u) \cup {t}
<1>1. /\ space \subseteq Workspaces /\ None \notin Tenants
      /\ \A w \in Workspaces \ space, v \in Users : member[w][v] = Absent
  BY MembersAssumption DEF FitInv, SpacesFit, IInv, TypeOK
<1>2. ~Absent.active
  BY DEF Absent
<1>3. \A s \in Tenants \ {t} : SpacesOf(s)' = SpacesOf(s)
  BY DEF Local, SpacesOf
<1>4. \A w \in Workspaces, v \in Users :
          v # u \/ TenantOf[w] # t => (w \in space' /\ member'[w][v].active
                                           <=> w \in space /\ member[w][v].active)
  BY <1>1, <1>2 DEF Local
<1>5. ASSUME NEW s \in Tenants \ {t} PROVE Seats(s)' = Seats(s)
  <2>1. \A v \in Users : (\E w \in SpacesOf(s)' : member'[w][v].active)
                             <=> (\E w \in SpacesOf(s) : member[w][v].active)
    BY <1>1, <1>4 DEF SpacesOf, Local
  <2>2. \A v \in Users : operator'[v] = [tenant |-> s, active |-> TRUE]
                             <=> operator[v] = [tenant |-> s, active |-> TRUE]
    BY <1>1, <1>5 DEF Local
  <2> QED
    BY <2>1, <2>2 DEF Seats
<1>6. ASSUME NEW v \in Users \ {u} PROVE Orgs(v)' = Orgs(v) /\ (v \in Seats(t)' <=> v \in Seats(t))
  <2>1. JoinedBy(v)' = JoinedBy(v)
    BY <1>1, <1>4 DEF JoinedBy, Local
  <2>2. (\E w \in SpacesOf(t)' : member'[w][v].active)
            <=> (\E w \in SpacesOf(t) : member[w][v].active)
    BY <1>1, <1>4 DEF SpacesOf, Local
  <2> QED
    BY <2>1, <2>2 DEF Orgs, Seats, Local
<1>7. Orgs(u)' \subseteq Orgs(u) \cup {t}
  <2>1. JoinedBy(u)' \subseteq JoinedBy(u) \cup {t}
    BY <1>1, <1>4 DEF JoinedBy, Local
  <2> QED
    BY <2>1 DEF Orgs, Local
<1>8. Seats(t) \subseteq Users /\ Seats(t)' \subseteq Users
  BY DEF Seats
<1> QED
  BY <1>3, <1>5, <1>6, <1>7, <1>8

\* A request that is told keeps what it knows, but for what it is told of.
Heard(p, q, u, t) ==
    /\ p.op = q.op /\ p.step = q.step /\ p.tenant = q.tenant /\ p.space = q.space
    /\ p.list = q.list /\ p.left = q.left /\ p.user = q.user /\ p.need = q.need
    /\ q.noise \subseteq p.noise
    /\ p.op \in Invitations \cup {"space"}
           => /\ q.tenant = t => "tenant" \in p.noise
              /\ q.user = u => "user" \in p.noise

LEMMA Aware ==
    ASSUME IInv, NEW s \in Requests, NEW u, NEW t
    PROVE  Heard(Noisy(req[s], u, t), req[s], u, t)
<1> PICK p : p = Noisy(req[s], u, t)
  OBVIOUS
<1>1. req[s] \in Request
  BY Going
<1>2. CASE req[s].op \in {"change", "resend"}
  BY <1>2 DEF Noisy, Invitations, Heard
<1>3. CASE req[s].op \notin {"change", "resend"}
  <2> DEFINE more == (IF req[s].tenant = t THEN {"tenant"} ELSE {})
                        \cup (IF req[s].user = u THEN {"user"} ELSE {})
  <2>1. p = [req[s] EXCEPT !.noise = req[s].noise \cup more]
    BY <1>3 DEF Noisy
  <2>2. (req[s].tenant = t => "tenant" \in more) /\ (req[s].user = u => "user" \in more)
    OBVIOUS
  <2> HIDE DEF more
  <2> QED
    BY <1>1, <2>1, <2>2 DEF Request, Heard
<1> QED
  BY <1>2, <1>3

LEMMA ToldFits ==
    ASSUME IInv, FitInv, NEW u \in Users, NEW t \in Tenants, Local(u, t),
           NEW s \in Requests, req'[s] = Noisy(req[s], u, t)
    PROVE  Fits(req[s])'
<1> DEFINE q == req[s]
<1>1. q \in Request /\ RequestOK(q) /\ RoutedOK(q) /\ SeatedOK(q) /\ ScreenedOK(q)
  BY StepFits DEF Fits
<1>2. /\ req'[s].op = q.op /\ req'[s].step = q.step /\ req'[s].tenant = q.tenant
      /\ req'[s].space = q.space /\ req'[s].list = q.list /\ req'[s].left = q.left
      /\ req'[s].user = q.user /\ req'[s].need = q.need
      /\ q.noise \subseteq req'[s].noise
      /\ q.op \in Invitations \cup {"space"}
             => /\ q.tenant = t => "tenant" \in req'[s].noise
                /\ q.user = u => "user" \in req'[s].noise
  <2>1. Heard(req'[s], req[s], u, t)
    BY Aware
  <2> QED
    BY <2>1 DEF Heard
<1>3. /\ \A x \in Tenants \ {t} : Seats(x)' = Seats(x) /\ SpacesOf(x)' = SpacesOf(x)
      /\ \A v \in Users \ {u} : Orgs(v)' = Orgs(v)
  BY Nearby
<1>4. RoutedOK(req[s])'
  <2>1. q.op = "space" => q.user \in Users
    BY LaterStep
  <2>2. q.op = "space" => operator'[q.user].tenant = q.tenant
    BY <1>1, <2>1, MembersAssumption DEF RoutedOK, Local
  <2> QED
    BY <1>1, <1>2, <2>2 DEF RoutedOK
<1>5. SeatedOK(req[s])'
  <2>1. "tenant" \notin req'[s].noise /\ q.op \in Invitations \cup {"space"}
            => /\ Seats(q.tenant)' = Seats(q.tenant) /\ SpacesOf(q.tenant)' = SpacesOf(q.tenant)
               /\ "tenant" \notin q.noise
    BY <1>1, <1>2, <1>3 DEF RoutedOK
  <2>2. "tenant" \notin req'[s].noise /\ q.op \in Invitations \cup {"space"}
            => /\ Cardinality(SpacesOf(q.tenant)') = Cardinality(SpacesOf(q.tenant))
               /\ Cardinality(q.list \ Seats(q.tenant)') = Cardinality(q.list \ Seats(q.tenant))
               /\ Seated(q.list, q.tenant) => \/ q.list \subseteq Seats(q.tenant)'
                                              \/ Cardinality(Seats(q.tenant)' \cup q.list) <= MaxSeats
    BY <2>1 DEF Seated
  <2> QED
    BY <1>1, <1>2, <2>1, <2>2 DEF SeatedOK, Seated
<1>6. ScreenedOK(req[s])'
  <2>1. q.op \in Invitations /\ q.step \in {"membership", "exists", "insert"} => q.user \in Users
    BY <1>1 DEF RequestOK, Early
  <2>2. "user" \notin req'[s].noise /\ q.op \in Invitations
          /\ q.step \in {"membership", "exists", "insert"}
            => /\ operator'[q.user] = operator[q.user] /\ Orgs(q.user)' = Orgs(q.user)
               /\ "user" \notin q.noise
    BY <1>2, <1>3, <2>1 DEF Local
  <2> QED
    BY <1>1, <1>2, <2>2 DEF ScreenedOK
<1> QED
  BY <1>4, <1>5, <1>6 DEF Fits

LEMMA LoudFits ==
    ASSUME IInv, FitInv, NEW u \in Users, NEW t \in Tenants, Local(u, t),
           \A s \in Requests : req'[s] = Noisy(req[s], u, t) \/ Fits(req[s])',
           SpacesFit'
    PROVE  FitInv'
<1>1. ASSUME NEW s \in Requests PROVE Fits(req[s])'
  BY ToldFits
<1> QED
  BY <1>1 DEF FitInv

LEMMA IdleFitsThen == ASSUME NEW r, req'[r] = Idle PROVE Fits(req[r])'
BY DEF Fits, RoutedOK, SeatedOK, ScreenedOK, Idle, Invitations

\* A member or an operator is inserted: who takes a seat was counted, and is in
\* no other organization, as far as the request was not told.
LEMMA FitsInsert ==
    ASSUME IInv, FitInv, NEW r \in Requests, Insert(r), ~IsThere(r),
           NEW u, u = req[r].user, NEW t, t = req[r].tenant
    PROVE  /\ FitInv' /\ u \in Users /\ t \in Tenants
           /\ Local(u, t) /\ space' = space /\ Moves(r)
           /\ "tenant" \notin req[r].noise /\ u \notin Seats(t)
                  => Cardinality(Seats(t)') <= MaxSeats
           /\ "user" \notin req[r].noise => Orgs(u) = {} \/ t \in Orgs(u)
<1> PICK w, q : w = req[r].space /\ q = With(r, "mail")
  OBVIOUS
<1>1. /\ req[r] \in Request /\ RequestOK(req[r]) /\ req[r].step = "insert" /\ req[r].op # "space"
      /\ RoutedOK(req[r]) /\ SeatedOK(req[r]) /\ ScreenedOK(req[r])
  BY StepFits DEF Insert, At, Fits
<1>2. req[r].op \in Invitations /\ u \in Users
  BY <1>1 DEF RequestOK, StepsOf, Early, Holding, Invitations, Request, Ops
<1>3. t \in Tenants /\ u \in req[r].list /\ req[r].list \in SUBSET Users
  BY <1>1, <1>2 DEF RoutedOK, Early, Request
<1>4. /\ req' = [Tell(u, t) EXCEPT ![r] = q]
      /\ \/ /\ req[r].op = "org" /\ operator[u].tenant = None
            /\ operator' = [operator EXCEPT ![u] = [tenant |-> t, active |-> TRUE]]
            /\ UNCHANGED <<space, member>>
         \/ \E role \in {"MEMBER", "ADMIN"} :
                /\ w \in space /\ TenantOf[w] = t
                /\ member' = [member EXCEPT ![w][u] = [role |-> role, active |-> TRUE]]
                /\ UNCHANGED <<operator, space>>
  <2>1. req[r].op # "org" => w \in space /\ TenantOf[w] = t
    BY <1>1, <1>2 DEF RequestOK, RoutedOK, Invitations
  <2> QED
    BY <2>1 DEF Insert, IsThere
<1>5. Local(u, t) /\ u \in Seats(t)' /\ space' = space /\ SpacesFit'
  <2>1. space \subseteq Workspaces
    BY DEF IInv, TypeOK
  <2>2. CASE /\ req[r].op = "org" /\ operator[u].tenant = None
             /\ operator' = [operator EXCEPT ![u] = [tenant |-> t, active |-> TRUE]]
             /\ UNCHANGED <<space, member>>
    <3>1. /\ operator'[u] = [tenant |-> t, active |-> TRUE]
          /\ \A v \in Users \ {u} : operator'[v] = operator[v]
      BY <1>2, <2>2 DEF IInv, TypeOK
    <3>2. Local(u, t)
      BY <2>1, <2>2, <3>1 DEF Local
    <3>3. u \in Seats(t)'
      BY <1>2, <3>1 DEF Seats
    <3>4. SpacesFit'
      BY <2>2 DEF FitInv, SpacesFit
    <3> QED
      BY <2>2, <3>2, <3>3, <3>4
  <2>3. ASSUME NEW role \in {"MEMBER", "ADMIN"}, w \in space, TenantOf[w] = t,
               member' = [member EXCEPT ![w][u] = [role |-> role, active |-> TRUE]],
               UNCHANGED operator, UNCHANGED space
        PROVE  <1>5
    <3>1. /\ member'[w][u] = [role |-> role, active |-> TRUE]
          /\ \A x \in Workspaces, v \in Users : x # w \/ v # u => member'[x][v] = member[x][v]
      BY <1>2, <2>1, <2>3 DEF IInv, TypeOK
    <3>2. Local(u, t)
      BY <2>1, <2>3, <3>1 DEF Local
    <3>3. u \in Seats(t)'
      BY <1>2, <2>3, <3>1 DEF Seats, SpacesOf
    <3>4. SpacesFit'
      BY <2>3, <3>1 DEF FitInv, SpacesFit
    <3> QED
      BY <2>3, <3>2, <3>3, <3>4
  <2> QED
    BY <1>4, <2>2, <2>3
<1>6. Seats(t)' = Seats(t) \cup {u}
  BY <1>2, <1>3, <1>5, Nearby
<1>7. "tenant" \notin req[r].noise => Seated(req[r].list, t)
  BY <1>1, <1>2 DEF SeatedOK
<1>8. Seats(t)' \cup req[r].list = Seats(t) \cup req[r].list
  BY <1>3, <1>6
<1>9. /\ req'[r] = q /\ q.step = "mail" /\ q.op = req[r].op /\ q.tenant = t
      /\ q.list = req[r].list /\ q.left = req[r].left /\ q.user = u /\ q.space = w
      /\ q.noise = req[r].noise
      /\ \A s \in Requests \ {r} : req'[s] = Noisy(req[s], u, t)
  BY <1>4, StepFits DEF Tell
<1>10. Fits(req[r])'
  <2>1. RoutedOK(req[r])'
    BY <1>1, <1>2, <1>9 DEF RoutedOK, Early, Invitations
  <2>2. "tenant" \notin q.noise => Seated(q.list, t)'
    BY <1>6, <1>7, <1>8, <1>9 DEF Seated
  <2>3. SeatedOK(req[r])' /\ ScreenedOK(req[r])'
    BY <1>2, <1>9, <2>2 DEF SeatedOK, Seated, ScreenedOK, Invitations
  <2> QED
    BY <2>1, <2>3 DEF Fits
<1>11. FitInv'
  BY <1>2, <1>3, <1>5, <1>9, <1>10, LoudFits
<1>12. ASSUME "tenant" \notin req[r].noise, u \notin Seats(t)
       PROVE  Cardinality(Seats(t)') <= MaxSeats
  <2>1. Cardinality(Seats(t) \cup req[r].list) <= MaxSeats
    BY <1>3, <1>7, <1>12 DEF Seated
  <2>2. Seats(t) \cup req[r].list \in SUBSET Users /\ Seats(t)' \in SUBSET Users
    BY <1>3 DEF Seats
  <2>3. Seats(t)' \subseteq Seats(t) \cup req[r].list
    BY <1>3, <1>6
  <2>4. Cardinality(Seats(t)') <= Cardinality(Seats(t) \cup req[r].list)
    BY <2>2, <2>3, FiniteUsers, FS_Subset
  <2>5. Cardinality(Seats(t)') \in Int /\ Cardinality(Seats(t) \cup req[r].list) \in Int
    BY <2>2, FiniteUsers
  <2> QED
    BY <2>1, <2>4, <2>5, BoundsAssumption
<1>13. "user" \notin req[r].noise => Orgs(u) = {} \/ t \in Orgs(u)
  BY <1>1, <1>2 DEF ScreenedOK
<1>14. Moves(r)
  BY <1>1, <1>9 DEF Moves
<1> QED
  BY <1>2, <1>3, <1>5, <1>11, <1>12, <1>13, <1>14

-----------------------------------------------------------------------------
(* Why someone joins.                                                      *)

Raced(what) == \E r \in Requests : Moves(r) /\ what \in req[r].noise

\* A step about user u and tenant t that the limits and the rule of one
\* organization allow, or that a race explains.
Allowed(u, t) ==
    /\ Local(u, t)
    /\ u \in Seats(t)' \ Seats(t) /\ Cardinality(Seats(t)') > MaxSeats
           => Reactivated(u, t) \/ Raced("tenant")
    /\ SpacesOf(t)' # SpacesOf(t) /\ Cardinality(SpacesOf(t)') > MaxSpaces => Raced("tenant")
    /\ t \in Orgs(u)' \ Orgs(u) /\ Orgs(u) # {} => Reactivated(u, t) \/ Raced("user")

Explained == UNCHANGED people \/ \E u \in Users, t \in Tenants : Allowed(u, t)

LEMMA InsertAllowed ==
    ASSUME IInv, FitInv, NEW r \in Requests, Insert(r)
    PROVE  FitInv' /\ Explained
<1>1. CASE IsThere(r)
  <2>1. UNCHANGED people /\ Become(r, Thrown(r)) /\ req[r].step = "insert"
    BY <1>1 DEF Insert, Refuse, At
  <2> QED
    BY <2>1, OverFits, QuietFits DEF Explained, IInv
<1>2. CASE ~IsThere(r)
  <2> PICK u, t : u = req[r].user /\ t = req[r].tenant
    OBVIOUS
  <2>1. /\ FitInv' /\ u \in Users /\ t \in Tenants /\ Local(u, t) /\ space' = space /\ Moves(r)
        /\ "tenant" \notin req[r].noise /\ u \notin Seats(t) => Cardinality(Seats(t)') <= MaxSeats
        /\ "user" \notin req[r].noise => Orgs(u) = {} \/ t \in Orgs(u)
    BY <1>2, FitsInsert
  <2>2. SpacesOf(t)' = SpacesOf(t)
    BY <2>1 DEF SpacesOf
  <2>3. Cardinality(Seats(t)') \in Nat
    <3>1. Seats(t)' \in SUBSET Users
      BY DEF Seats
    <3> QED
      BY <3>1, FiniteUsers
  <2>4. /\ "tenant" \in req[r].noise => Raced("tenant")
        /\ "user" \in req[r].noise => Raced("user")
    BY <2>1 DEF Raced
  <2>5. Allowed(u, t)
    BY <2>1, <2>2, <2>3, <2>4, BoundsAssumption DEF Allowed
  <2> QED
    BY <2>1, <2>5 DEF Explained
<1> QED
  BY <1>1, <1>2

\* A member that is changed was one: whoever gets a seat had lost it.
LEMMA WriteChangeAllowed ==
    ASSUME IInv, FitInv, NEW r \in Requests, WriteChange(r)
    PROVE  FitInv' /\ Explained
<1> PICK u, t, w, to : /\ u = req[r].user /\ t = req[r].tenant /\ w = req[r].space
                       /\ to = req[r].to
  OBVIOUS
<1>1. /\ req[r].step = "write" /\ req[r].op = "change" /\ u \in Users
      /\ w \in space /\ space \subseteq Workspaces
  BY ChangeStep DEF WriteChange, At
<1>2. TenantOf[w] = t /\ t \in Tenants
  <2>1. TenantOf[w] = t
    BY <1>1, StepFits DEF Fits, RoutedOK
  <2> QED
    BY <1>1, <2>1, MembersAssumption
<1>3. member[w][u] # Absent
  BY <1>1 DEF IInv, WritesOK, MayBecome
<1>4. /\ UNCHANGED <<operator, space>> /\ member' = [member EXCEPT ![w][u] = to]
      /\ req' = [Tell(u, t) EXCEPT ![r] = Idle]
  BY DEF WriteChange
<1>5. \A x \in Workspaces, v \in Users : x # w \/ v # u => member'[x][v] = member[x][v]
  BY <1>4 DEF IInv, TypeOK
<1>6. Local(u, t)
  BY <1>1, <1>2, <1>4, <1>5 DEF Local
<1>7. SpacesFit'
  BY <1>1, <1>4, <1>5 DEF FitInv, SpacesFit
<1>8. req'[r] = Idle /\ \A s \in Requests \ {r} : req'[s] = Noisy(req[s], u, t)
  BY <1>4 DEF Tell
<1>9. FitInv'
  <2>1. Fits(req[r])'
    BY <1>8, IdleFitsThen
  <2> QED
    BY <1>1, <1>2, <1>6, <1>7, <1>8, <2>1, LoudFits
<1>10. Reactivated(u, t) /\ SpacesOf(t)' = SpacesOf(t)
  BY <1>1, <1>2, <1>3, <1>4 DEF Reactivated, SpacesOf
<1> QED
  BY <1>1, <1>2, <1>6, <1>9, <1>10 DEF Explained, Allowed

LEMMA ToggleAllowed ==
    ASSUME IInv, FitInv, NEW u \in Users, ToggleOperator(u)
    PROVE  FitInv' /\ Explained
<1> PICK t : t = operator[u].tenant
  OBVIOUS
<1>1. /\ t \in Tenants /\ UNCHANGED <<space, member>>
      /\ operator' = [operator EXCEPT ![u].active = ~@] /\ req' = Tell(u, t)
  BY DEF ToggleOperator, IInv, TypeOK, Operator
<1>2. operator'[u].tenant = t /\ \A v \in Users \ {u} : operator'[v] = operator[v]
  BY <1>1 DEF IInv, TypeOK, Operator
<1>3. Local(u, t)
  BY <1>1, <1>2 DEF Local, IInv, TypeOK
<1>4. SpacesFit'
  BY <1>1 DEF FitInv, SpacesFit
<1>5. \A s \in Requests : req'[s] = Noisy(req[s], u, t)
  BY <1>1 DEF Tell
<1>6. FitInv'
  BY <1>1, <1>3, <1>4, <1>5, LoudFits
<1>7. Reactivated(u, t) /\ SpacesOf(t)' = SpacesOf(t)
  BY <1>1 DEF Reactivated, SpacesOf
<1> QED
  BY <1>1, <1>3, <1>6, <1>7 DEF Explained, Allowed

\* Who creates a workspace is an operator of its tenant.
LEMMA InsertSpaceAllowed ==
    ASSUME IInv, FitInv, NEW r \in Requests, InsertSpace(r)
    PROVE  FitInv' /\ Explained
<1> PICK u, t, m : u = req[r].user /\ t = req[r].tenant /\ m = [role |-> "ADMIN", active |-> TRUE]
  OBVIOUS
<1>1. /\ req[r].op = "space" /\ req[r].step = "insert" /\ u \in Users
      /\ space \subseteq Workspaces
  BY LaterStep DEF InsertSpace, At, IInv, TypeOK
<1>2. RoutedOK(req[r]) /\ SeatedOK(req[r])
  BY StepFits DEF Fits
<1>3. t \in Tenants /\ operator[u].tenant = t
  BY <1>1, <1>2 DEF RoutedOK
<1>4. PICK w \in Workspaces \ space :
          /\ TenantOf[w] = t
          /\ space' = space \cup {w} /\ member' = [member EXCEPT ![w][u] = m]
  BY DEF InsertSpace
<1>5. /\ UNCHANGED operator /\ req' = [Tell(u, t) EXCEPT ![r] = Idle]
      /\ \A x \in Workspaces, v \in Users : x # w \/ v # u => member'[x][v] = member[x][v]
  BY <1>4 DEF InsertSpace, IInv, TypeOK
<1>6. Local(u, t)
  BY <1>1, <1>4, <1>5 DEF Local
<1>7. SpacesFit'
  <2>1. IsFiniteSet(space \cup {w})
    BY FS_AddElement DEF FitInv, SpacesFit
  <2> QED
    BY <1>4, <1>5, <2>1 DEF FitInv, SpacesFit
<1>8. req'[r] = Idle /\ \A s \in Requests \ {r} : req'[s] = Noisy(req[s], u, t)
  BY <1>5 DEF Tell
<1>9. FitInv'
  <2>1. Fits(req[r])'
    BY <1>8, IdleFitsThen
  <2> QED
    BY <1>1, <1>3, <1>6, <1>7, <1>8, <2>1, LoudFits
<1>10. Reactivated(u, t) /\ Moves(r)
  BY <1>1, <1>3, <1>8 DEF Reactivated, Moves, Idle
<1>11. "tenant" \notin req[r].noise => Cardinality(SpacesOf(t)') <= MaxSpaces
  <2>1. SpacesOf(t)' = SpacesOf(t) \cup {w} /\ w \notin SpacesOf(t)
    BY <1>4 DEF SpacesOf
  <2>2. IsFiniteSet(SpacesOf(t))
    BY FS_Subset DEF SpacesOf, FitInv, SpacesFit
  <2>3. /\ Cardinality(SpacesOf(t) \cup {w}) = Cardinality(SpacesOf(t)) + 1
        /\ Cardinality(SpacesOf(t)) \in Nat
    BY <2>1, <2>2, FS_AddElement, FS_CardinalityType
  <2>4. "tenant" \notin req[r].noise => Cardinality(SpacesOf(t)) < MaxSpaces
    BY <1>1, <1>2 DEF SeatedOK
  <2> QED
    BY <2>1, <2>3, <2>4, BoundsAssumption
<1>12. Cardinality(SpacesOf(t)') \in Nat
  <2>1. IsFiniteSet(SpacesOf(t)')
    BY <1>7, FS_Subset DEF SpacesOf, SpacesFit
  <2> QED
    BY <2>1, FS_CardinalityType
<1>13. Cardinality(SpacesOf(t)') > MaxSpaces => Raced("tenant")
  BY <1>10, <1>11, <1>12, BoundsAssumption DEF Raced
<1> QED
  BY <1>1, <1>3, <1>6, <1>9, <1>10, <1>13 DEF Explained, Allowed

LEMMA InitFits == Init => FitInv
<1> SUFFICES ASSUME Init PROVE FitInv
  OBVIOUS
<1>1. SpacesFit
  BY FS_EmptySet DEF Init, SpacesFit
<1> QED
  BY <1>1, IdleFits DEF Init, FitInv

LEMMA NextFits == IInv /\ FitInv /\ [Next]_vars => FitInv' /\ Explained
<1> SUFFICES ASSUME IInv, FitInv, [Next]_vars PROVE FitInv' /\ Explained
  OBVIOUS
<1>1. ASSUME NEW r \in Requests, Free(r), Starting(r)
      PROVE  FitInv' /\ Explained
  <2>1. ASSUME NEW op \in Invitations, NEW t \in Tenants, NEW w \in Workspaces \cup {None},
               NEW users \in SUBSET Invitees, Invite(r, op, t, w, users)
        PROVE  FitInv' /\ Explained
    <3>1. FitInv'
      BY <2>1, FitsInvite
    <3> QED
      BY <2>1, <3>1 DEF Invite, Explained
  <2>2. ASSUME NEW w \in Workspaces, NEW u \in Users,
               Change(r, w, u) \/ Resend(r, w, u) \/ NewSpace(r, u)
        PROVE  FitInv' /\ Explained
    BY <2>2, FitsBegin DEF Change, Resend, NewSpace, Explained
  <2>3. ASSUME NEW u \in Users, NewSpace(r, u)
        PROVE  \E w \in Workspaces : TRUE
    BY <2>3 DEF NewSpace
  <2> QED
    BY <1>1, <2>1, <2>2, <2>3 DEF Starting, Invitations
<1>2. ASSUME NEW r \in Requests, Inviting(r)
      PROVE  FitInv' /\ Explained
  <2>1. CASE Insert(r)
    BY <2>1, InsertAllowed
  <2>2. CASE ~Insert(r)
    <3>1. UNCHANGED people
      BY <1>2, <2>2 DEF Inviting, CountNewSeats, AssertSeats, Take, Find, CreateUser,
         CheckOperator, CheckMembership, CheckExists, Mail
    <3>2. FitInv'
      BY <1>2, <2>2, FitsCountNewSeats, FitsAssertSeats, FitsTake, FitsFind, FitsCreateUser,
         FitsCheckOperator, FitsCheckMembership, FitsCheckExists, FitsMail DEF Inviting
    <3> QED
      BY <3>1, <3>2 DEF Explained
  <2> QED
    BY <2>1, <2>2
<1>3. ASSUME NEW r \in Requests, Changing(r)
      PROVE  FitInv' /\ Explained
  <2>1. CASE WriteChange(r)
    BY <2>1, WriteChangeAllowed
  <2>2. CASE LockSpace(r) \/ CheckChange(r)
    BY <2>2, FitsLockSpace, FitsCheckChange DEF LockSpace, CheckChange, Explained
  <2> QED
    BY <1>3, <2>1, <2>2 DEF Changing
<1>4. ASSUME NEW r \in Requests, Creating(r) \/ Resending(r)
      PROVE  FitInv' /\ Explained
  <2>1. CASE InsertSpace(r)
    BY <2>1, InsertSpaceAllowed
  <2>2. CASE AssertSpaces(r) \/ ReadAccount(r) \/ ResetPassword(r)
    BY <2>2, FitsAssertSpaces, FitsReadAccount, FitsResetPassword
       DEF AssertSpaces, ReadAccount, ResetPassword, Explained
  <2> QED
    BY <1>4, <2>1, <2>2 DEF Creating, Resending
<1>5. ASSUME NEW r \in Requests, Crash(r)
      PROVE  FitInv' /\ Explained
  BY <1>5, FitsCrash DEF Crash, Explained
<1>6. ASSUME NEW u \in Users, ToggleOperator(u)
      PROVE  FitInv' /\ Explained
  BY <1>6, ToggleAllowed
<1>7. ASSUME UNCHANGED <<people, req>>
      PROVE  FitInv' /\ Explained
  BY <1>7, FitsUnchanged DEF people, Explained
<1>8. ASSUME NEW u \in Users, ChoosePassword(u)
      PROVE  UNCHANGED <<people, req>>
  BY <1>8 DEF ChoosePassword
<1>9. UNCHANGED vars => UNCHANGED <<people, req>>
  BY DEF vars, people
<1> QED
  BY <1>1, <1>2, <1>3, <1>4, <1>5, <1>6, <1>7, <1>8, <1>9 DEF Next

\* What the requests know of seats, workspaces and users, for any instance.
LEMMA FitInvariance == Spec => [](IInv /\ FitInv)
<1>1. Init => IInv /\ FitInv
  BY InitIInv, InitFits
<1>2. (IInv /\ FitInv) /\ [Next]_vars => (IInv /\ FitInv)'
  BY NextIInv, NextFits
<1> QED
  BY <1>1, <1>2, PTL DEF Spec

LEMMA NextLimits ==
    IInv /\ FitInv /\ [Next]_vars
    => [\A t \in Tenants :
           /\ \A u \in Seats(t)' \ Seats(t) :
                  Cardinality(Seats(t)') > MaxSeats
                      => \/ Reactivated(u, t)
                         \/ \E r \in Requests : Moves(r) /\ "tenant" \in req[r].noise
           /\ SpacesOf(t)' # SpacesOf(t) /\ Cardinality(SpacesOf(t)') > MaxSpaces
                  => \E r \in Requests : Moves(r) /\ "tenant" \in req[r].noise]_people
<1> SUFFICES ASSUME IInv, FitInv, [Next]_vars, people' # people, NEW t \in Tenants
             PROVE  /\ \A u \in Seats(t)' \ Seats(t) :
                           Cardinality(Seats(t)') > MaxSeats
                               => Reactivated(u, t) \/ Raced("tenant")
                    /\ SpacesOf(t)' # SpacesOf(t) /\ Cardinality(SpacesOf(t)') > MaxSpaces
                           => Raced("tenant")
  BY DEF Raced
<1>1. PICK v \in Users, x \in Tenants : Allowed(v, x)
  BY NextFits DEF Explained
<1>2. /\ x # t => Seats(t)' = Seats(t) /\ SpacesOf(t)' = SpacesOf(t)
      /\ Seats(x) \ {v} = Seats(x)' \ {v}
  BY <1>1, Nearby DEF Allowed
<1> QED
  BY <1>1, <1>2 DEF Allowed

LEMMA NextOrgs ==
    IInv /\ FitInv /\ [Next]_vars
    => [\A u \in Users : \A t \in Orgs(u)' \ Orgs(u) :
           Orgs(u) # {} => \/ Reactivated(u, t)
                           \/ \E r \in Requests : Moves(r) /\ "user" \in req[r].noise]_people
<1> SUFFICES ASSUME IInv, FitInv, [Next]_vars, people' # people, NEW u \in Users,
                    NEW t \in Orgs(u)' \ Orgs(u), Orgs(u) # {}
             PROVE  Reactivated(u, t) \/ Raced("user")
  BY DEF Raced
<1>1. PICK v \in Users, x \in Tenants : Allowed(v, x)
  BY NextFits DEF Explained
<1>2. v = u /\ t = x
  BY <1>1, Nearby DEF Allowed
<1> QED
  BY <1>1, <1>2 DEF Allowed

\* No request alone takes an organization over its plan, for any limits.
THEOREM LimitsHold == Spec => LimitsNeedRace
BY FitInvariance, NextLimits, PTL DEF Spec, LimitsNeedRace

\* No invitation alone brings a user into a second organization.
THEOREM OneOrgAtATime == Spec => SecondOrgNeedsRace
BY FitInvariance, NextOrgs, PTL DEF Spec, SecondOrgNeedsRace
=============================================================================
