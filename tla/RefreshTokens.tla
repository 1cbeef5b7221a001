---------------------------- MODULE RefreshTokens ----------------------------
(***************************************************************************)
(* The refresh tokens of one user in the API: AuthService.rotateRefresh-   *)
(* Token and the ways a session ends (logout, revoking one or all other    *)
(* sessions, a new password), with the keys AuthRevocationService keeps in *)
(* Redis for the access tokens that are still out.                         *)
(*                                                                         *)
(* A sign-in starts a family; a refresh presents a token of the family,    *)
(* and gets its successor.  Every awaited statement is a step, so that two *)
(* calls with one token, and a call and a revocation, interleave.  Who     *)
(* calls, and what an answer does to a browser, is in BrowserSessions.     *)
(*                                                                         *)
(* Tokens do not expire here.  In the code a token nobody has used within  *)
(* its lifetime (seven days, unless configured) is refused ("Refresh token *)
(* expired"): the properties are of sessions used more often than that.    *)
(***************************************************************************)
EXTENDS Integers, Sequences

CONSTANTS
    MaxTokens,  \* bound: the rows of refresh_tokens
    Families,   \* the families, one per sign-in
    Calls,      \* slots for requests in flight
    Tabs        \* the tabs that call

ASSUME TokenAssumption == MaxTokens \in Nat \ {0}
ASSUME TabAssumption == "none" \notin Tabs

VARIABLES
    row,      \* refresh_tokens; a token is its place
    grace,    \* rows revoked within REFRESH_ROTATION_GRACE_MS
    blocked,  \* the Redis keys: families, and "user"
    member,   \* the user's membership of the workspace is active
    ended,    \* families ended on purpose (history)
    call      \* the requests in flight

server == <<row, grace, blocked, member, ended>>

-----------------------------------------------------------------------------
Row    == [family: Families, revoked: BOOLEAN]
Tokens == 0 .. MaxTokens     \* 0 is no token
Steps  == {"none", "find", "heir", "session", "issue", "consume", "reuse",
           "logout", "current", "list", "rows", "block", "answer", "settle"}
Call   == [kind: {"none", "refresh", "logout", "others", "password"},
           step: Steps, tab: Tabs \cup {"none"}, stale: BOOLEAN, clears: BOOLEAN,
           token: Tokens, new: Tokens, inGrace: BOOLEAN, families: SUBSET Families,
           result: {"none", "ok", "refused", "lost"}]

Idle == [kind |-> "none", step |-> "none", tab |-> "none", stale |-> FALSE,
         clears |-> FALSE, token |-> 0, new |-> 0, inGrace |-> FALSE,
         families |-> {}, result |-> "none"]

Goto(c, s)   == call' = [call EXCEPT ![c].step = s]

\* The server is done.  Only an answer that sets cookies passes the cookie
\* jar, of a refresh only its new token goes on, and nothing depends on the
\* answer to a revocation of sessions.
Answered(q, r, n) ==
    IF q.kind = "others" \/ (q.tab = "none" /\ r # "ok") THEN Idle
    ELSE [q EXCEPT !.step = IF r = "ok" /\ q.kind # "password" THEN "answer" ELSE "settle",
                   !.result = r, !.new = n,
                   !.token = 0, !.inGrace = FALSE, !.families = {}]

Answer(c, r) == call' = [call EXCEPT ![c] = Answered(@, r, IF r = "ok" THEN @.new ELSE 0)]

FamilyOf(n)  == row[n].family
Active(f)    == {n \in 1 .. Len(row) : row[n].family = f /\ ~row[n].revoked}
Started(f)   == \E n \in 1 .. Len(row) : row[n].family = f

\* Set revokedAt of some rows to now.
Revoke(rows) ==
    /\ row' = [n \in 1 .. Len(row) |->
                  IF n \in rows THEN [row[n] EXCEPT !.revoked = TRUE] ELSE row[n]]
    /\ grace' = grace \cup rows

\* signAndStoreRefreshToken.
Store(f) ==
    /\ Len(row) < MaxTokens
    /\ row' = Append(row, [family |-> f, revoked |-> FALSE])

-----------------------------------------------------------------------------
\* Mutant: no grace for a token consumed just now.
FindStrict(c) ==
    /\ call[c].step = "find"
    /\ LET n == call[c].token IN
       \/ n = 0 /\ Answer(c, "refused")
       \/ n # 0 /\ ~row[n].revoked /\ Goto(c, "session")
       \/ n # 0 /\ row[n].revoked /\ Goto(c, "reuse")
    /\ UNCHANGED server

\* rotateRefreshToken finds the row of the token presented, and takes the
\* time right after.  A request without a token is refused before.  (The check of
\* expiresAt that follows is left out: see above.)
Find(c) ==
    /\ call[c].step = "find"
    /\ LET n == call[c].token IN
       \/ n = 0 /\ Answer(c, "refused")
       \/ n # 0 /\ ~row[n].revoked /\ Goto(c, "session")
       \/ n # 0 /\ row[n].revoked /\ n \in grace /\ Goto(c, "heir")
       \/ n # 0 /\ row[n].revoked /\ n \notin grace /\ Goto(c, "reuse")
    /\ UNCHANGED server

\* A token consumed just now: the family must have an active one.
Heir(c) ==
    /\ call[c].step = "heir"
    /\ IF Active(FamilyOf(call[c].token)) # {}
       THEN call' = [call EXCEPT ![c].step = "session", ![c].inGrace = TRUE]
       ELSE Goto(c, "reuse")
    /\ UNCHANGED server

\* Mutant: the token presented is consumed before its successor is stored.
SessionConsumes(c) ==
    /\ call[c].step = "session"
    /\ member
    /\ Revoke({call[c].token})
    /\ call' = [call EXCEPT ![c].step = "issue", ![c].inGrace = TRUE]
    /\ UNCHANGED <<blocked, member, ended>>

\* refreshSession: no session without an active membership.
Session(c) ==
    /\ call[c].step = "session"
    /\ IF member THEN Goto(c, "issue") ELSE Answer(c, "refused")
    /\ UNCHANGED server

\* The successor is stored; within the grace window that is all.
Issue(c) ==
    /\ call[c].step = "issue"
    /\ Store(FamilyOf(call[c].token))
    /\ call' = [call EXCEPT
           ![c] = IF @.inGrace THEN Answered(@, "ok", Len(row'))
                  ELSE [@ EXCEPT !.step = "consume", !.new = Len(row')]]
    /\ UNCHANGED <<grace, blocked, member, ended>>

\* Mutant: the tokens of the family but the new one are consumed.
ConsumeAll(c) ==
    /\ call[c].step = "consume"
    /\ Revoke({n \in 1 .. Len(row) : /\ row[n].family = FamilyOf(call[c].token)
                                    /\ n # call[c].new})
    /\ Answer(c, "ok")
    /\ UNCHANGED <<blocked, member, ended>>

\* The token presented is consumed last.
Consume(c) ==
    /\ call[c].step = "consume"
    /\ Revoke({call[c].token})
    /\ Answer(c, "ok")
    /\ UNCHANGED <<blocked, member, ended>>

\* Reuse detected: every row of the family is revoked, those that were
\* revoked before too.
Reuse(c) ==
    /\ call[c].step = "reuse"
    /\ Revoke({n \in 1 .. Len(row) : row[n].family = FamilyOf(call[c].token)})
    /\ Answer(c, "refused")
    /\ UNCHANGED <<blocked, member, ended>>

-----------------------------------------------------------------------------
\* logout revokes the one token presented, if any.
Logout(c) ==
    /\ call[c].step = "logout"
    /\ IF call[c].token = 0
       THEN UNCHANGED <<row, grace, ended>>
       ELSE /\ Revoke({call[c].token})
            /\ ended' = ended \cup {FamilyOf(call[c].token)}
    /\ Answer(c, "ok")
    /\ UNCHANGED <<blocked, member>>

\* revokeOtherSessions looks for the row of its own token, among those not
\* revoked.
Current(c) ==
    /\ call[c].step = "current"
    /\ LET n == call[c].token IN
       call' = [call EXCEPT ![c].step = "list",
                   ![c].families = IF n # 0 /\ ~row[n].revoked THEN {FamilyOf(n)} ELSE {}]
    /\ UNCHANGED server

\* It lists the families of the other active rows.
List(c) ==
    /\ call[c].step = "list"
    /\ LET others == {f \in Families : Active(f) # {}} \ call[c].families IN
       IF others = {}
       THEN Answer(c, "ok")
       ELSE call' = [call EXCEPT ![c].step = "rows", ![c].families = others]
    /\ UNCHANGED server

\* revokeOtherSessions, revokeSession, changePassword (all the families):
\* first the rows ...
RevokeRows(c) ==
    /\ call[c].step = "rows"
    /\ LET families == IF call[c].kind = "password"
                       THEN {f \in Families : Active(f) # {}}
                       ELSE call[c].families IN
       /\ Revoke(UNION {Active(f) : f \in families})
       /\ ended' = ended \cup families
    /\ Goto(c, "block")
    /\ UNCHANGED <<blocked, member>>

\* ... then the Redis keys.  A new password blocks the user, whatever the
\* session; the key lives as long as an access token.
Block(c) ==
    /\ call[c].step = "block"
    /\ blocked' = blocked \cup
           (IF call[c].kind = "password" THEN {"user"} ELSE call[c].families)
    /\ Answer(c, "ok")
    /\ UNCHANGED <<row, grace, member, ended>>

-----------------------------------------------------------------------------
\* The API process dies, or the answer is lost on its way.
Lose(c) ==
    /\ call[c].step \notin {"none", "settle"}
    /\ Answer(c, "lost")
    /\ UNCHANGED server

\* JwtAuthGuard for an access token of a family: assertNotRevoked.
Accepts(f) == "user" \notin blocked /\ f \notin blocked

ServerStep(c) ==
    \/ Find(c) \/ Heir(c) \/ Session(c) \/ Issue(c) \/ Consume(c) \/ Reuse(c)
    \/ Logout(c) \/ Current(c) \/ List(c) \/ RevokeRows(c) \/ Block(c)
=============================================================================
