------------------------ MODULE BrowserSessionsProofs ------------------------
(***************************************************************************)
(* A session that nobody ended can always refresh, and reuse of a token is *)
(* detected for a cause only, for any tabs, requests, families, rows and   *)
(* retries.                                                                *)
(*                                                                         *)
(* Both rest on two facts about a revoked row of a family that nobody      *)
(* ended and no token of which was held for too long: it is within its     *)
(* grace, and it has a successor.  So the newest row of the family is not  *)
(* revoked.                                                                *)
(***************************************************************************)
EXTENDS BrowserSessions, WellFoundedInduction, TLAPS

Caused == ended \cup overdue

\* What a request knows of the rows r, when the families in caused had a cause.
Rotating == {"heir", "session", "issue", "consume", "reuse"}
Ending   == {"logout", "current", "list", "rows", "block"}

CallOK(q, r, caused) ==
    /\ q.token \in 0 .. Len(r) /\ q.new \in 0 .. Len(r)
    /\ q.step \in Rotating => q.token # 0
    /\ q.step = "consume" => q.token < q.new /\ r[q.token].family = r[q.new].family
    /\ q.step = "reuse" => r[q.token].family \in caused
    /\ q.kind = "refresh" => q.step \notin Ending
    /\ q.kind = "refresh" /\ q.result = "ok" => q.new # 0

Later(n, r) == \E m \in n + 1 .. Len(r) : r[m].family = r[n].family

RowsOK == row \in Seq(Row) /\ Len(row) <= MaxTokens /\ grace \subseteq 1 .. Len(row)
Newer  == \A n \in 1 .. Len(row) : row[n].revoked => row[n].family \in Caused \/ Later(n, row)
InTime == \A n \in 1 .. Len(row) : row[n].revoked => row[n].family \in Caused \/ n \in grace
EndsOK == ended \subseteq Families /\ overdue \subseteq Families
KeysOK == blocked \subseteq Families \cup {"user"} /\ member \in BOOLEAN
HeldOK == {cookie, stored} \subseteq 0 .. Len(row) /\ access \in Families \cup {"none"}
TabsOK == tab \in [Tabs -> Tab] /\ upsets \in 0 .. MaxUpsets
CallsOK == call \in [Calls -> Call] /\ \A c \in Calls : CallOK(call[c], row, Caused)

IInv == /\ RowsOK /\ Newer /\ InTime /\ EndsOK
        /\ KeysOK /\ HeldOK /\ TabsOK /\ CallsOK

-----------------------------------------------------------------------------
(* The newest row of a family.                                             *)

LEMMA Newest ==
    ASSUME NEW k \in Nat, NEW S \in SUBSET (1 .. k), S # {}
    PROVE  \E n \in S : \A m \in S : m <= n
<1> DEFINE R == OpToRel(<, Nat)
           D == {d \in Nat : k - d \in S}
<1>1. IsWellFoundedOn(R, Nat)
  BY NatLessThanWellFounded
<1>2. \A m \in S : k - m \in Nat /\ k - (k - m) = m
  OBVIOUS
<1>3. \A m \in S : k - m \in D
  BY <1>2
<1>4. D \subseteq Nat /\ D # {}
  BY <1>3
<1>5. PICK x \in D : \A y \in D : ~(<<y, x>> \in R)
  <2> HIDE DEF R, D
  <2> QED BY <1>1, <1>4, WFMin
<1>6. \A y \in D : ~(y < x)
  BY <1>4, <1>5 DEF OpToRel
<1> QED
  BY <1>4, <1>6, <1>3

LEMMA HeirIsKept ==
    ASSUME RowsOK, Newer, NEW f \in Families, Started(f)
    PROVE  Active(f) # {} \/ f \in Caused
<1> DEFINE S == {n \in 1 .. Len(row) : row[n].family = f}
<1>1. S \in SUBSET (1 .. Len(row)) /\ S # {} /\ Len(row) \in Nat
  BY DEF Started, RowsOK
<1>2. PICK n \in S : \A m \in S : m <= n
  <2> HIDE DEF S
  <2> QED BY <1>1, Newest
<1>3. ~Later(n, row)
  BY <1>1, <1>2 DEF Later
<1> QED
  BY <1>2, <1>3 DEF Newer, Active

-----------------------------------------------------------------------------
(* What changes of the rows.                                               *)

\* Rows keep their family, and causes stay.
Grows == /\ Len(row) <= Len(row')
         /\ \A n \in 1 .. Len(row) : row'[n].family = row[n].family
         /\ Caused \subseteq Caused'

LEMMA CallStays ==
    ASSUME RowsOK, RowsOK', Grows, NEW q \in Call, CallOK(q, row, Caused)
    PROVE  CallOK(q, row', Caused')
BY DEF CallOK, RowsOK, Grows, Rotating, Call

\* The rows, and the calls but for some that are as good.
LEMMA CallsStay ==
    ASSUME RowsOK, RowsOK', Grows, CallsOK,
           call' \in [Calls -> Call],
           \A c \in Calls : call'[c] = call[c] \/ CallOK(call'[c], row', Caused')
    PROVE  CallsOK'
BY CallStays DEF CallsOK

\* One call, to what is as good.
LEMMA CallChanges ==
    ASSUME RowsOK, RowsOK', Grows, CallsOK, NEW c \in Calls, NEW q \in Call,
           call' = [call EXCEPT ![c] = q], CallOK(q, row', Caused')
    PROVE  CallsOK'
<1>1. call' \in [Calls -> Call] /\ \A d \in Calls : call'[d] = call[d] \/ call'[d] = q
  BY DEF CallsOK
<1> QED
  BY <1>1, CallsStay

LEMMA RowAt ==
    ASSUME RowsOK, NEW n \in 1 .. Len(row)
    PROVE  /\ row[n] \in Row /\ row[n].family \in Families
           /\ FamilyOf(n) \in Families /\ Started(FamilyOf(n))
<1>1. row[n] \in Row
  BY DEF RowsOK
<1> QED
  BY <1>1 DEF Row, FamilyOf, Started

LEMMA Stays ==
    ASSUME RowsOK, Newer, InTime, EndsOK, UNCHANGED <<row, grace, ended, overdue>>
    PROVE  RowsOK' /\ Newer' /\ InTime' /\ EndsOK' /\ Grows
BY DEF RowsOK, Newer, InTime, EndsOK, Caused, Later, Grows

LEMMA Stores ==
    ASSUME RowsOK, Newer, InTime, EndsOK, NEW f \in Families, Store(f),
           UNCHANGED <<grace, ended, overdue>>
    PROVE  /\ RowsOK' /\ Newer' /\ InTime' /\ EndsOK' /\ Grows
           /\ Len(row') = Len(row) + 1 /\ row'[Len(row')].family = f
<1> DEFINE e == [family |-> f, revoked |-> FALSE]
<1>1. /\ row \in Seq(Row) /\ e \in Row /\ row' = Append(row, e)
      /\ Len(row) < MaxTokens /\ Len(row) \in Nat
  BY DEF RowsOK, Row, Store
<1>2. /\ row' \in Seq(Row) /\ Len(row') = Len(row) + 1
      /\ row'[Len(row')] = e
      /\ \A n \in 1 .. Len(row) : row'[n] = row[n]
  BY <1>1
<1>3. RowsOK' /\ EndsOK' /\ Grows
  BY <1>1, <1>2, TokenAssumption DEF RowsOK, EndsOK, Grows, Caused
<1>4. \A n \in 1 .. Len(row) : Later(n, row) => Later(n, row')
  BY <1>1, <1>2 DEF Later
<1>5. \A n \in 1 .. Len(row') : row'[n].revoked => n \in 1 .. Len(row) /\ row'[n] = row[n]
  BY <1>1, <1>2
<1>6. Newer' /\ InTime'
  BY <1>4, <1>5 DEF Newer, InTime, Caused
<1> QED
  BY <1>2, <1>3, <1>6

LEMMA Revokes ==
    ASSUME RowsOK, Newer, InTime, NEW rows \in SUBSET (1 .. Len(row)), Revoke(rows),
           EndsOK', Caused \subseteq Caused',
           \A n \in rows : row[n].family \in Caused' \/ Later(n, row)
    PROVE  RowsOK' /\ Newer' /\ InTime' /\ Grows /\ Len(row') = Len(row)
<1>1. /\ Len(row) \in Nat /\ row \in Seq(Row)
      /\ \A n \in 1 .. Len(row) : row[n] \in Row
  BY DEF RowsOK
<1> DEFINE r == [n \in 1 .. Len(row) |->
                    IF n \in rows THEN [row[n] EXCEPT !.revoked = TRUE] ELSE row[n]]
<1>2. \A n \in 1 .. Len(row) : r[n] \in Row /\ r[n].family = row[n].family
  BY <1>1 DEF Row
<1>3. r \in Seq(Row) /\ Len(r) = Len(row)
  BY <1>1, <1>2
<1>4. row' = r /\ grace' = grace \cup rows
  BY DEF Revoke
<1>5. \A n \in 1 .. Len(row) : row'[n].revoked => n \in rows \/ row[n].revoked
  BY <1>4
<1>6. /\ row' \in Seq(Row) /\ Len(row') = Len(row)
      /\ \A n \in 1 .. Len(row) : row'[n].family = row[n].family
  BY <1>2, <1>3, <1>4
<1> HIDE DEF r
<1>7. RowsOK' /\ Grows
  BY <1>1, <1>4, <1>6 DEF RowsOK, Grows
<1>8. \A n \in 1 .. Len(row) : Later(n, row) => Later(n, row')
  BY <1>1, <1>6 DEF Later
<1>9. Newer'
  BY <1>5, <1>6, <1>8 DEF Newer
<1>10. InTime'
  BY <1>4, <1>5, <1>6 DEF InTime
<1> QED
  BY <1>6, <1>7, <1>9, <1>10

-----------------------------------------------------------------------------
(* Requests.                                                               *)

LEMMA IdleOK == Idle \in Call /\ \A r \in Seq(Row) : \A S : CallOK(Idle, r, S)
BY TokenAssumption DEF Idle, Call, CallOK, Tokens, Steps, Rotating, Ending

LEMMA SendOK ==
    ASSUME RowsOK, NEW t \in Tabs, NEW c \in Calls, NEW token \in 0 .. Len(row),
           NEW kind \in {"refresh", "logout", "others", "password"},
           NEW step \in {"find", "logout", "current", "rows"},
           kind = "refresh" => step = "find", call \in [Calls -> Call]
    PROVE  /\ Send(t, c, kind, step, token) \in [Calls -> Call]
           /\ CallOK(Send(t, c, kind, step, token)[c], row, Caused)
           /\ \A d \in Calls \ {c} : Send(t, c, kind, step, token)[d] = call[d]
<1> DEFINE q == [Idle EXCEPT !.kind = kind, !.step = step, !.tab = t, !.token = token]
<1>1. /\ q \in Call /\ q.kind = kind /\ q.step = step /\ q.token = token
      /\ q.new = 0 /\ q.result = "none"
  <2>1. token \in Tokens
    BY TokenAssumption DEF Tokens, RowsOK
  <2>2. Idle \in Call /\ Idle.new = 0 /\ Idle.result = "none"
    BY IdleOK DEF Idle, RowsOK
  <2>3. step \in Steps /\ t \in Tabs \cup {"none"}
    BY DEF Steps
  <2> QED
    BY <2>1, <2>2, <2>3 DEF Call
<1>2. Send(t, c, kind, step, token) = [call EXCEPT ![c] = q]
  BY DEF Send
<1> HIDE DEF q
<1>3. CallOK(q, row, Caused)
  BY <1>1 DEF CallOK, RowsOK, Rotating, Ending
<1> QED
  BY <1>1, <1>2, <1>3

\* The answer to a request whose new token, if it is needed, is there.
LEMMA AnsweredOK ==
    ASSUME NEW q \in Call, NEW a \in {"ok", "refused", "lost"}, NEW r \in Seq(Row),
           NEW n \in 0 .. Len(r), Len(r) <= MaxTokens, NEW S,
           q.kind = "refresh" /\ a = "ok" => n # 0
    PROVE  Answered(q, a, n) \in Call /\ CallOK(Answered(q, a, n), r, S)
<1>1. CASE q.kind = "others" \/ (q.tab = "none" /\ a # "ok")
  BY <1>1, IdleOK DEF Answered
<1>2. CASE ~(q.kind = "others" \/ (q.tab = "none" /\ a # "ok"))
  <2> DEFINE p == [q EXCEPT
                 !.step = IF a = "ok" /\ q.kind # "password" THEN "answer" ELSE "settle",
                 !.result = a, !.new = n, !.token = 0, !.inGrace = FALSE, !.families = {}]
  <2>1. Answered(q, a, n) = p
    BY <1>2 DEF Answered
  <2>2. /\ p \in Call /\ p.step \in {"answer", "settle"} /\ p.result = a
        /\ p.new = n /\ p.token = 0 /\ p.kind = q.kind
    <3>1. n \in Tokens /\ 0 \in Tokens
      BY TokenAssumption DEF Tokens
    <3> HIDE DEF Tokens
    <3>2. {"answer", "settle"} \subseteq Steps
      BY DEF Steps
    <3> QED
      BY <3>1, <3>2 DEF Call
  <2> HIDE DEF p
  <2>3. CallOK(p, r, S)
    BY <2>2 DEF CallOK, Rotating, Ending
  <2> QED
    BY <2>1, <2>2, <2>3
<1> QED
  BY <1>1, <1>2

\* A step of a request that leaves the rows alone.
LEMMA Goes ==
    ASSUME RowsOK, CallsOK, Grows, RowsOK', NEW c \in Calls, NEW s \in Steps, Goto(c, s),
           s \in {"heir", "session", "issue"} => call[c].token # 0,
           s = "reuse" => call[c].token # 0 /\ FamilyOf(call[c].token) \in Caused',
           s # "consume", call[c].kind = "refresh" => s \notin Ending
    PROVE  CallsOK'
<1> DEFINE q == [call[c] EXCEPT !.step = s]
<1>1. call' = [call EXCEPT ![c] = q] /\ call[c] \in Call /\ CallOK(call[c], row, Caused)
  BY DEF Goto, CallsOK
<1>2. /\ q \in Call /\ q.step = s /\ q.token = call[c].token /\ q.new = call[c].new
      /\ q.kind = call[c].kind /\ q.result = call[c].result
  BY <1>1 DEF Call
<1> HIDE DEF q
<1>3. CallOK(call[c], row', Caused')
  BY <1>1, CallStays
<1>4. CallOK(q, row', Caused')
  BY <1>1, <1>2, <1>3 DEF CallOK, RowsOK, Grows, FamilyOf, Rotating
<1> QED
  BY <1>1, <1>2, <1>4, CallChanges

LEMMA Answers ==
    ASSUME RowsOK, CallsOK, Grows, RowsOK', NEW c \in Calls,
           NEW a \in {"ok", "refused", "lost"}, Answer(c, a),
           call[c].kind = "refresh" /\ a = "ok" => call[c].new # 0
    PROVE  CallsOK'
<1> DEFINE n == IF a = "ok" THEN call[c].new ELSE 0
           q == Answered(call[c], a, n)
<1>1. call[c] \in Call /\ call[c].new \in 0 .. Len(row')
  BY DEF CallsOK, CallOK, RowsOK, Grows
<1>2. n \in 0 .. Len(row') /\ (call[c].kind = "refresh" /\ a = "ok" => n # 0)
  BY <1>1 DEF RowsOK
<1> HIDE DEF n
<1>3. q \in Call /\ CallOK(q, row', Caused')
  BY <1>1, <1>2, AnsweredOK DEF RowsOK
<1> HIDE DEF q
<1>4. call' = [call EXCEPT ![c] = q]
  BY DEF Answer, n, q
<1> QED
  BY <1>3, <1>4, CallChanges

-----------------------------------------------------------------------------
(* The steps of the API.                                                   *)

LEMMA BrowserStays ==
    ASSUME IInv, RowsOK', Grows, UNCHANGED browser
    PROVE  HeldOK' /\ TabsOK'
BY DEF IInv, HeldOK, TabsOK, browser, RowsOK, Grows

\* A step that reads.
LEMMA ServerStays ==
    ASSUME IInv, UNCHANGED server, UNCHANGED browser
    PROVE  RowsOK' /\ Newer' /\ InTime' /\ EndsOK' /\ Grows /\ KeysOK' /\ HeldOK' /\ TabsOK'
<1>1. UNCHANGED <<row, grace, ended, overdue>>
  BY DEF server, browser
<1>2. RowsOK' /\ Newer' /\ InTime' /\ EndsOK' /\ Grows
  BY <1>1, Stays DEF IInv
<1>3. KeysOK'
  BY DEF IInv, KeysOK, server
<1> QED
  BY <1>2, <1>3, BrowserStays

LEMMA FindOK ==
    ASSUME IInv, NEW c \in Calls, Find(c), UNCHANGED browser
    PROVE  IInv'
<1>1. /\ RowsOK' /\ Newer' /\ InTime' /\ EndsOK' /\ Grows /\ KeysOK' /\ HeldOK' /\ TabsOK'
      /\ RowsOK /\ CallsOK /\ InTime
  BY ServerStays DEF Find, IInv
<1> SUFFICES CallsOK'
  BY <1>1 DEF IInv
<1>2. /\ "heir" \in Steps \ Ending /\ "session" \in Steps \ Ending
      /\ "reuse" \in Steps \ Ending
  BY DEF Steps, Ending
<1>3. call[c].token \in 0 .. Len(row) /\ Caused \subseteq Caused'
  BY <1>1 DEF CallsOK, CallOK, Grows
<1>4. CASE Answer(c, "refused")
  BY <1>1, <1>4, Answers
<1>5. CASE call[c].token # 0 /\ Goto(c, "session")
  BY <1>1, <1>2, <1>5, Goes
<1>6. CASE call[c].token # 0 /\ Goto(c, "heir")
  BY <1>1, <1>2, <1>6, Goes
<1>7. CASE /\ call[c].token # 0 /\ Goto(c, "reuse")
           /\ row[call[c].token].revoked /\ call[c].token \notin grace
  <2>1. call[c].token \in 1 .. Len(row)
    BY <1>3, <1>7, <1>1 DEF RowsOK
  <2>2. FamilyOf(call[c].token) \in Caused'
    BY <1>1, <1>3, <1>7, <2>1 DEF InTime, FamilyOf
  <2> QED
    BY <1>1, <1>2, <1>7, <2>2, Goes
<1> QED
  BY <1>4, <1>5, <1>6, <1>7 DEF Find

LEMMA HeirOK ==
    ASSUME IInv, NEW c \in Calls, Heir(c), UNCHANGED browser
    PROVE  IInv'
<1>1. /\ RowsOK' /\ Newer' /\ InTime' /\ EndsOK' /\ Grows /\ KeysOK' /\ HeldOK' /\ TabsOK'
      /\ RowsOK /\ CallsOK /\ Newer
  BY ServerStays DEF Heir, IInv
<1> SUFFICES CallsOK'
  BY <1>1 DEF IInv
<1>2. /\ call[c] \in Call /\ CallOK(call[c], row, Caused)
      /\ call[c].token \in 1 .. Len(row) /\ Caused \subseteq Caused'
  BY <1>1 DEF Heir, CallsOK, CallOK, RowsOK, Rotating, Grows
<1>3. CASE Active(FamilyOf(call[c].token)) # {}
  <2> DEFINE q == [call[c] EXCEPT !.step = "session", !.inGrace = TRUE]
  <2>1. call' = [call EXCEPT ![c] = q]
    BY <1>3 DEF Heir
  <2>2. /\ q \in Call /\ q.step = "session" /\ q.token = call[c].token
        /\ q.new = call[c].new /\ q.kind = call[c].kind /\ q.result = call[c].result
    BY <1>2 DEF Call, Steps
  <2> HIDE DEF q
  <2>3. CallOK(q, row', Caused')
    BY <1>2, <2>2, <1>1, CallStays DEF CallOK, Rotating, Ending, RowsOK, Grows
  <2> QED
    BY <1>1, <2>1, <2>2, <2>3, CallChanges
<1>4. CASE Active(FamilyOf(call[c].token)) = {}
  <2>1. FamilyOf(call[c].token) \in Families /\ Started(FamilyOf(call[c].token))
    BY <1>1, <1>2, RowAt
  <2>2. FamilyOf(call[c].token) \in Caused'
    BY <1>1, <1>2, <1>4, <2>1, HeirIsKept
  <2>3. Goto(c, "reuse") /\ "reuse" \in Steps \ Ending /\ call[c].token # 0
    BY <1>2, <1>4 DEF Heir, Steps, Ending
  <2> QED
    BY <1>1, <2>2, <2>3, Goes
<1> QED
  BY <1>3, <1>4

LEMMA SessionOK ==
    ASSUME IInv, NEW c \in Calls, Session(c), UNCHANGED browser
    PROVE  IInv'
<1>1. /\ RowsOK' /\ Newer' /\ InTime' /\ EndsOK' /\ Grows /\ KeysOK' /\ HeldOK' /\ TabsOK'
      /\ RowsOK /\ CallsOK
  BY ServerStays DEF Session, IInv
<1>2. call[c].token # 0 /\ "issue" \in Steps
  BY <1>1 DEF Session, CallsOK, CallOK, Rotating, Steps
<1>3. CallsOK'
  BY <1>1, <1>2, Goes, Answers DEF Session, Ending
<1> QED
  BY <1>1, <1>3 DEF IInv

LEMMA IssueOK ==
    ASSUME IInv, NEW c \in Calls, Issue(c), UNCHANGED browser
    PROVE  IInv'
<1> DEFINE f == FamilyOf(call[c].token)
           q == IF call[c].inGrace THEN Answered(call[c], "ok", Len(row'))
                ELSE [call[c] EXCEPT !.step = "consume", !.new = Len(row')]
<1>1. RowsOK /\ Newer /\ InTime /\ EndsOK /\ CallsOK
  BY DEF IInv
<1>2. /\ call[c] \in Call /\ CallOK(call[c], row, Caused)
      /\ call[c].token \in 1 .. Len(row)
  BY <1>1 DEF Issue, CallsOK, CallOK, RowsOK, Rotating
<1> f \in Families
  BY <1>1, <1>2, RowAt
<1>3. /\ RowsOK' /\ Newer' /\ InTime' /\ EndsOK' /\ Grows
      /\ Len(row') = Len(row) + 1 /\ row'[Len(row')].family = f
  <2> HIDE DEF f
  <2>1. Store(f) /\ UNCHANGED <<grace, ended, overdue>>
    BY DEF Issue, browser, f
  <2> QED
    BY <1>1, <1>2, <2>1, Stores
<1>4. Len(row') \in 1 .. Len(row') /\ row'[call[c].token].family = row'[Len(row')].family
      /\ call[c].token < Len(row') /\ Len(row') \in Tokens
  BY <1>1, <1>2, <1>3, TokenAssumption DEF RowsOK, Grows, FamilyOf, Tokens
<1>5. q \in Call /\ CallOK(q, row', Caused')
  <2>1. CASE call[c].inGrace
    BY <1>2, <1>3, <1>4, <2>1, AnsweredOK DEF RowsOK
  <2>2. CASE ~call[c].inGrace
    <3>1. /\ q \in Call /\ q.step = "consume" /\ q.token = call[c].token
          /\ q.new = Len(row') /\ q.kind = call[c].kind
      BY <1>2, <1>4, <2>2 DEF Call, Steps
    <3> HIDE DEF q
    <3> QED
      BY <1>2, <1>3, <1>4, <3>1 DEF CallOK, Rotating, Ending, RowsOK, Grows
  <2> QED
    BY <2>1, <2>2
<1>6. call' = [call EXCEPT ![c] = q]
  BY DEF Issue
<1> HIDE DEF q, f
<1>8. CallsOK'
  BY <1>1, <1>3, <1>5, <1>6, CallChanges
<1>9. KeysOK'
  BY DEF Issue, IInv, KeysOK
<1> QED
  BY <1>3, <1>8, <1>9, BrowserStays DEF IInv

\* The rows of a request are revoked, and it goes on or answers.
LEMMA RevokingOK ==
    ASSUME IInv, NEW c \in Calls, NEW rows \in SUBSET (1 .. Len(row)), Revoke(rows),
           UNCHANGED browser, KeysOK', EndsOK', ended \subseteq ended',
           \A n \in rows : row[n].family \in Caused' \/ Later(n, row),
           \/ Goto(c, "block") /\ call[c].kind # "refresh"
           \/ \E a \in {"ok", "refused"} :
                  Answer(c, a) /\ (call[c].kind = "refresh" /\ a = "ok" => call[c].new # 0)
    PROVE  IInv'
<1>1. RowsOK /\ Newer /\ InTime /\ CallsOK /\ Caused \subseteq Caused'
  BY DEF IInv, Caused, browser
<1>2. RowsOK' /\ Newer' /\ InTime' /\ Grows
  BY <1>1, Revokes
<1>3. HeldOK' /\ TabsOK'
  BY <1>2, BrowserStays
<1> SUFFICES CallsOK'
  BY <1>2, <1>3 DEF IInv
<1>4. CASE Goto(c, "block") /\ call[c].kind # "refresh"
  <2>1. "block" \in Steps
    BY DEF Steps
  <2> QED
    BY <1>1, <1>2, <1>4, <2>1, Goes
<1>5. CASE \E a \in {"ok", "refused"} :
               Answer(c, a) /\ (call[c].kind = "refresh" /\ a = "ok" => call[c].new # 0)
  <2>1. PICK a \in {"ok", "refused"} :
            Answer(c, a) /\ (call[c].kind = "refresh" /\ a = "ok" => call[c].new # 0)
    BY <1>5
  <2> QED
    BY <1>1, <1>2, <2>1, Answers
<1> QED
  BY <1>4, <1>5

LEMMA ConsumeOK ==
    ASSUME IInv, NEW c \in Calls, Consume(c), UNCHANGED browser
    PROVE  IInv'
<1>1. /\ call[c].token \in 1 .. Len(row) /\ call[c].new \in 1 .. Len(row)
      /\ call[c].token < call[c].new
      /\ row[call[c].token].family = row[call[c].new].family
  BY DEF IInv, Consume, CallsOK, CallOK, RowsOK, Rotating
<1>2. Later(call[c].token, row)
  BY <1>1 DEF Later
<1>3. KeysOK' /\ EndsOK' /\ ended \subseteq ended'
  BY DEF IInv, Consume, KeysOK, EndsOK, browser
<1> QED
  BY <1>1, <1>2, <1>3, RevokingOK DEF Consume

LEMMA ReuseOK ==
    ASSUME IInv, NEW c \in Calls, Reuse(c), UNCHANGED browser
    PROVE  IInv'
<1> DEFINE rows == {n \in 1 .. Len(row) : row[n].family = FamilyOf(call[c].token)}
<1>1. KeysOK' /\ EndsOK' /\ ended \subseteq ended' /\ Caused' = Caused
  BY DEF IInv, Reuse, KeysOK, EndsOK, browser, Caused
<1>2. FamilyOf(call[c].token) \in Caused
  BY DEF IInv, Reuse, CallsOK, CallOK, FamilyOf
<1>3. rows \in SUBSET (1 .. Len(row)) /\ \A n \in rows : row[n].family \in Caused'
  BY <1>1, <1>2
<1> QED
  BY <1>1, <1>3, RevokingOK DEF Reuse

LEMMA LogoutOK ==
    ASSUME IInv, NEW c \in Calls, Logout(c), UNCHANGED browser
    PROVE  IInv'
<1>1. CASE call[c].token = 0
  <2>1. UNCHANGED server
    BY <1>1 DEF Logout, server
  <2>2. /\ RowsOK' /\ Newer' /\ InTime' /\ EndsOK' /\ Grows /\ KeysOK' /\ HeldOK' /\ TabsOK'
        /\ RowsOK /\ CallsOK
    BY <2>1, ServerStays DEF IInv
  <2>3. call[c].kind # "refresh"
    BY <2>2 DEF CallsOK, CallOK, Logout, Ending
  <2>4. CallsOK'
    BY <2>2, <2>3, Answers DEF Logout
  <2> QED
    BY <2>2, <2>4 DEF IInv
<1>2. CASE call[c].token # 0
  <2> DEFINE f == FamilyOf(call[c].token)
  <2>0. call[c].token \in 1 .. Len(row) /\ call[c].kind # "refresh"
    BY <1>2 DEF IInv, CallsOK, CallOK, RowsOK, Logout, Ending
  <2>1. f \in Families
    BY <2>0, RowAt DEF IInv
  <2>2. Revoke({call[c].token}) /\ ended' = ended \cup {f} /\ Answer(c, "ok")
    BY <1>2 DEF Logout
  <2>3. row[call[c].token].family \in Caused'
    BY <2>2 DEF FamilyOf, Caused
  <2>4. KeysOK' /\ EndsOK' /\ ended \subseteq ended'
    <3> HIDE DEF f
    <3> QED BY <2>1, <2>2 DEF IInv, Logout, KeysOK, EndsOK, browser
  <2> QED
    BY <2>0, <2>2, <2>3, <2>4, RevokingOK
<1> QED
  BY <1>1, <1>2

LEMMA CurrentOK ==
    ASSUME IInv, NEW c \in Calls, Current(c), UNCHANGED browser
    PROVE  IInv'
<1> DEFINE n == call[c].token
           F == IF n # 0 /\ ~row[n].revoked THEN {FamilyOf(n)} ELSE {}
           q == [call[c] EXCEPT !.step = "list", !.families = F]
<1>1. /\ RowsOK' /\ Newer' /\ InTime' /\ EndsOK' /\ Grows /\ KeysOK' /\ HeldOK' /\ TabsOK'
      /\ RowsOK /\ CallsOK
  BY ServerStays DEF Current, IInv
<1>2. /\ call[c] \in Call /\ CallOK(call[c], row, Caused) /\ n \in 0 .. Len(row)
      /\ call[c].kind # "refresh"
  BY <1>1 DEF CallsOK, CallOK, Current, Ending
<1>3. F \in SUBSET Families
  <2>1. n # 0 => n \in 1 .. Len(row)
    BY <1>1, <1>2 DEF RowsOK
  <2> QED
    BY <1>1, <2>1, RowAt
<1>4. call' = [call EXCEPT ![c] = q]
  BY DEF Current
<1> HIDE DEF F
<1>5. /\ q \in Call /\ q.step = "list" /\ q.token = call[c].token
      /\ q.new = call[c].new /\ q.kind = call[c].kind /\ q.result = call[c].result
  BY <1>2, <1>3 DEF Call, Steps
<1> HIDE DEF q
<1>6. CallOK(q, row', Caused')
  BY <1>1, <1>2, <1>5 DEF CallOK, Rotating, RowsOK, Grows
<1>8. CallsOK'
  BY <1>1, <1>4, <1>5, <1>6, CallChanges
<1> QED
  BY <1>1, <1>8 DEF IInv

LEMMA ListOK ==
    ASSUME IInv, NEW c \in Calls, List(c), UNCHANGED browser
    PROVE  IInv'
<1> DEFINE F == {f \in Families : Active(f) # {}} \ call[c].families
           q == [call[c] EXCEPT !.step = "rows", !.families = F]
<1>1. /\ RowsOK' /\ Newer' /\ InTime' /\ EndsOK' /\ Grows /\ KeysOK' /\ HeldOK' /\ TabsOK'
      /\ RowsOK /\ CallsOK
  BY ServerStays DEF List, IInv
<1> SUFFICES CallsOK'
  BY <1>1 DEF IInv
<1>2. /\ call[c] \in Call /\ CallOK(call[c], row, Caused)
      /\ call[c].kind # "refresh"
  BY <1>1 DEF CallsOK, CallOK, List, Ending
<1>3. CASE F = {}
  <2>1. Answer(c, "ok")
    BY <1>3 DEF List
  <2> QED
    BY <1>1, <1>2, <2>1, Answers
<1>4. CASE F # {}
  <2>1. call' = [call EXCEPT ![c] = q]
    BY <1>4 DEF List
  <2>2. F \in SUBSET Families
    OBVIOUS
  <2> HIDE DEF F
  <2>3. /\ q \in Call /\ q.step = "rows" /\ q.token = call[c].token
        /\ q.new = call[c].new /\ q.kind = call[c].kind /\ q.result = call[c].result
    BY <1>2, <2>2 DEF Call, Steps
  <2> HIDE DEF q
  <2>4. CallOK(q, row', Caused')
    BY <1>1, <1>2, <2>3 DEF CallOK, Rotating, RowsOK, Grows
  <2> QED
    BY <1>1, <2>1, <2>3, <2>4, CallChanges
<1> QED
  BY <1>3, <1>4

LEMMA RevokeRowsOK ==
    ASSUME IInv, NEW c \in Calls, RevokeRows(c), UNCHANGED browser
    PROVE  IInv'
<1> DEFINE F == IF call[c].kind = "password" THEN {f \in Families : Active(f) # {}}
                ELSE call[c].families
           rows == UNION {Active(f) : f \in F}
<1>1. F \in SUBSET Families /\ call[c].kind # "refresh"
  BY DEF IInv, CallsOK, CallOK, RevokeRows, Ending, Call
<1>2. Revoke(rows) /\ ended' = ended \cup F /\ Goto(c, "block")
  BY DEF RevokeRows
<1> HIDE DEF F
<1>3. rows \in SUBSET (1 .. Len(row)) /\ \A n \in rows : row[n].family \in F
  BY DEF Active
<1> HIDE DEF rows
<1>4. KeysOK' /\ EndsOK' /\ ended \subseteq ended' /\ F \subseteq Caused'
  BY <1>1, <1>2 DEF IInv, RevokeRows, KeysOK, EndsOK, browser, Caused
<1> QED
  BY <1>1, <1>2, <1>3, <1>4, RevokingOK

LEMMA BlockOK ==
    ASSUME IInv, NEW c \in Calls, Block(c), UNCHANGED browser
    PROVE  IInv'
<1>1. UNCHANGED <<row, grace, ended, overdue>>
  BY DEF Block, browser
<1>2. RowsOK' /\ Newer' /\ InTime' /\ EndsOK' /\ Grows /\ RowsOK /\ CallsOK
  BY <1>1, Stays DEF IInv
<1>3. call[c] \in Call /\ call[c].kind # "refresh"
  BY <1>2 DEF CallsOK, CallOK, Block, Ending
<1>4. KeysOK'
  BY <1>3 DEF Block, IInv, KeysOK, Call
<1>5. CallsOK'
  BY <1>2, <1>3, Answers DEF Block
<1> QED
  BY <1>2, <1>4, <1>5, BrowserStays DEF IInv

LEMMA ServerStepOK ==
    ASSUME IInv, NEW c \in Calls, ServerStep(c), UNCHANGED browser
    PROVE  IInv'
BY FindOK, HeirOK, SessionOK, IssueOK, ConsumeOK, ReuseOK, LogoutOK, CurrentOK, ListOK,
   RevokeRowsOK, BlockOK DEF ServerStep

-----------------------------------------------------------------------------
(* The steps of the browser.                                               *)

LEMMA PageOK ==
    ASSUME TabsOK
    PROVE  /\ \A p \in {"app", "leaving", "loading", "booting", "login"} : Page(p) \in Tab
           /\ \A t \in Tabs : SignedOut(t) \in Tab
<1>1. \A p \in {"app", "leaving", "loading", "booting", "login"} : Page(p) \in Tab
  BY RetriesAssumption DEF Page, Tab
<1>2. \A t \in Tabs : tab[t].page \in {"app", "leaving", "loading", "booting", "login"}
  BY DEF TabsOK, Tab
<1> QED
  BY <1>1, <1>2 DEF SignedOut

\* Calls whose answer is stale, or whose tab is gone, are as good as before.
LEMMA MarkedOK ==
    ASSUME NEW q \in Call, NEW r, NEW S, CallOK(q, r, S)
    PROVE  /\ [q EXCEPT !.stale = TRUE] \in Call /\ CallOK([q EXCEPT !.stale = TRUE], r, S)
           /\ [q EXCEPT !.tab = "none"] \in Call /\ CallOK([q EXCEPT !.tab = "none"], r, S)
BY DEF Call, CallOK

\* A table of calls that are all right.
CallsFit(calls) == calls \in [Calls -> Call] /\ \A c \in Calls : CallOK(calls[c], row, Caused)

LEMMA InvalidatedOK ==
    ASSUME NEW calls, NEW tabs, CallsFit(calls)
    PROVE  CallsFit(Invalidated(calls, tabs))
BY MarkedOK DEF CallsFit, Invalidated

LEMMA OrphanedOK ==
    ASSUME NEW calls, CallsFit(calls), NEW t \in Tabs
    PROVE  CallsFit(Orphaned(calls, t))
BY MarkedOK DEF CallsFit, Orphaned

LEMMA SettledOK ==
    ASSUME RowsOK, CallsOK, NEW c \in Calls
    PROVE  CallsFit(Settled(c))
BY IdleOK DEF CallsFit, CallsOK, Settled, RowsOK

LEMMA SentOK ==
    ASSUME RowsOK, CallsOK, NEW t \in Tabs, NEW c \in Calls, NEW token \in 0 .. Len(row),
           NEW kind \in {"refresh", "logout", "others", "password"},
           NEW step \in {"find", "logout", "current", "rows"},
           kind = "refresh" => step = "find"
    PROVE  CallsFit(Send(t, c, kind, step, token))
<1> DEFINE calls == Send(t, c, kind, step, token)
<1>1. /\ calls \in [Calls -> Call] /\ CallOK(calls[c], row, Caused)
      /\ \A d \in Calls \ {c} : calls[d] = call[d]
  BY SendOK DEF CallsOK
<1> HIDE DEF calls
<1>2. \A d \in Calls : CallOK(calls[d], row, Caused)
  BY <1>1 DEF CallsOK
<1> QED
  BY <1>1, <1>2 DEF CallsFit, calls

LEMMA ClearOK ==
    ASSUME TabsOK, NEW t \in Tabs, NEW p \in Tab, NEW calls, CallsFit(calls),
           Clear(t, p, calls)
    PROVE  /\ CallsFit(call') /\ tab' \in [Tabs -> Tab]
           /\ stored' = 0 /\ access' = "none"
BY InvalidatedOK, PageOK DEF Clear

LEMMA SetSessionOK ==
    ASSUME TabsOK, NEW t \in Tabs, NEW n, NEW f, NEW calls, SetSession(t, n, f, calls)
    PROVE  call' = calls /\ tab' \in [Tabs -> Tab] /\ stored' = n /\ access' = f
<1>1. \A u \in Tabs : [tab[u] EXCEPT !.page = "app"] \in Tab /\ tab[u] \in Tab
  BY DEF TabsOK, Tab
<1> QED
  BY <1>1, PageOK DEF SetSession

\* A step of the browser that leaves the API's state alone.
LEMMA BrowserOnly ==
    ASSUME IInv, UNCHANGED server, UNCHANGED overdue, CallsFit(call'), TabsOK',
           {cookie', stored'} \subseteq 0 .. Len(row), access' \in Families \cup {"none"}
    PROVE  IInv'
<1>1. UNCHANGED <<row, grace, ended, overdue, blocked, member>>
  BY DEF server
<1>2. RowsOK' /\ Newer' /\ InTime' /\ EndsOK'
  BY <1>1, Stays DEF IInv
<1>3. KeysOK' /\ HeldOK' /\ CallsOK'
  BY <1>1 DEF IInv, KeysOK, HeldOK, CallsOK, CallsFit, Caused
<1> QED
  BY <1>2, <1>3 DEF IInv

LEMMA CallsFitNow ==
    ASSUME IInv
    PROVE  /\ CallsFit(call) /\ RowsOK /\ CallsOK /\ TabsOK
           /\ cookie \in 0 .. Len(row) /\ stored \in 0 .. Len(row)
           /\ access \in Families \cup {"none"} /\ Presented \in 0 .. Len(row)
<1>1. CallsFit(call) /\ RowsOK /\ CallsOK /\ TabsOK /\ HeldOK
  BY DEF IInv, CallsOK, CallsFit
<1>2. cookie \in 0 .. Len(row) /\ stored \in 0 .. Len(row) /\ access \in Families \cup {"none"}
  BY <1>1 DEF HeldOK
<1> QED
  BY <1>1, <1>2 DEF Presented

LEMMA UpsetOK ==
    ASSUME TabsOK, Upset \/ UNCHANGED upsets
    PROVE  upsets' \in 0 .. MaxUpsets
BY UpsetAssumption DEF TabsOK, Upset

LEMMA StartRefreshOK ==
    ASSUME IInv, NEW t \in Tabs, NEW c \in Calls, StartRefresh(t, c)
    PROVE  IInv'
<1>1. CallsFit(call')
  BY CallsFitNow, SentOK DEF StartRefresh
<1>2. TabsOK'
  BY CallsFitNow DEF StartRefresh, TabsOK, Tab
<1> QED
  BY <1>1, <1>2, CallsFitNow, BrowserOnly DEF StartRefresh

LEMMA DeliverOK ==
    ASSUME IInv, NEW c \in Calls, Deliver(c)
    PROVE  IInv'
<1>1. call[c].new \in 0 .. Len(row) /\ 0 \in 0 .. Len(row)
  BY CallsFitNow DEF CallsOK, CallOK, RowsOK
<1>2. cookie' \in 0 .. Len(row)
  BY <1>1, CallsFitNow DEF Deliver
<1>3. UNCHANGED <<row, grace, ended, overdue>>
  BY DEF Deliver, server
<1>4. RowsOK' /\ Newer' /\ InTime' /\ EndsOK' /\ Grows
  BY <1>3, Stays DEF IInv
<1>5. "settle" \in Steps \ Ending
  BY DEF Steps, Ending
<1>6. CallsOK'
  BY <1>4, <1>5, CallsFitNow, Goes DEF Deliver
<1>7. CallsFit(call')
  BY <1>3, <1>6 DEF CallsOK, CallsFit, Caused
<1>8. TabsOK'
  BY CallsFitNow DEF Deliver, TabsOK
<1> QED
  BY <1>2, <1>7, <1>8, CallsFitNow, BrowserOnly DEF Deliver

LEMMA SettleRefreshOK ==
    ASSUME IInv, NEW t \in Tabs, NEW c \in Calls, SettleRefresh(t, c)
    PROVE  IInv'
<1>1. /\ CallsFit(Settled(c)) /\ tab[t] \in Tab
      /\ UNCHANGED server /\ UNCHANGED <<cookie, upsets, overdue>>
  BY CallsFitNow, SettledOK DEF SettleRefresh, TabsOK
<1>2. CASE Dropped(t, c)
  <2>1. [tab[t] EXCEPT !.refreshing = FALSE, !.page = IF @ = "booting" THEN "login" ELSE @] \in Tab
    BY <1>1 DEF Tab
  <2>2. TabsOK'
    BY <1>1, <1>2, <2>1, CallsFitNow DEF Dropped, TabsOK
  <2> QED
    BY <1>1, <1>2, <2>2, CallsFitNow, BrowserOnly DEF Dropped
<1>3. CASE Retried(t, c)
  <2>1. [tab[t] EXCEPT !.retries = @ + 1, !.refreshing = FALSE,
                       !.page = IF @ = "booting" THEN "login" ELSE @] \in Tab
    <3>1. tab[t].retries + 1 \in 0 .. Retries
      BY <1>1, <1>3, RetriesAssumption DEF Retried, Tab
    <3> QED
      BY <1>1, <3>1 DEF Tab
  <2>2. TabsOK'
    BY <1>1, <1>3, <2>1, CallsFitNow DEF Retried, TabsOK
  <2> QED
    BY <1>1, <1>3, <2>2, CallsFitNow, BrowserOnly DEF Retried
<1>4. CASE Refused(t, c)
  <2>1. CallsFit(call') /\ tab' \in [Tabs -> Tab] /\ stored' = 0 /\ access' = "none"
    BY <1>1, <1>4, CallsFitNow, PageOK, ClearOK DEF Refused
  <2>2. TabsOK' /\ 0 \in 0 .. Len(row)
    BY <1>1, <2>1, CallsFitNow DEF TabsOK, RowsOK
  <2> QED
    BY <1>1, <2>1, <2>2, CallsFitNow, BrowserOnly
<1>5. CASE WaitedInVain(t, c)
  <2>1. CallsFit(call') /\ tab' \in [Tabs -> Tab] /\ stored' = 0 /\ access' = "none"
    BY <1>1, <1>5, CallsFitNow, PageOK, ClearOK DEF WaitedInVain
  <2>2. TabsOK' /\ 0 \in 0 .. Len(row)
    BY <1>1, <2>1, CallsFitNow DEF TabsOK, RowsOK
  <2> QED
    BY <1>1, <2>1, <2>2, CallsFitNow, BrowserOnly
<1>6. CASE Refreshed(t, c) /\ ~call[c].stale
  <2>1. call[c].new \in 1 .. Len(row)
    BY <1>6, CallsFitNow DEF Refreshed, SettleRefresh, CallsOK, CallOK, RowsOK
  <2>2. FamilyOf(call[c].new) \in Families
    BY <2>1, CallsFitNow, RowAt
  <2>3. call' = Settled(c) /\ tab' \in [Tabs -> Tab] /\ stored' = call[c].new
        /\ access' = FamilyOf(call[c].new)
    BY <1>6, CallsFitNow, SetSessionOK DEF Refreshed
  <2>4. TabsOK'
    BY <1>1, <2>3, CallsFitNow DEF TabsOK
  <2> QED
    BY <1>1, <2>1, <2>2, <2>3, <2>4, CallsFitNow, BrowserOnly
<1> QED
  BY <1>2, <1>3, <1>4, <1>5, <1>6 DEF SettleRefresh

LEMMA BeginLogoutOK ==
    ASSUME IInv, NEW t \in Tabs, NEW c \in Calls, BeginLogout(t, c)
    PROVE  IInv'
<1> DEFINE token == IF stored # 0 THEN stored ELSE cookie
           sent == Send(t, c, "logout", "logout", token)
           clears == token = 0 \/ cookie = 0 \/ token = cookie
           calls == [sent EXCEPT ![c].clears = clears]
<1>1. token \in 0 .. Len(row)
  BY CallsFitNow
<1>2. CallsFit(sent)
  <2> HIDE DEF token
  <2> QED BY <1>1, CallsFitNow, SentOK
<1>3. Clear(t, Page("leaving"), calls) /\ UNCHANGED server /\ UNCHANGED <<cookie, overdue>>
      /\ (Upset \/ UNCHANGED upsets) /\ clears \in BOOLEAN
  BY DEF BeginLogout
<1> HIDE DEF sent, clears
<1>4. \A q \in Call : /\ [q EXCEPT !.clears = clears] \in Call
                      /\ CallOK(q, row, Caused) => CallOK([q EXCEPT !.clears = clears], row, Caused)
  BY <1>3 DEF Call, CallOK
<1>5. CallsFit(calls)
  BY <1>2, <1>4 DEF CallsFit
<1> HIDE DEF calls
<1>6. CallsFit(call') /\ tab' \in [Tabs -> Tab] /\ stored' = 0 /\ access' = "none"
  BY <1>3, <1>5, CallsFitNow, PageOK, ClearOK
<1>7. TabsOK' /\ 0 \in 0 .. Len(row)
  BY <1>3, <1>6, CallsFitNow, UpsetOK DEF TabsOK, RowsOK
<1> QED
  BY <1>3, <1>6, <1>7, CallsFitNow, BrowserOnly

LEMMA SettleLogoutOK ==
    ASSUME IInv, NEW t \in Tabs, NEW c \in Calls, SettleLogout(t, c)
    PROVE  IInv'
<1>1. TabsOK' /\ CallsFit(call')
  BY CallsFitNow, SettledOK DEF SettleLogout, TabsOK, Tab
<1> QED
  BY <1>1, CallsFitNow, BrowserOnly DEF SettleLogout

LEMMA SettleOtherOK ==
    ASSUME IInv, NEW c \in Calls, SettleOther(c)
    PROVE  IInv'
<1>1. TabsOK' /\ CallsFit(call')
  BY CallsFitNow, SettledOK DEF SettleOther, TabsOK, browser
<1> QED
  BY <1>1, CallsFitNow, BrowserOnly DEF SettleOther, browser

LEMMA LoadOK ==
    ASSUME IInv, NEW t \in Tabs, Load(t)
    PROVE  IInv'
<1>1. TabsOK'
  BY CallsFitNow, PageOK DEF Load, TabsOK
<1>2. CallsFit(call')
  BY CallsFitNow, OrphanedOK DEF Load
<1> QED
  BY <1>1, <1>2, CallsFitNow, BrowserOnly DEF Load

LEMMA LoginOK ==
    ASSUME IInv, NEW t \in Tabs, NEW f \in Families, Login(t, f)
    PROVE  IInv'
<1>1. /\ RowsOK /\ Newer /\ InTime /\ EndsOK /\ Store(f)
      /\ UNCHANGED <<grace, ended, overdue, blocked, member, upsets>>
  BY DEF IInv, Login
<1>2. /\ RowsOK' /\ Newer' /\ InTime' /\ EndsOK' /\ Grows
      /\ Len(row') = Len(row) + 1
  BY <1>1, Stores
<1>3. CallsFit(Invalidated(call, {t}))
  BY CallsFitNow, InvalidatedOK
<1>4. /\ call' = Invalidated(call, {t}) /\ tab' \in [Tabs -> Tab]
      /\ stored' = Len(row') /\ access' = f
  BY CallsFitNow, SetSessionOK DEF Login
<1>5. \A c \in Calls : CallOK(call'[c], row', Caused')
  BY <1>1, <1>2, <1>3, <1>4, CallStays DEF CallsFit
<1>6. CallsOK' /\ TabsOK'
  BY <1>1, <1>3, <1>4, <1>5, CallsFitNow DEF CallsOK, CallsFit, TabsOK
<1>7. cookie' \in 0 .. Len(row') /\ stored' \in 0 .. Len(row')
  BY <1>1, <1>2, <1>4, CallsFitNow DEF Login, RowsOK
<1>8. HeldOK' /\ KeysOK'
  BY <1>1, <1>4, <1>7 DEF HeldOK, IInv, KeysOK
<1> QED
  BY <1>2, <1>6, <1>8 DEF IInv

LEMMA ApiRefusedOK ==
    ASSUME IInv, NEW t \in Tabs, ApiRefused(t)
    PROVE  IInv'
<1>1. CallsFit(call') /\ tab' \in [Tabs -> Tab] /\ stored' = 0 /\ access' = "none"
  BY CallsFitNow, PageOK, ClearOK DEF ApiRefused
<1>2. TabsOK' /\ 0 \in 0 .. Len(row)
  BY <1>1, CallsFitNow DEF TabsOK, RowsOK, ApiRefused
<1> QED
  BY <1>1, <1>2, CallsFitNow, BrowserOnly DEF ApiRefused

LEMMA AskRevokeOK ==
    ASSUME IInv, NEW t \in Tabs, NEW c \in Calls, NEW kind \in {"others", "password"},
           AskRevoke(t, c, kind)
    PROVE  IInv'
<1>1. 0 \in 0 .. Len(row)
  BY CallsFitNow DEF RowsOK
<1>2. CallsFit(call')
  BY <1>1, CallsFitNow, SentOK DEF AskRevoke
<1>3. TabsOK'
  BY CallsFitNow, UpsetOK DEF AskRevoke, TabsOK
<1> QED
  BY <1>2, <1>3, CallsFitNow, BrowserOnly DEF AskRevoke

-----------------------------------------------------------------------------
(* Time, faults and the rest of the world.                                 *)

LEMMA LoseOK ==
    ASSUME IInv, NEW c \in Calls, Lose(c), Upset,
           UNCHANGED <<cookie, stored, access, tab, overdue>>
    PROVE  IInv'
<1>1. UNCHANGED <<row, grace, ended, overdue, blocked, member>>
  BY DEF Lose, server
<1>2. RowsOK' /\ Newer' /\ InTime' /\ EndsOK' /\ Grows /\ RowsOK /\ CallsOK
  BY <1>1, Stays DEF IInv
<1>3. CallsOK'
  BY <1>2, Answers DEF Lose
<1>4. KeysOK' /\ HeldOK' /\ TabsOK'
  BY <1>1, UpsetOK DEF IInv, KeysOK, HeldOK, TabsOK
<1> QED
  BY <1>2, <1>3, <1>4 DEF IInv

LEMMA GraceEndsOK ==
    ASSUME IInv, NEW n \in 1 .. Len(row), GraceEnds(n)
    PROVE  IInv'
<1>1. /\ RowsOK /\ Newer /\ InTime /\ EndsOK /\ CallsOK
      /\ UNCHANGED <<row, ended, blocked, member, call, cookie, stored, access, tab, upsets>>
      /\ grace' = grace \ {n} /\ overdue' = overdue \cup {FamilyOf(n)}
  BY DEF IInv, GraceEnds
<1>2. Caused' = Caused \cup {row[n].family} /\ Caused \subseteq Caused'
  BY <1>1 DEF Caused, FamilyOf
<1>3. RowsOK' /\ EndsOK'
  BY <1>1, RowAt DEF RowsOK, EndsOK
<1>4. Newer' /\ InTime'
  BY <1>1, <1>2 DEF Newer, InTime, Later
<1>5. Grows
  BY <1>1, <1>2 DEF Grows, RowsOK
<1>6. CallsOK'
  BY <1>1, <1>3, <1>5, CallsStay DEF CallsOK
<1>7. KeysOK' /\ HeldOK' /\ TabsOK'
  BY <1>1 DEF IInv, KeysOK, HeldOK, TabsOK
<1> QED
  BY <1>3, <1>4, <1>6, <1>7 DEF IInv

LEMMA KeysMove ==
    ASSUME IInv, UNCHANGED <<row, grace, ended, call, cookie, stored, access, tab, overdue>>,
           KeysOK', Upset \/ UNCHANGED upsets
    PROVE  IInv'
<1>1. RowsOK' /\ Newer' /\ InTime' /\ EndsOK'
  BY Stays DEF IInv
<1>2. HeldOK' /\ TabsOK' /\ CallsOK'
  BY UpsetOK DEF IInv, HeldOK, TabsOK, CallsOK, Caused
<1> QED
  BY <1>1, <1>2 DEF IInv

LEMMA ElsewhereLoginOK ==
    ASSUME IInv, NEW f \in Families, ElsewhereLogin(f)
    PROVE  IInv'
<1>1. /\ RowsOK /\ Newer /\ InTime /\ EndsOK /\ CallsOK /\ Store(f)
      /\ UNCHANGED <<grace, ended, overdue, blocked, member, call>> /\ UNCHANGED browser
  BY DEF IInv, ElsewhereLogin, browser
<1>2. RowsOK' /\ Newer' /\ InTime' /\ EndsOK' /\ Grows
  BY <1>1, Stores
<1>3. CallsOK'
  BY <1>1, <1>2, CallsStay DEF CallsOK
<1>4. KeysOK'
  BY <1>1 DEF IInv, KeysOK
<1> QED
  BY <1>1, <1>2, <1>3, <1>4, BrowserStays DEF IInv

LEMMA ElsewhereRevokeOK ==
    ASSUME IInv, NEW c \in Calls, NEW f \in Families, ElsewhereRevoke(c, f)
    PROVE  IInv'
<1> DEFINE q == [Idle EXCEPT !.kind = "others", !.step = "rows", !.families = {f}]
<1>1. call' = [call EXCEPT ![c] = q] /\ UNCHANGED server
      /\ UNCHANGED <<cookie, stored, access, tab, overdue>> /\ Upset
  BY DEF ElsewhereRevoke
<1>2. /\ q \in Call /\ q.kind = "others" /\ q.step = "rows" /\ q.token = 0
      /\ q.new = 0 /\ q.result = "none"
  <2>1. Idle \in Call /\ Idle.token = 0 /\ Idle.new = 0 /\ Idle.result = "none"
    BY CallsFitNow, IdleOK DEF Idle, RowsOK
  <2>2. "rows" \in Steps /\ {f} \in SUBSET Families
    BY DEF Steps
  <2> QED
    BY <2>1, <2>2 DEF Call
<1> HIDE DEF q
<1>3. CallOK(q, row, Caused)
  BY <1>2, CallsFitNow DEF CallOK, RowsOK, Rotating, Ending
<1>4. CallsFit(call')
  BY <1>1, <1>2, <1>3, CallsFitNow DEF CallsFit
<1>5. TabsOK'
  BY <1>1, CallsFitNow, UpsetOK DEF TabsOK
<1> QED
  BY <1>1, <1>4, <1>5, CallsFitNow, BrowserOnly

-----------------------------------------------------------------------------
LEMMA InitIInv == Init => IInv
<1> SUFFICES ASSUME Init PROVE IInv
  OBVIOUS
<1>1. PICK f \in Families : row = <<[family |-> f, revoked |-> FALSE]>> /\ access = f
  BY DEF Init
<1>2. /\ row \in Seq(Row) /\ Len(row) = 1 /\ row[1] = [family |-> f, revoked |-> FALSE]
  BY <1>1 DEF Row
<1>3. RowsOK /\ Newer /\ InTime /\ EndsOK
  BY <1>2, TokenAssumption DEF Init, RowsOK, Newer, InTime, EndsOK
<1>4. KeysOK /\ HeldOK
  BY <1>1, <1>2 DEF Init, KeysOK, HeldOK
<1>5. TabsOK
  BY RetriesAssumption, UpsetAssumption DEF Init, TabsOK, Page, Tab
<1>6. CallsOK
  BY <1>2, IdleOK DEF Init, CallsOK
<1> QED
  BY <1>3, <1>4, <1>5, <1>6 DEF IInv

LEMMA NextIInv == IInv /\ [Next]_vars => IInv'
<1> SUFFICES ASSUME IInv, [Next]_vars PROVE IInv'
  OBVIOUS
<1>1. ASSUME NEW t \in Tabs, TabStep(t) PROVE IInv'
  BY <1>1, StartRefreshOK, SettleRefreshOK, BeginLogoutOK, SettleLogoutOK, AskRevokeOK,
     LoginOK, LoadOK, ApiRefusedOK DEF TabStep
<1>2. ASSUME NEW c \in Calls, CallStep(c) PROVE IInv'
  BY <1>2, ServerStepOK, LoseOK, DeliverOK, SettleOtherOK DEF CallStep
<1>3. ASSUME NEW n \in 1 .. Len(row), GraceEnds(n) PROVE IInv'
  BY <1>3, GraceEndsOK
<1>4. CASE BlockEnds
  BY <1>4, KeysMove DEF BlockEnds, IInv, KeysOK, browser
<1>5. CASE Deactivate
  BY <1>5, KeysMove DEF Deactivate, IInv, KeysOK
<1>6. ASSUME NEW f \in Families, ElsewhereLogin(f) PROVE IInv'
  BY <1>6, ElsewhereLoginOK
<1>7. ASSUME NEW c \in Calls, NEW f \in Families, ElsewhereRevoke(c, f) PROVE IInv'
  BY <1>7, ElsewhereRevokeOK
<1>8. CASE UNCHANGED vars
  <2>1. UNCHANGED server /\ UNCHANGED call /\ UNCHANGED browser
    BY <1>8 DEF vars
  <2>2. /\ RowsOK' /\ Newer' /\ InTime' /\ EndsOK' /\ Grows /\ KeysOK' /\ HeldOK' /\ TabsOK'
    BY <2>1, ServerStays
  <2>3. CallsOK'
    BY <2>1 DEF IInv, CallsOK, server, browser, Caused
  <2> QED
    BY <2>2, <2>3 DEF IInv
<1> QED
  BY <1>1, <1>2, <1>3, <1>4, <1>5, <1>6, <1>7, <1>8 DEF Next

THEOREM Invariance == Spec => []IInv
<1> QED
  BY InitIInv, NextIInv, PTL DEF Spec

\* Type correctness: every token a request or the browser holds is a row, and
\* no tab retries more often than it may.
THEOREM TypeCorrect == Spec => []TypeOK
<1>1. IInv => TypeOK
  BY DEF IInv, RowsOK, EndsOK, KeysOK, HeldOK, TabsOK, CallsOK, TypeOK
<1> QED
  BY <1>1, Invariance, PTL

\* A session that nobody ended keeps a token that refreshes, for any number of
\* tabs and requests that share it.
THEOREM HeirAlwaysKept == Spec => []HeirKept
<1>1. IInv => HeirKept
  BY HeirIsKept DEF IInv, HeirKept, Caused
<1> QED
  BY <1>1, Invariance, PTL

\* rotateRefreshToken takes a token for reused only after its session was
\* ended or its grace was missed.
THEOREM ReuseHasCause == Spec => []RefusedForCause
<1>1. IInv => RefusedForCause
  BY DEF IInv, RefusedForCause, CallsOK, CallOK, FamilyOf, Caused
<1> QED
  BY <1>1, Invariance, PTL
-----------------------------------------------------------------------------
(* Why a session ends.  A cookie that is gone, a key in Redis, a request   *)
(* without a token and a refusal each have a cause, and go on having it.   *)

Refusable == Caused # {} \/ ~member

WhyOK(q, ends, refusable) ==
    /\ q.step = "block" /\ q.kind # "password" => q.families \subseteq ends
    /\ q.kind = "refresh" /\ q.step = "find" /\ q.token = 0 => ends # {}
    /\ q.kind = "refresh" /\ q.result = "refused" => refusable
    /\ q.kind = "logout" => q.step \in {"logout", "answer", "settle"}
    /\ q.kind = "logout" /\ q.step = "logout" /\ q.token = 0 => ends # {}
    /\ q.kind = "logout" /\ q.step = "answer" => ends # {}
    /\ q.step = "answer" => q.result = "ok"

CausesOK == /\ cookie = 0 => ended # {}
            /\ blocked \subseteq ended \cup {"user"}
            /\ \A c \in Calls : WhyOK(call[c], ended, Refusable)

\* A request of which only the tab, or the use of its answer, changes.
Marked(p, q) == /\ p.kind = q.kind /\ p.step = q.step /\ p.token = q.token
                /\ p.families = q.families /\ p.result = q.result

\* Causes do not go away.
CausesStay == ended \subseteq ended' /\ Caused \subseteq Caused' /\ (member' => member)

LEMMA WhyIdle == \A E, r : WhyOK(Idle, E, r)
BY DEF WhyOK, Idle

LEMMA CausesMove ==
    ASSUME CausesOK, CausesStay, cookie' = 0 => ended' # {},
           blocked' \subseteq ended' \cup {"user"},
           \A c \in Calls : Marked(call'[c], call[c]) \/ WhyOK(call'[c], ended', Refusable')
    PROVE  CausesOK'
<1>1. Refusable => Refusable'
  BY DEF Refusable, CausesStay
<1>2. ended # {} => ended' # {}
  BY DEF CausesStay
<1>3. ASSUME NEW c \in Calls PROVE WhyOK(call'[c], ended', Refusable')
  <2> SUFFICES ASSUME Marked(call'[c], call[c]) PROVE WhyOK(call'[c], ended', Refusable')
    OBVIOUS
  <2> QED
    BY <1>1, <1>2 DEF CausesOK, WhyOK, Marked, CausesStay
<1> QED
  BY <1>3 DEF CausesOK

\* A step that changes neither the cookie nor the keys.
LEMMA CausesKept ==
    ASSUME CausesOK, CausesStay, UNCHANGED <<cookie, blocked>>,
           \A c \in Calls : Marked(call'[c], call[c]) \/ WhyOK(call'[c], ended', Refusable')
    PROVE  CausesOK'
<1>1. cookie' = 0 => ended' # {}
  BY DEF CausesOK, CausesStay
<1>2. blocked' \subseteq ended' \cup {"user"}
  BY DEF CausesOK, CausesStay
<1> QED
  BY <1>1, <1>2, CausesMove

LEMMA OneCallMoves ==
    ASSUME CallsOK, NEW c \in Calls, NEW q, call' = [call EXCEPT ![c] = q],
           WhyOK(q, ended', Refusable')
    PROVE  \A d \in Calls : Marked(call'[d], call[d]) \/ WhyOK(call'[d], ended', Refusable')
<1>1. \A d \in Calls : call'[d] = call[d] \/ (d = c /\ call'[d] = q)
  BY DEF CallsOK
<1> QED
  BY <1>1 DEF Marked

\* A request goes on.
LEMMA WhyGoes ==
    ASSUME CallsOK, CausesOK, CausesStay, NEW c \in Calls, NEW s, Goto(c, s),
           s \notin {"find", "logout", "answer"},
           s = "block" /\ call[c].kind # "password" => call[c].families \subseteq ended',
           call[c].kind = "logout" => s = "settle"
    PROVE  \A d \in Calls : Marked(call'[d], call[d]) \/ WhyOK(call'[d], ended', Refusable')
<1> DEFINE q == [call[c] EXCEPT !.step = s]
<1>1. call' = [call EXCEPT ![c] = q] /\ call[c] \in Call
  BY DEF Goto, CallsOK
<1>2. /\ q.step = s /\ q.kind = call[c].kind /\ q.result = call[c].result
      /\ q.families = call[c].families
  BY <1>1 DEF Call
<1> HIDE DEF q
<1>3. WhyOK(call[c], ended, Refusable) /\ (Refusable => Refusable')
  BY DEF CausesOK, Refusable, CausesStay
<1>4. WhyOK(q, ended', Refusable')
  BY <1>2, <1>3 DEF WhyOK
<1> QED
  BY <1>1, <1>4, OneCallMoves

\* A request is answered.
LEMMA WhyAnswers ==
    ASSUME CallsOK, CausesOK, NEW c \in Calls, NEW a \in {"ok", "refused", "lost"},
           NEW n \in Tokens,
           call' = [call EXCEPT ![c] = Answered(call[c], a, n)],
           call[c].kind = "refresh" /\ a = "refused" => Refusable',
           call[c].kind = "logout" /\ a = "ok" => ended' # {}
    PROVE  \A d \in Calls : Marked(call'[d], call[d]) \/ WhyOK(call'[d], ended', Refusable')
<1> DEFINE q == call[c]
           p == [q EXCEPT
                 !.step = IF a = "ok" /\ q.kind # "password" THEN "answer" ELSE "settle",
                 !.result = a, !.new = n, !.token = 0, !.inGrace = FALSE, !.families = {}]
<1>1. q \in Call
  BY DEF CallsOK
<1>2. /\ p.step = (IF a = "ok" /\ q.kind # "password" THEN "answer" ELSE "settle")
      /\ p.result = a /\ p.kind = q.kind
  BY <1>1 DEF Call
<1> HIDE DEF p
<1>3. WhyOK(p, ended', Refusable')
  BY <1>2 DEF WhyOK
<1>4. Answered(q, a, n) \in {Idle, p}
  BY DEF Answered, p
<1>5. WhyOK(Answered(q, a, n), ended', Refusable')
  BY <1>3, <1>4, WhyIdle
<1> QED
  BY <1>5, OneCallMoves

\* What the lemmas below need of a step of the API.
LEMMA ServerFacts ==
    ASSUME IInv, CausesOK, NEW c \in Calls, UNCHANGED browser
    PROVE  /\ CallsOK /\ call[c] \in Call /\ WhyOK(call[c], ended, Refusable)
           /\ CallOK(call[c], row, Caused) /\ UNCHANGED <<cookie, overdue>>
           /\ call[c].new \in Tokens /\ 0 \in Tokens
           /\ (ended' = ended /\ (member' => member) => CausesStay)
           /\ (CausesStay => (Refusable => Refusable'))
<1>1. CallsOK /\ call[c] \in Call /\ WhyOK(call[c], ended, Refusable)
      /\ CallOK(call[c], row, Caused)
  BY DEF IInv, CallsOK, CausesOK
<1>2. UNCHANGED <<cookie, overdue>>
  BY DEF browser
<1>3. call[c].new \in Tokens /\ 0 \in Tokens
  BY <1>1, TokenAssumption DEF Call, Tokens
<1> QED
  BY <1>1, <1>2, <1>3 DEF CausesStay, Refusable, Caused

LEMMA FindCauses ==
    ASSUME IInv, CausesOK, NEW c \in Calls, Find(c), UNCHANGED browser
    PROVE  CausesOK'
<1>1. /\ CallsOK /\ call[c] \in Call /\ WhyOK(call[c], ended, Refusable)
      /\ CausesStay /\ UNCHANGED <<cookie, blocked, ended>> /\ 0 \in Tokens
  BY ServerFacts DEF Find, server
<1>2. call[c].step = "find" /\ call[c].kind # "logout"
  BY <1>1 DEF Find, WhyOK
<1>3. CASE call[c].token = 0 /\ Answer(c, "refused")
  <2>1. call[c].kind = "refresh" => Refusable'
    BY <1>1, <1>2, <1>3 DEF WhyOK, Refusable, Caused
  <2>2. call' = [call EXCEPT ![c] = Answered(call[c], "refused", 0)]
    BY <1>3 DEF Answer
  <2>3. \A d \in Calls : Marked(call'[d], call[d]) \/ WhyOK(call'[d], ended', Refusable')
    BY <1>1, <1>2, <2>1, <2>2, WhyAnswers
  <2> QED
    BY <1>1, <2>3, CausesKept
<1>4. CASE \E s \in {"session", "heir", "reuse"} : Goto(c, s)
  <2>1. PICK s \in {"session", "heir", "reuse"} : Goto(c, s)
    BY <1>4
  <2>2. \A d \in Calls : Marked(call'[d], call[d]) \/ WhyOK(call'[d], ended', Refusable')
    BY <1>1, <1>2, <2>1, WhyGoes
  <2> QED
    BY <1>1, <2>2, CausesKept
<1> QED
  BY <1>3, <1>4 DEF Find

LEMMA HeirCauses ==
    ASSUME IInv, CausesOK, NEW c \in Calls, Heir(c), UNCHANGED browser
    PROVE  CausesOK'
<1>1. /\ CallsOK /\ call[c] \in Call /\ WhyOK(call[c], ended, Refusable)
      /\ CausesStay /\ UNCHANGED <<cookie, blocked, ended>> /\ (Refusable => Refusable')
  BY ServerFacts DEF Heir, server
<1>2. call[c].step = "heir" /\ call[c].kind # "logout"
  BY <1>1 DEF Heir, WhyOK
<1>3. CASE Goto(c, "reuse")
  BY <1>1, <1>2, <1>3, WhyGoes, CausesKept
<1>4. CASE call' = [call EXCEPT ![c].step = "session", ![c].inGrace = TRUE]
  <2> DEFINE q == [call[c] EXCEPT !.step = "session", !.inGrace = TRUE]
  <2>1. call' = [call EXCEPT ![c] = q]
    BY <1>4
  <2>2. q.step = "session" /\ q.kind = call[c].kind /\ q.result = call[c].result
    BY <1>1 DEF Call
  <2> HIDE DEF q
  <2>3. WhyOK(q, ended', Refusable')
    BY <1>1, <1>2, <2>2 DEF WhyOK
  <2> QED
    BY <1>1, <2>1, <2>3, OneCallMoves, CausesKept
<1> QED
  BY <1>3, <1>4 DEF Heir

\* refreshSession refuses when the membership has ended.
LEMMA SessionCauses ==
    ASSUME IInv, CausesOK, NEW c \in Calls, Session(c), UNCHANGED browser
    PROVE  CausesOK'
<1>1. /\ CallsOK /\ call[c] \in Call /\ WhyOK(call[c], ended, Refusable)
      /\ CausesStay /\ UNCHANGED <<cookie, blocked, ended, member>> /\ 0 \in Tokens
  BY ServerFacts DEF Session, server
<1>2. call[c].step = "session" /\ call[c].kind # "logout"
  BY <1>1 DEF Session, WhyOK
<1>3. CASE member
  BY <1>1, <1>2, <1>3, WhyGoes, CausesKept DEF Session
<1>4. CASE ~member
  <2>1. call' = [call EXCEPT ![c] = Answered(call[c], "refused", 0)] /\ Refusable'
    BY <1>1, <1>4 DEF Session, Answer, Refusable
  <2>2. \A d \in Calls : Marked(call'[d], call[d]) \/ WhyOK(call'[d], ended', Refusable')
    BY <1>1, <1>2, <2>1, WhyAnswers
  <2> QED
    BY <1>1, <2>2, CausesKept
<1> QED
  BY <1>3, <1>4

LEMMA IssueCauses ==
    ASSUME IInv, IInv', CausesOK, NEW c \in Calls, Issue(c), UNCHANGED browser
    PROVE  CausesOK'
<1>1. /\ CallsOK /\ call[c] \in Call /\ WhyOK(call[c], ended, Refusable)
      /\ CausesStay /\ UNCHANGED <<cookie, blocked, ended>> /\ (Refusable => Refusable')
  BY ServerFacts DEF Issue
<1>2. call[c].step = "issue" /\ call[c].kind # "logout"
  BY <1>1 DEF Issue, WhyOK
<1>3. Len(row') \in Tokens
  BY TokenAssumption DEF IInv, RowsOK, Tokens
<1>4. CASE call[c].inGrace
  <2>1. call' = [call EXCEPT ![c] = Answered(call[c], "ok", Len(row'))]
    BY <1>1, <1>4 DEF Issue
  <2>2. \A d \in Calls : Marked(call'[d], call[d]) \/ WhyOK(call'[d], ended', Refusable')
    BY <1>1, <1>2, <1>3, <2>1, WhyAnswers
  <2> QED
    BY <1>1, <2>2, CausesKept
<1>5. CASE ~call[c].inGrace
  <2> DEFINE q == [call[c] EXCEPT !.step = "consume", !.new = Len(row')]
  <2>1. call' = [call EXCEPT ![c] = q]
    BY <1>1, <1>5 DEF Issue
  <2>2. q.step = "consume" /\ q.kind = call[c].kind /\ q.result = call[c].result
    BY <1>1 DEF Call
  <2> HIDE DEF q
  <2>3. WhyOK(q, ended', Refusable')
    BY <1>1, <1>2, <2>2 DEF WhyOK
  <2> QED
    BY <1>1, <2>1, <2>3, OneCallMoves, CausesKept
<1> QED
  BY <1>4, <1>5

LEMMA ConsumeCauses ==
    ASSUME IInv, CausesOK, NEW c \in Calls, Consume(c), UNCHANGED browser
    PROVE  CausesOK'
<1>1. /\ CallsOK /\ call[c] \in Call /\ WhyOK(call[c], ended, Refusable)
      /\ CausesStay /\ UNCHANGED <<cookie, blocked, ended>> /\ call[c].new \in Tokens
  BY ServerFacts DEF Consume
<1>2. call[c].step = "consume" /\ call[c].kind # "logout"
  BY <1>1 DEF Consume, WhyOK
<1>3. call' = [call EXCEPT ![c] = Answered(call[c], "ok", call[c].new)]
  BY <1>1 DEF Consume, Answer, CallsOK
<1>4. \A d \in Calls : Marked(call'[d], call[d]) \/ WhyOK(call'[d], ended', Refusable')
  BY <1>1, <1>2, <1>3, WhyAnswers
<1> QED
  BY <1>1, <1>4, CausesKept

\* Reuse has a cause, so the refusal has one.
LEMMA ReuseCauses ==
    ASSUME IInv, CausesOK, NEW c \in Calls, Reuse(c), UNCHANGED browser
    PROVE  CausesOK'
<1>1. /\ CallsOK /\ call[c] \in Call /\ WhyOK(call[c], ended, Refusable)
      /\ CallOK(call[c], row, Caused)
      /\ CausesStay /\ UNCHANGED <<cookie, blocked, ended>> /\ 0 \in Tokens
  BY ServerFacts DEF Reuse
<1>2. call[c].step = "reuse" /\ call[c].kind # "logout"
  BY <1>1 DEF Reuse, WhyOK
<1>3. call' = [call EXCEPT ![c] = Answered(call[c], "refused", 0)]
  BY DEF Reuse, Answer
<1>4. Refusable'
  BY <1>1, <1>2 DEF CallOK, CausesStay, Refusable
<1>5. \A d \in Calls : Marked(call'[d], call[d]) \/ WhyOK(call'[d], ended', Refusable')
  BY <1>1, <1>2, <1>3, <1>4, WhyAnswers
<1> QED
  BY <1>1, <1>5, CausesKept

\* A logout without a token is answered too: the cookie that is cleared then
\* was gone before, for a cause.
LEMMA LogoutCauses ==
    ASSUME IInv, CausesOK, NEW c \in Calls, Logout(c), UNCHANGED browser
    PROVE  CausesOK'
<1>1. /\ CallsOK /\ call[c] \in Call /\ WhyOK(call[c], ended, Refusable)
      /\ CallOK(call[c], row, Caused)
      /\ UNCHANGED <<cookie, blocked, member, overdue>> /\ call[c].new \in Tokens
  BY ServerFacts DEF Logout
<1>2. ended \subseteq ended'
  BY DEF Logout
<1>3. CausesStay
  BY <1>1, <1>2 DEF CausesStay, Caused
<1>4. call[c].step = "logout" /\ call[c].kind # "refresh"
  BY <1>1 DEF Logout, CallOK, Ending
<1>5. call[c].kind = "logout" => ended' # {}
  BY <1>1, <1>4 DEF Logout, WhyOK
<1>6. call' = [call EXCEPT ![c] = Answered(call[c], "ok", call[c].new)]
  BY <1>1 DEF Logout, Answer, CallsOK
<1>7. \A d \in Calls : Marked(call'[d], call[d]) \/ WhyOK(call'[d], ended', Refusable')
  BY <1>1, <1>5, <1>6, WhyAnswers
<1> QED
  BY <1>1, <1>3, <1>7, CausesKept

LEMMA CurrentCauses ==
    ASSUME IInv, CausesOK, NEW c \in Calls, Current(c), UNCHANGED browser
    PROVE  CausesOK'
<1> DEFINE n == call[c].token
           F == IF n # 0 /\ ~row[n].revoked THEN {FamilyOf(n)} ELSE {}
           q == [call[c] EXCEPT !.step = "list", !.families = F]
<1>1. /\ CallsOK /\ call[c] \in Call /\ WhyOK(call[c], ended, Refusable)
      /\ CallOK(call[c], row, Caused)
      /\ CausesStay /\ UNCHANGED <<cookie, blocked, ended>>
  BY ServerFacts DEF Current, server
<1>2. call[c].step = "current"
  BY DEF Current
<1>3. call[c].kind \notin {"refresh", "logout"}
  BY <1>1, <1>2 DEF CallOK, WhyOK, Ending
<1>4. call' = [call EXCEPT ![c] = q]
  BY DEF Current
<1> HIDE DEF F
<1>5. q.step = "list" /\ q.kind = call[c].kind
  BY <1>1 DEF Call
<1> HIDE DEF q
<1>6. WhyOK(q, ended', Refusable')
  BY <1>3, <1>5 DEF WhyOK
<1> QED
  BY <1>1, <1>4, <1>6, OneCallMoves, CausesKept

LEMMA ListCauses ==
    ASSUME IInv, CausesOK, NEW c \in Calls, List(c), UNCHANGED browser
    PROVE  CausesOK'
<1> DEFINE F == {f \in Families : Active(f) # {}} \ call[c].families
           q == [call[c] EXCEPT !.step = "rows", !.families = F]
<1>1. /\ CallsOK /\ call[c] \in Call /\ WhyOK(call[c], ended, Refusable)
      /\ CallOK(call[c], row, Caused) /\ call[c].new \in Tokens
      /\ CausesStay /\ UNCHANGED <<cookie, blocked, ended>>
  BY ServerFacts DEF List, server
<1>2. call[c].step = "list"
  BY DEF List
<1>3. call[c].kind \notin {"refresh", "logout"}
  BY <1>1, <1>2 DEF CallOK, WhyOK, Ending
<1>4. Answer(c, "ok") \/ call' = [call EXCEPT ![c] = q]
  BY DEF List
<1> HIDE DEF F
<1>5. q.step = "rows" /\ q.kind = call[c].kind
  BY <1>1 DEF Call
<1> HIDE DEF q
<1>6. WhyOK(q, ended', Refusable')
  BY <1>3, <1>5 DEF WhyOK
<1>7. CASE Answer(c, "ok")
  <2>1. call' = [call EXCEPT ![c] = Answered(call[c], "ok", call[c].new)]
    BY <1>1, <1>7 DEF Answer, CallsOK
  <2>2. \A d \in Calls : Marked(call'[d], call[d]) \/ WhyOK(call'[d], ended', Refusable')
    BY <1>1, <1>3, <2>1, WhyAnswers
  <2> QED
    BY <1>1, <2>2, CausesKept
<1>8. CASE call' = [call EXCEPT ![c] = q]
  BY <1>1, <1>6, <1>8, OneCallMoves, CausesKept
<1> QED
  BY <1>4, <1>7, <1>8

\* The rows go first: a family is ended before its key is set.
LEMMA RevokeRowsCauses ==
    ASSUME IInv, CausesOK, NEW c \in Calls, RevokeRows(c), UNCHANGED browser
    PROVE  CausesOK'
<1>1. /\ CallsOK /\ call[c] \in Call /\ WhyOK(call[c], ended, Refusable)
      /\ CallOK(call[c], row, Caused)
      /\ UNCHANGED <<cookie, blocked, member, overdue>>
  BY ServerFacts DEF RevokeRows
<1>2. ended \subseteq ended' /\ (call[c].kind # "password" => call[c].families \subseteq ended')
  BY DEF RevokeRows
<1>3. CausesStay
  BY <1>1, <1>2 DEF CausesStay, Caused
<1>4. call[c].step = "rows" /\ call[c].kind # "logout" /\ Goto(c, "block")
  BY <1>1 DEF RevokeRows, WhyOK
<1>5. \A d \in Calls : Marked(call'[d], call[d]) \/ WhyOK(call'[d], ended', Refusable')
  BY <1>1, <1>2, <1>3, <1>4, WhyGoes
<1> QED
  BY <1>1, <1>3, <1>5, CausesKept

LEMMA BlockCauses ==
    ASSUME IInv, CausesOK, NEW c \in Calls, Block(c), UNCHANGED browser
    PROVE  CausesOK'
<1>1. /\ CallsOK /\ call[c] \in Call /\ WhyOK(call[c], ended, Refusable)
      /\ CallOK(call[c], row, Caused) /\ call[c].new \in Tokens
      /\ CausesStay /\ UNCHANGED <<cookie, ended>>
  BY ServerFacts DEF Block
<1>2. call[c].step = "block"
  BY DEF Block
<1>3. call[c].kind \notin {"refresh", "logout"}
  BY <1>1, <1>2 DEF CallOK, WhyOK, Ending
<1>4. call' = [call EXCEPT ![c] = Answered(call[c], "ok", call[c].new)]
  BY <1>1 DEF Block, Answer, CallsOK
<1>5. \A d \in Calls : Marked(call'[d], call[d]) \/ WhyOK(call'[d], ended', Refusable')
  BY <1>1, <1>3, <1>4, WhyAnswers
<1>6. blocked' \subseteq ended' \cup {"user"} /\ (cookie' = 0 => ended' # {})
  BY <1>1, <1>2 DEF CausesOK, Block, WhyOK
<1> QED
  BY <1>1, <1>5, <1>6, CausesMove

LEMMA ServerCauses ==
    ASSUME IInv, IInv', CausesOK, NEW c \in Calls, ServerStep(c), UNCHANGED browser
    PROVE  CausesOK'
BY FindCauses, HeirCauses, SessionCauses, IssueCauses, ConsumeCauses, ReuseCauses,
   LogoutCauses, CurrentCauses, ListCauses, RevokeRowsCauses, BlockCauses DEF ServerStep

-----------------------------------------------------------------------------
(* What the browser does to the requests: some are marked, one is settled, *)
(* one is sent.                                                            *)

\* The requests that are not new are as before, but for their marks.
Kept(calls, new) ==
    \A c \in Calls : c \in new \/ calls[c] = Idle \/ Marked(calls[c], call[c])

LEMMA MarkedTwice ==
    ASSUME NEW p, NEW q, NEW r, Marked(p, q), Marked(q, r)
    PROVE  Marked(p, r)
BY DEF Marked

\* A mark on a request that is idle changes nothing.
LEMMA MarksKept ==
    ASSUME NEW calls \in [Calls -> Call], NEW new, NEW marked, Kept(calls, new),
           \A c \in Calls :
               \/ marked[c] = calls[c]
               \/ marked[c] = [calls[c] EXCEPT !.stale = TRUE] /\ calls[c].kind = "refresh"
               \/ marked[c] = [calls[c] EXCEPT !.tab = "none"]
    PROVE  Kept(marked, new)
<1>1. Idle = [Idle EXCEPT !.tab = "none"] /\ Idle.kind = "none"
  BY DEF Idle
<1> SUFFICES ASSUME NEW c \in Calls, c \notin new
             PROVE  marked[c] = Idle \/ Marked(marked[c], call[c])
  BY DEF Kept
<1>2. calls[c] \in Call
  OBVIOUS
<1>3. /\ Marked([calls[c] EXCEPT !.stale = TRUE], calls[c])
      /\ Marked([calls[c] EXCEPT !.tab = "none"], calls[c])
      /\ Marked(calls[c], calls[c])
  BY <1>2 DEF Call, Marked
<1>4. Marked(marked[c], calls[c])
  BY <1>3
<1>5. CASE calls[c] = Idle
  BY <1>1, <1>5
<1>6. CASE Marked(calls[c], call[c])
  BY <1>4, <1>6, MarkedTwice
<1> QED
  BY <1>5, <1>6 DEF Kept

LEMMA InvalidatedKept ==
    ASSUME NEW calls \in [Calls -> Call], NEW new, Kept(calls, new), NEW tabs
    PROVE  Kept(Invalidated(calls, tabs), new)
<1> DEFINE marked == Invalidated(calls, tabs)
<1>1. \A c \in Calls : \/ marked[c] = calls[c]
                       \/ marked[c] = [calls[c] EXCEPT !.stale = TRUE] /\ calls[c].kind = "refresh"
  BY DEF Invalidated
<1> HIDE DEF marked
<1>2. Kept(marked, new)
  BY <1>1, MarksKept
<1> QED
  BY <1>2 DEF marked

LEMMA OrphanedKept ==
    ASSUME NEW calls \in [Calls -> Call], NEW new, Kept(calls, new), NEW t
    PROVE  Kept(Orphaned(calls, t), new)
<1> DEFINE marked == Orphaned(calls, t)
<1>1. \A c \in Calls : marked[c] = calls[c] \/ marked[c] = [calls[c] EXCEPT !.tab = "none"]
  BY DEF Orphaned
<1> HIDE DEF marked
<1>2. Kept(marked, new)
  BY <1>1, MarksKept
<1> QED
  BY <1>2 DEF marked

LEMMA SettledKept ==
    ASSUME CallsOK, NEW c \in Calls
    PROVE  Settled(c) \in [Calls -> Call] /\ Kept(Settled(c), {})
<1>1. \A d \in Calls : Settled(c)[d] = Idle \/ Settled(c)[d] = call[d]
  BY DEF Settled, CallsOK
<1>2. Idle \in Call
  BY TokenAssumption DEF Idle, Call, Tokens, Steps
<1> QED
  BY <1>1, <1>2 DEF Kept, Marked, Settled, CallsOK

LEMMA KeptCauses ==
    ASSUME CausesOK, UNCHANGED server, Caused \subseteq Caused', UNCHANGED cookie,
           NEW new, Kept(call', new),
           \A c \in new : c \in Calls => WhyOK(call'[c], ended', Refusable')
    PROVE  CausesOK'
<1>1. CausesStay /\ UNCHANGED <<cookie, blocked>>
  BY DEF CausesStay, server
<1>2. \A c \in Calls : Marked(call'[c], call[c]) \/ WhyOK(call'[c], ended', Refusable')
  BY WhyIdle DEF Kept
<1> QED
  BY <1>1, <1>2, CausesKept

LEMMA ClearCauses ==
    ASSUME CallsOK, CausesOK, NEW t, NEW p, NEW calls \in [Calls -> Call],
           Kept(calls, {}), Clear(t, p, calls),
           UNCHANGED server, UNCHANGED <<cookie, overdue>>
    PROVE  CausesOK'
<1>1. Kept(call', {})
  BY InvalidatedKept DEF Clear
<1>2. Caused \subseteq Caused'
  BY DEF Caused, server
<1> QED
  BY <1>1, <1>2, KeptCauses

LEMMA StartRefreshCauses ==
    ASSUME IInv, CausesOK, NEW t \in Tabs, NEW c \in Calls, StartRefresh(t, c)
    PROVE  CausesOK'
<1> DEFINE q == [Idle EXCEPT !.kind = "refresh", !.step = "find", !.tab = t,
                             !.token = Presented]
<1>1. call' = [call EXCEPT ![c] = q] /\ CallsOK
  BY DEF StartRefresh, Send, IInv
<1>2. CausesStay /\ UNCHANGED <<cookie, blocked, ended>>
  BY DEF StartRefresh, server, CausesStay, Caused
<1>3. q.kind = "refresh" /\ q.step = "find" /\ q.result = "none" /\ q.token = Presented
  BY DEF Idle
<1> HIDE DEF q
<1>4. WhyOK(q, ended', Refusable')
  BY <1>2, <1>3 DEF WhyOK, CausesOK, Presented
<1> QED
  BY <1>1, <1>2, <1>4, OneCallMoves, CausesKept

\* A cookie goes only with the answer to a logout.
LEMMA DeliverCauses ==
    ASSUME IInv, CausesOK, NEW c \in Calls, Deliver(c)
    PROVE  CausesOK'
<1>1. /\ CallsOK /\ call[c] \in Call /\ WhyOK(call[c], ended, Refusable)
      /\ CallOK(call[c], row, Caused)
  BY DEF IInv, CallsOK, CausesOK
<1>2. CausesStay /\ UNCHANGED <<blocked, ended>> /\ Goto(c, "settle")
  BY DEF Deliver, server, CausesStay, Caused
<1>3. \A d \in Calls : Marked(call'[d], call[d]) \/ WhyOK(call'[d], ended', Refusable')
  BY <1>1, <1>2, WhyGoes
<1>4. call[c].step = "answer" /\ call[c].result = "ok"
  BY <1>1 DEF Deliver, WhyOK
<1>5. cookie' = 0 => ended' # {}
  BY <1>1, <1>2, <1>4 DEF Deliver, CausesOK, WhyOK, CallOK
<1>6. blocked' \subseteq ended' \cup {"user"}
  BY <1>2 DEF CausesOK
<1> QED
  BY <1>2, <1>3, <1>5, <1>6, CausesMove

LEMMA SettleRefreshCauses ==
    ASSUME IInv, CausesOK, NEW t \in Tabs, NEW c \in Calls, SettleRefresh(t, c)
    PROVE  CausesOK'
<1>1. CallsOK /\ Settled(c) \in [Calls -> Call] /\ Kept(Settled(c), {})
  BY SettledKept DEF IInv
<1>2. UNCHANGED server /\ UNCHANGED <<cookie, overdue>> /\ Caused \subseteq Caused'
  BY DEF SettleRefresh, Caused, server
<1>3. CASE Refused(t, c) \/ WaitedInVain(t, c)
  BY <1>1, <1>2, <1>3, ClearCauses DEF Refused, WaitedInVain
<1>4. CASE call' = Settled(c)
  BY <1>1, <1>2, <1>4, KeptCauses
<1> QED
  BY <1>3, <1>4 DEF SettleRefresh, Dropped, Retried, Refreshed, SetSession

LEMMA BeginLogoutCauses ==
    ASSUME IInv, CausesOK, NEW t \in Tabs, NEW c \in Calls, BeginLogout(t, c)
    PROVE  CausesOK'
<1> DEFINE token == IF stored # 0 THEN stored ELSE cookie
           clears == token = 0 \/ cookie = 0 \/ token = cookie
           q == [Idle EXCEPT !.kind = "logout", !.step = "logout", !.tab = t,
                             !.token = token, !.clears = clears]
           calls == [call EXCEPT ![c] = q]
<1>1. CallsOK /\ UNCHANGED server /\ UNCHANGED cookie /\ Caused \subseteq Caused'
      /\ ended' = ended
  BY DEF BeginLogout, IInv, server, Caused
<1>2. Clear(t, Page("leaving"), calls)
  BY DEF BeginLogout, Send, CallsOK, IInv
<1>3. q.kind = "logout" /\ q.step = "logout" /\ q.token = token /\ q.result = "none"
  BY DEF Idle
<1>4. q \in Call
  <2>1. token \in Tokens /\ clears \in BOOLEAN
    BY CallsFitNow, TokenAssumption DEF Tokens, RowsOK
  <2>2. Idle \in Call /\ "logout" \in Steps
    BY TokenAssumption DEF Idle, Call, Tokens, Steps
  <2> QED
    BY <2>1, <2>2 DEF Call
<1>5. WhyOK(q, ended', Refusable')
  BY <1>1, <1>3 DEF WhyOK, CausesOK
<1> HIDE DEF q
<1>6. calls \in [Calls -> Call] /\ calls[c] = q /\ Kept(calls, {c})
  BY <1>1, <1>4 DEF CallsOK, Kept, Marked
<1> HIDE DEF calls
<1>7. call' = Invalidated(calls, Tabs) /\ Kept(call', {c}) /\ call'[c] = q
  <2>1. call' = Invalidated(calls, Tabs) /\ q.kind # "refresh"
    BY <1>2, <1>3 DEF Clear
  <2>2. call'[c] = q
    BY <1>6, <2>1 DEF Invalidated
  <2> QED
    BY <1>6, <2>1, <2>2, InvalidatedKept
<1> QED
  BY <1>1, <1>5, <1>7, KeptCauses

LEMMA CallsHere ==
    ASSUME IInv
    PROVE  CallsOK /\ call \in [Calls -> Call] /\ Kept(call, {})
BY DEF IInv, CallsOK, Kept, Marked

LEMMA SettleLogoutCauses ==
    ASSUME IInv, CausesOK, NEW t \in Tabs, NEW c \in Calls, SettleLogout(t, c)
    PROVE  CausesOK'
BY CallsHere, SettledKept, KeptCauses DEF SettleLogout, Caused, server

LEMMA SettleOtherCauses ==
    ASSUME IInv, CausesOK, NEW c \in Calls, SettleOther(c)
    PROVE  CausesOK'
BY CallsHere, SettledKept, KeptCauses DEF SettleOther, Caused, server, browser

LEMMA LoadCauses ==
    ASSUME IInv, CausesOK, NEW t \in Tabs, Load(t)
    PROVE  CausesOK'
BY CallsHere, OrphanedKept, KeptCauses DEF Load, Caused, server

LEMMA LoginCauses ==
    ASSUME IInv, CausesOK, NEW t \in Tabs, NEW f \in Families, Login(t, f)
    PROVE  CausesOK'
<1>1. call' = Invalidated(call, {t}) /\ CausesStay /\ UNCHANGED <<blocked, ended>>
  BY DEF Login, SetSession, CausesStay, Caused
<1>2. Kept(call', {})
  BY <1>1, CallsHere, InvalidatedKept
<1>3. \A c \in Calls : Marked(call'[c], call[c]) \/ WhyOK(call'[c], ended', Refusable')
  BY <1>2, WhyIdle DEF Kept
<1>4. Len(row') # 0
  BY Stores DEF IInv, Login, RowsOK
<1>5. cookie' = 0 => ended' # {}
  BY <1>1, <1>4 DEF Login, CausesOK
<1>6. blocked' \subseteq ended' \cup {"user"}
  BY <1>1 DEF CausesOK
<1> QED
  BY <1>1, <1>3, <1>5, <1>6, CausesMove

LEMMA ApiRefusedCauses ==
    ASSUME IInv, CausesOK, NEW t \in Tabs, ApiRefused(t)
    PROVE  CausesOK'
BY CallsHere, ClearCauses DEF ApiRefused

LEMMA AskRevokeCauses ==
    ASSUME IInv, CausesOK, NEW t \in Tabs, NEW c \in Calls, NEW kind \in {"others", "password"},
           AskRevoke(t, c, kind)
    PROVE  CausesOK'
<1>1. PICK step \in {"current", "rows"}, token \in {cookie, 0} :
          call' = Send(t, c, kind, step, token)
  BY DEF AskRevoke
<1> DEFINE q == [Idle EXCEPT !.kind = kind, !.step = step, !.tab = t, !.token = token]
<1>2. call' = [call EXCEPT ![c] = q]
  BY <1>1 DEF Send
<1>3. q.kind = kind /\ q.step = step
  BY DEF Idle
<1> HIDE DEF q
<1>4. WhyOK(q, ended', Refusable')
  BY <1>3 DEF WhyOK
<1>5. CausesStay /\ UNCHANGED <<cookie, blocked, ended>>
  BY DEF AskRevoke, server, CausesStay, Caused
<1> QED
  BY <1>2, <1>4, <1>5, CallsHere, OneCallMoves, CausesKept

LEMMA LoseCauses ==
    ASSUME IInv, CausesOK, NEW c \in Calls, Lose(c),
           UNCHANGED <<cookie, stored, access, tab, overdue>>
    PROVE  CausesOK'
<1>1. CausesStay /\ UNCHANGED <<cookie, blocked>> /\ 0 \in Tokens
  BY TokenAssumption DEF Lose, server, CausesStay, Caused, Tokens
<1>2. call' = [call EXCEPT ![c] = Answered(call[c], "lost", 0)]
  BY DEF Lose, Answer
<1>3. \A d \in Calls : Marked(call'[d], call[d]) \/ WhyOK(call'[d], ended', Refusable')
  BY <1>1, <1>2, CallsHere, WhyAnswers
<1> QED
  BY <1>1, <1>3, CausesKept

LEMMA ElsewhereRevokeCauses ==
    ASSUME IInv, CausesOK, NEW c \in Calls, NEW f \in Families, ElsewhereRevoke(c, f)
    PROVE  CausesOK'
<1> DEFINE q == [Idle EXCEPT !.kind = "others", !.step = "rows", !.families = {f}]
<1>1. call' = [call EXCEPT ![c] = q]
  BY DEF ElsewhereRevoke
<1>2. q.kind = "others" /\ q.step = "rows"
  BY DEF Idle
<1> HIDE DEF q
<1>3. WhyOK(q, ended', Refusable')
  BY <1>2 DEF WhyOK
<1>4. CausesStay /\ UNCHANGED <<cookie, blocked, ended>>
  BY DEF ElsewhereRevoke, server, CausesStay, Caused
<1> QED
  BY <1>1, <1>3, <1>4, CallsHere, OneCallMoves, CausesKept

\* A step that leaves the requests alone.
LEMMA WorldCauses ==
    ASSUME IInv, CausesOK, CausesStay, UNCHANGED <<call, cookie, ended>>,
           blocked' \subseteq blocked
    PROVE  CausesOK'
<1>1. (cookie' = 0 => ended' # {}) /\ blocked' \subseteq ended' \cup {"user"}
  BY DEF CausesOK
<1>2. \A c \in Calls : Marked(call'[c], call[c])
  BY DEF Marked
<1> QED
  BY <1>1, <1>2, CausesMove

LEMMA NextCauses ==
    ASSUME IInv, IInv', CausesOK, [Next]_vars
    PROVE  CausesOK'
<1>1. ASSUME NEW t \in Tabs, TabStep(t) PROVE CausesOK'
  BY <1>1, StartRefreshCauses, SettleRefreshCauses, BeginLogoutCauses, SettleLogoutCauses,
     AskRevokeCauses, LoginCauses, LoadCauses, ApiRefusedCauses DEF TabStep
<1>2. ASSUME NEW c \in Calls, CallStep(c) PROVE CausesOK'
  BY <1>2, ServerCauses, LoseCauses, DeliverCauses, SettleOtherCauses DEF CallStep
<1>3. ASSUME NEW n \in 1 .. Len(row), GraceEnds(n) PROVE CausesOK'
  BY <1>3, WorldCauses DEF GraceEnds, CausesStay, Caused
<1>4. CASE BlockEnds
  BY <1>4, WorldCauses DEF BlockEnds, CausesStay, Caused, browser
<1>5. CASE Deactivate
  BY <1>5, WorldCauses DEF Deactivate, CausesStay, Caused
<1>6. ASSUME NEW f \in Families, ElsewhereLogin(f) PROVE CausesOK'
  BY <1>6, WorldCauses DEF ElsewhereLogin, CausesStay, Caused, browser
<1>7. ASSUME NEW c \in Calls, NEW f \in Families, ElsewhereRevoke(c, f) PROVE CausesOK'
  BY <1>7, ElsewhereRevokeCauses
<1>8. CASE UNCHANGED vars
  BY <1>8, WorldCauses DEF vars, server, browser, CausesStay, Caused
<1> QED
  BY <1>1, <1>2, <1>3, <1>4, <1>5, <1>6, <1>7, <1>8 DEF Next

-----------------------------------------------------------------------------
(* Requests and pages.  A page that has ended its session runs no refresh  *)
(* whose answer still counts, and one that waits for the answer to its     *)
(* logout waits for that one alone.                                        *)

Away == {"leaving", "loading"}

FitsPage(q, tabs) ==
    q.tab \in Tabs =>
        /\ q.kind = "refresh" /\ ~q.stale => tabs[q.tab].page \notin Away
        /\ q.kind = "logout" => tabs[q.tab].page = "leaving"

OneLogout(calls) ==
    \A c, d \in Calls :
        /\ calls[c].kind = "logout" /\ calls[d].kind = "logout"
        /\ calls[c].tab = calls[d].tab /\ calls[c].tab \in Tabs
        => c = d

PagesOK == (\A c \in Calls : FitsPage(call[c], tab)) /\ OneLogout(call)

\* A request that is no closer to its tab than before.
Fades(p, q) == \/ p.tab \notin Tabs \/ p.kind \notin {"refresh", "logout"}
               \/ p.kind = q.kind /\ p.tab = q.tab /\ (q.stale => p.stale)

\* Pages that leave go on leaving, and no page leaves.
PagesStay == \A t \in Tabs : /\ tab[t].page = "leaving" => tab'[t].page = "leaving"
                             /\ tab[t].page \notin Away => tab'[t].page \notin Away

LEMMA PagesMove ==
    ASSUME PagesOK, PagesStay,
           \A c \in Calls : \/ Fades(call'[c], call[c])
                            \/ call'[c].kind # "logout" /\ FitsPage(call'[c], tab')
    PROVE  PagesOK'
<1>1. ASSUME NEW c \in Calls PROVE FitsPage(call'[c], tab')
  <2> SUFFICES ASSUME Fades(call'[c], call[c]), call'[c].tab \in Tabs
               PROVE  FitsPage(call'[c], tab')
    BY DEF FitsPage
  <2> QED
    BY DEF FitsPage, Fades, PagesOK, PagesStay
<1>2. \A c \in Calls : call'[c].kind = "logout" /\ call'[c].tab \in Tabs
          => call[c].kind = "logout" /\ call[c].tab = call'[c].tab
  BY DEF Fades
<1>3. OneLogout(call')
  BY <1>2 DEF OneLogout, PagesOK
<1> QED
  BY <1>1, <1>3 DEF PagesOK

\* The session is cleared: whichever page leaves, no refresh counts any more.
LEMMA PagesCleared ==
    ASSUME PagesOK, CallsOK, NEW t \in Tabs, NEW p, NEW calls \in [Calls -> Call],
           Clear(t, p, calls),
           \A c \in Calls : Fades(calls[c], call[c]),
           tab[t].page = "leaving" => p.page = "leaving"
    PROVE  PagesOK'
<1>1. \A c \in Calls : call'[c] = IF calls[c].kind = "refresh" /\ calls[c].tab \in Tabs
                                  THEN [calls[c] EXCEPT !.stale = TRUE] ELSE calls[c]
  BY DEF Clear, Invalidated
<1>2. \A c \in Calls : /\ call'[c].kind = calls[c].kind /\ call'[c].tab = calls[c].tab
                       /\ calls[c].kind = "refresh" /\ calls[c].tab \in Tabs => call'[c].stale
  BY <1>1 DEF Call
<1>3. \A c \in Calls : call'[c].kind = "logout" /\ call'[c].tab \in Tabs
          => call[c].kind = "logout" /\ call[c].tab = call'[c].tab
  BY <1>2 DEF Fades
<1>4. \A u \in Tabs : tab[u].page = "leaving" => tab'[u].page = "leaving"
  BY DEF Clear, SignedOut, Page
<1>5. \A c \in Calls : FitsPage(call'[c], tab')
  BY <1>2, <1>3, <1>4 DEF FitsPage, PagesOK
<1>6. OneLogout(call')
  BY <1>3 DEF OneLogout, PagesOK
<1> QED
  BY <1>5, <1>6 DEF PagesOK

\* One request changes.
LEMMA OneCallFades ==
    ASSUME CallsOK, NEW c \in Calls, NEW q, call' = [call EXCEPT ![c] = q],
           Fades(q, call[c])
    PROVE  \A d \in Calls : Fades(call'[d], call[d])
<1>1. \A d \in Calls : call'[d] = call[d] \/ (d = c /\ call'[d] = q)
  BY DEF CallsOK
<1> QED
  BY <1>1 DEF Fades

LEMMA FadedIdle == \A q : Fades(Idle, q)
BY DEF Fades, Idle

LEMMA AnsweredFades ==
    ASSUME NEW q \in Call, NEW a, NEW n
    PROVE  Fades(Answered(q, a, n), q)
<1> DEFINE p == [q EXCEPT
                 !.step = IF a = "ok" /\ q.kind # "password" THEN "answer" ELSE "settle",
                 !.result = a, !.new = n, !.token = 0, !.inGrace = FALSE, !.families = {}]
<1>1. p.kind = q.kind /\ p.tab = q.tab /\ p.stale = q.stale
  BY DEF Call
<1> HIDE DEF p
<1>2. Answered(q, a, n) \in {Idle, p}
  BY DEF Answered, p
<1> QED
  BY <1>1, <1>2, FadedIdle DEF Fades

\* The API knows nothing of pages.
LEMMA ServerFades ==
    ASSUME CallsOK, NEW c \in Calls, ServerStep(c) \/ Lose(c)
    PROVE  \A d \in Calls : Fades(call'[d], call[d])
<1>1. call[c] \in Call
  BY DEF CallsOK
<1>2. ASSUME NEW s, Goto(c, s) PROVE \A d \in Calls : Fades(call'[d], call[d])
  <2> DEFINE q == [call[c] EXCEPT !.step = s]
  <2>1. call' = [call EXCEPT ![c] = q]
    BY <1>2 DEF Goto
  <2>2. q.kind = call[c].kind /\ q.tab = call[c].tab /\ q.stale = call[c].stale
    BY <1>1 DEF Call
  <2> HIDE DEF q
  <2> QED
    BY <2>1, <2>2, OneCallFades DEF Fades
<1>3. ASSUME NEW a, Answer(c, a) PROVE \A d \in Calls : Fades(call'[d], call[d])
  <2>1. PICK n : call' = [call EXCEPT ![c] = Answered(call[c], a, n)]
    BY <1>3 DEF Answer, CallsOK
  <2> QED
    BY <1>1, <2>1, AnsweredFades, OneCallFades
<1>4. CASE Heir(c)
  <2> DEFINE q == [call[c] EXCEPT !.step = "session", !.inGrace = TRUE]
  <2>1. Goto(c, "reuse") \/ call' = [call EXCEPT ![c] = q]
    BY <1>4 DEF Heir
  <2>2. q.kind = call[c].kind /\ q.tab = call[c].tab /\ q.stale = call[c].stale
    BY <1>1 DEF Call
  <2> HIDE DEF q
  <2> QED
    BY <1>2, <2>1, <2>2, OneCallFades DEF Fades
<1>5. CASE Issue(c)
  <2> DEFINE q == [call[c] EXCEPT !.step = "consume", !.new = Len(row')]
             a == Answered(call[c], "ok", Len(row'))
  <2>1. call' = [call EXCEPT ![c] = a] \/ call' = [call EXCEPT ![c] = q]
    BY <1>1, <1>5 DEF Issue, CallsOK
  <2>2. q.kind = call[c].kind /\ q.tab = call[c].tab /\ q.stale = call[c].stale
    BY <1>1 DEF Call
  <2>3. Fades(a, call[c])
    BY <1>1, AnsweredFades
  <2> HIDE DEF q, a
  <2> QED
    BY <2>1, <2>2, <2>3, OneCallFades DEF Fades
<1>6. CASE Current(c) \/ List(c)
  <2>1. Answer(c, "ok") \/ \E s, F : call' = [call EXCEPT ![c].step = s, ![c].families = F]
    BY <1>6 DEF Current, List
  <2>2. ASSUME NEW s, NEW F, call' = [call EXCEPT ![c].step = s, ![c].families = F]
        PROVE  \A d \in Calls : Fades(call'[d], call[d])
    <3> DEFINE q == [call[c] EXCEPT !.step = s, !.families = F]
    <3>1. call' = [call EXCEPT ![c] = q]
      BY <2>2
    <3>2. q.kind = call[c].kind /\ q.tab = call[c].tab /\ q.stale = call[c].stale
      BY <1>1 DEF Call
    <3> HIDE DEF q
    <3> QED
      BY <3>1, <3>2, OneCallFades DEF Fades
  <2> QED
    BY <1>3, <2>1, <2>2
<1>7. CASE \/ Find(c) \/ Session(c) \/ Consume(c) \/ Reuse(c) \/ Logout(c)
           \/ RevokeRows(c) \/ Block(c) \/ Lose(c)
  <2>1. (\E s : Goto(c, s)) \/ \E a : Answer(c, a)
    BY <1>7 DEF Find, Session, Consume, Reuse, Logout, RevokeRows, Block, Lose
  <2> QED
    BY <1>2, <1>3, <2>1
<1> QED
  BY <1>4, <1>5, <1>6, <1>7 DEF ServerStep

LEMMA PagesHere ==
    ASSUME IInv
    PROVE  /\ CallsOK /\ call \in [Calls -> Call] /\ tab \in [Tabs -> Tab]
           /\ \A c \in Calls : Fades(call[c], call[c])
           /\ (UNCHANGED tab => PagesStay)
BY DEF IInv, CallsOK, TabsOK, Fades, PagesStay

LEMMA SettledFades ==
    ASSUME IInv, NEW c \in Calls
    PROVE  /\ Settled(c) \in [Calls -> Call]
           /\ \A d \in Calls : Fades(Settled(c)[d], call[d])
           /\ Settled(c)[c] = Idle
<1>1. CallsOK /\ Settled(c) \in [Calls -> Call]
  BY SettledKept DEF IInv
<1>2. \A d \in Calls : Settled(c)[d] = Idle \/ Settled(c)[d] = call[d]
  BY <1>1 DEF Settled, CallsOK
<1>3. Settled(c)[c] = Idle
  BY <1>1 DEF Settled, CallsOK
<1> QED
  BY <1>1, <1>2, <1>3, FadedIdle, PagesHere

LEMMA StartRefreshPages ==
    ASSUME IInv, PagesOK, NEW t \in Tabs, NEW c \in Calls, StartRefresh(t, c)
    PROVE  PagesOK'
<1> DEFINE q == [Idle EXCEPT !.kind = "refresh", !.step = "find", !.tab = t,
                             !.token = Presented]
<1>1. call' = [call EXCEPT ![c] = q]
  BY DEF StartRefresh, Send
<1>2. q.kind = "refresh" /\ q.tab = t
  BY DEF Idle
<1> HIDE DEF q
<1>3. \A u \in Tabs : tab'[u].page = tab[u].page
  BY PagesHere DEF StartRefresh, Tab
<1>4. FitsPage(q, tab')
  BY <1>2, <1>3 DEF FitsPage, StartRefresh, Away
<1>5. \A d \in Calls : \/ Fades(call'[d], call[d])
                       \/ call'[d].kind # "logout" /\ FitsPage(call'[d], tab')
  BY <1>1, <1>2, <1>4, PagesHere
<1> QED
  BY <1>3, <1>5, PagesMove DEF PagesStay

\* A page that waits for its logout goes on waiting, whatever its refreshes
\* bring; only one that is still signed in is given a session.
LEMMA SettleRefreshPages ==
    ASSUME IInv, PagesOK, NEW t \in Tabs, NEW c \in Calls, SettleRefresh(t, c)
    PROVE  PagesOK'
<1>1. /\ Settled(c) \in [Calls -> Call] /\ tab \in [Tabs -> Tab] /\ CallsOK
      /\ \A d \in Calls : Fades(Settled(c)[d], call[d])
  BY SettledFades, PagesHere
<1>2. CASE Refused(t, c) \/ WaitedInVain(t, c)
  <2>1. Clear(t, SignedOut(t), Settled(c))
    BY <1>2 DEF Refused, WaitedInVain
  <2>2. tab[t].page = "leaving" => SignedOut(t).page = "leaving"
    BY DEF SignedOut, Page
  <2> QED
    BY <1>1, <2>1, <2>2, PagesCleared
<1>3. CASE Dropped(t, c) \/ Retried(t, c)
  <2>1. call' = Settled(c)
    BY <1>3 DEF Dropped, Retried
  <2>2. /\ \A u \in Tabs \ {t} : tab'[u] = tab[u]
        /\ tab'[t].page = IF tab[t].page = "booting" THEN "login" ELSE tab[t].page
    <3>1. CASE Dropped(t, c)
      BY <1>1, <3>1 DEF Dropped, Tab
    <3>2. CASE Retried(t, c)
      BY <1>1, <3>2 DEF Retried, Tab
    <3> QED
      BY <1>3, <3>1, <3>2
  <2>3. PagesStay
    BY <2>2 DEF PagesStay, Away
  <2> QED
    BY <1>1, <2>1, <2>3, PagesMove
<1>4. CASE Refreshed(t, c) /\ ~call[c].stale
  <2>1. call' = Settled(c)
    BY <1>4 DEF Refreshed, SetSession
  <2>2. tab[t].page \notin Away
    BY <1>4 DEF SettleRefresh, PagesOK, FitsPage
  <2>3. \A u \in Tabs : \/ tab'[u].page = tab[u].page
                        \/ tab[u].page \notin Away /\ tab'[u].page = "app"
    BY <1>1, <1>4, <2>2 DEF Refreshed, SetSession, Page, Tab, Away
  <2>4. PagesStay
    BY <2>3 DEF PagesStay, Away
  <2> QED
    BY <1>1, <2>1, <2>4, PagesMove
<1> QED
  BY <1>2, <1>3, <1>4 DEF SettleRefresh

\* The tab that begins to log out was in the app: it waits for no other logout.
LEMMA BeginLogoutPages ==
    ASSUME IInv, PagesOK, NEW t \in Tabs, NEW c \in Calls, BeginLogout(t, c)
    PROVE  PagesOK'
<1> DEFINE token == IF stored # 0 THEN stored ELSE cookie
           clears == token = 0 \/ cookie = 0 \/ token = cookie
           q == [Idle EXCEPT !.kind = "logout", !.step = "logout", !.tab = t,
                             !.token = token, !.clears = clears]
           calls == [call EXCEPT ![c] = q]
<1>1. CallsOK /\ call \in [Calls -> Call] /\ tab[t].page = "app"
  BY PagesHere DEF BeginLogout
<1>2. Clear(t, Page("leaving"), calls)
  BY DEF BeginLogout, Send, CallsOK, IInv
<1>3. q.kind = "logout" /\ q.tab = t
  BY DEF Idle
<1> HIDE DEF q
<1>4. \A d \in Calls : call'[d] = IF calls[d].kind = "refresh" /\ calls[d].tab \in Tabs
                                  THEN [calls[d] EXCEPT !.stale = TRUE] ELSE calls[d]
  BY <1>2 DEF Clear, Invalidated
<1>5. calls[c] = q /\ \A d \in Calls \ {c} : calls[d] = call[d] /\ calls[d] \in Call
  BY <1>1
<1> HIDE DEF calls
<1>6. call'[c] = q
  BY <1>3, <1>4, <1>5
<1>7. \A d \in Calls \ {c} : /\ call'[d].kind = call[d].kind /\ call'[d].tab = call[d].tab
                             /\ call[d].kind = "refresh" /\ call[d].tab \in Tabs => call'[d].stale
  <2>1. \A d \in Calls \ {c} : call'[d] \in {call[d], [call[d] EXCEPT !.stale = TRUE]}
            /\ (call[d].kind = "refresh" /\ call[d].tab \in Tabs
                    => call'[d] = [call[d] EXCEPT !.stale = TRUE])
    BY <1>4, <1>5
  <2>2. \A k \in Call : LET m == [k EXCEPT !.stale = TRUE] IN
            m.kind = k.kind /\ m.tab = k.tab /\ m.stale
    BY DEF Call
  <2> QED
    BY <1>1, <2>1, <2>2
<1>8. \A u \in Tabs : /\ tab[u].page = "leaving" => tab'[u].page = "leaving"
                      /\ tab'[t].page = "leaving"
  BY <1>2 DEF Clear, SignedOut, Page
<1>9. \A d \in Calls : FitsPage(call'[d], tab')
  BY <1>3, <1>6, <1>7, <1>8 DEF FitsPage, PagesOK
<1>10. \A d \in Calls \ {c} : call'[d].kind = "logout" => call'[d].tab # t
  BY <1>1, <1>7 DEF PagesOK, FitsPage
<1>11. OneLogout(call')
  <2> SUFFICES ASSUME NEW d \in Calls, NEW e \in Calls,
                      call'[d].kind = "logout", call'[e].kind = "logout",
                      call'[d].tab = call'[e].tab, call'[d].tab \in Tabs
               PROVE  d = e
    BY DEF OneLogout
  <2>1. CASE d = c \/ e = c
    BY <1>3, <1>6, <1>10, <2>1
  <2>2. CASE d # c /\ e # c
    BY <1>7, <2>2 DEF PagesOK, OneLogout
  <2> QED
    BY <2>1, <2>2
<1> QED
  BY <1>9, <1>11 DEF PagesOK

\* The page loads: its only logout is settled, and no refresh of it counts.
LEMMA SettleLogoutPages ==
    ASSUME IInv, PagesOK, NEW t \in Tabs, NEW c \in Calls, SettleLogout(t, c)
    PROVE  PagesOK' /\ tab[t].page = "leaving"
<1>1. call[c].kind = "logout" /\ call[c].tab = t /\ call' = Settled(c)
  BY DEF SettleLogout
<1>2. tab[t].page = "leaving"
  BY <1>1 DEF PagesOK, FitsPage
<1>3. \A u \in Tabs \ {t} : tab'[u] = tab[u]
  BY PagesHere DEF SettleLogout
<1>4. /\ call'[c] = Idle /\ call'[c].kind = "none"
      /\ \A d \in Calls \ {c} : call'[d] = call[d]
  BY <1>1, PagesHere DEF Settled, Idle
<1>5. \A d \in Calls \ {c} : call[d].kind = "logout" => call[d].tab # t
  BY <1>1 DEF PagesOK, OneLogout
<1>6. \A d \in Calls : FitsPage(call'[d], tab')
  BY <1>2, <1>3, <1>4, <1>5 DEF PagesOK, FitsPage, Away
<1>7. OneLogout(call')
  BY <1>4 DEF PagesOK, OneLogout
<1> QED
  BY <1>2, <1>6, <1>7 DEF PagesOK

LEMMA LoadPages ==
    ASSUME IInv, PagesOK, NEW t \in Tabs, Load(t)
    PROVE  PagesOK'
<1>1. \A c \in Calls : call'[c] = IF call[c].tab = t THEN [call[c] EXCEPT !.tab = "none"]
                                  ELSE call[c]
  BY DEF Load, Orphaned
<1>2. \A q \in Call : [q EXCEPT !.tab = "none"].tab = "none"
  BY DEF Call
<1>3. ASSUME NEW c \in Calls PROVE Fades(call'[c], call[c])
  <2>1. call[c] \in Call /\ (call'[c] = call[c] \/ call'[c] = [call[c] EXCEPT !.tab = "none"])
    BY <1>1, PagesHere
  <2>2. call'[c] = call[c] \/ call'[c].tab = "none"
    BY <1>2, <2>1
  <2> QED
    BY <2>2, PagesHere, TabAssumption DEF Fades
<1>4. PagesStay
  BY PagesHere DEF Load, PagesStay, Away
<1> QED
  BY <1>3, <1>4, PagesMove

LEMMA LoginPages ==
    ASSUME IInv, PagesOK, NEW t \in Tabs, NEW f \in Families, Login(t, f)
    PROVE  PagesOK'
<1>1. \A c \in Calls : call'[c] = IF call[c].kind = "refresh" /\ call[c].tab \in {t}
                                  THEN [call[c] EXCEPT !.stale = TRUE] ELSE call[c]
  BY DEF Login, SetSession, Invalidated
<1>2. \A c \in Calls : Fades(call'[c], call[c])
  BY <1>1, PagesHere DEF Fades, Call
<1>3. \A u \in Tabs : \/ tab'[u].page = tab[u].page
                      \/ tab[u].page \notin Away /\ tab'[u].page = "app"
  BY PagesHere DEF Login, SetSession, Page, Tab, Away
<1>4. PagesStay
  BY <1>3 DEF PagesStay, Away
<1> QED
  BY <1>2, <1>4, PagesMove

LEMMA ApiRefusedPages ==
    ASSUME IInv, PagesOK, NEW t \in Tabs, ApiRefused(t)
    PROVE  PagesOK'
<1>1. tab[t].page # "leaving" /\ Clear(t, SignedOut(t), call)
  BY DEF ApiRefused
<1> QED
  BY <1>1, PagesHere, PagesCleared

LEMMA AskRevokePages ==
    ASSUME IInv, PagesOK, NEW t \in Tabs, NEW c \in Calls, NEW kind \in {"others", "password"},
           AskRevoke(t, c, kind)
    PROVE  PagesOK'
<1>1. PICK step \in {"current", "rows"}, token \in {cookie, 0} :
          call' = Send(t, c, kind, step, token)
  BY DEF AskRevoke
<1> DEFINE q == [Idle EXCEPT !.kind = kind, !.step = step, !.tab = t, !.token = token]
<1>2. call' = [call EXCEPT ![c] = q]
  BY <1>1 DEF Send
<1>3. Fades(q, call[c])
  BY DEF Idle, Fades
<1> HIDE DEF q
<1>4. PagesStay
  BY PagesHere DEF AskRevoke
<1> QED
  BY <1>2, <1>3, <1>4, PagesHere, OneCallFades, PagesMove

LEMMA DeliverPages ==
    ASSUME IInv, PagesOK, NEW c \in Calls, Deliver(c)
    PROVE  PagesOK'
<1> DEFINE q == [call[c] EXCEPT !.step = "settle"]
<1>1. call' = [call EXCEPT ![c] = q]
  BY DEF Deliver, Goto
<1>2. q.kind = call[c].kind /\ q.tab = call[c].tab /\ q.stale = call[c].stale
  BY PagesHere DEF Call
<1> HIDE DEF q
<1>3. PagesStay
  BY PagesHere DEF Deliver
<1>4. Fades(q, call[c])
  BY <1>2 DEF Fades
<1> QED
  BY <1>1, <1>3, <1>4, PagesHere, OneCallFades, PagesMove

LEMMA ElsewhereRevokePages ==
    ASSUME IInv, PagesOK, NEW c \in Calls, NEW f \in Families, ElsewhereRevoke(c, f)
    PROVE  PagesOK'
<1> DEFINE q == [Idle EXCEPT !.kind = "others", !.step = "rows", !.families = {f}]
<1>1. call' = [call EXCEPT ![c] = q] /\ Fades(q, call[c])
  BY DEF ElsewhereRevoke, Idle, Fades
<1> HIDE DEF q
<1>2. PagesStay
  BY PagesHere DEF ElsewhereRevoke
<1> QED
  BY <1>1, <1>2, PagesHere, OneCallFades, PagesMove

LEMMA NextPages ==
    ASSUME IInv, PagesOK, [Next]_vars
    PROVE  PagesOK'
<1>1. ASSUME NEW t \in Tabs, TabStep(t) PROVE PagesOK'
  BY <1>1, StartRefreshPages, SettleRefreshPages, BeginLogoutPages, SettleLogoutPages,
     AskRevokePages, LoginPages, LoadPages, ApiRefusedPages DEF TabStep
<1>2. ASSUME NEW c \in Calls, CallStep(c) PROVE PagesOK'
  <2>1. CASE ServerStep(c) /\ UNCHANGED browser
    BY <2>1, PagesHere, ServerFades, PagesMove DEF browser
  <2>2. CASE Lose(c) /\ UNCHANGED <<cookie, stored, access, tab, overdue>>
    BY <2>2, PagesHere, ServerFades, PagesMove
  <2>3. CASE SettleOther(c)
    BY <2>3, PagesHere, SettledFades, PagesMove DEF SettleOther, browser
  <2> QED
    BY <1>2, <2>1, <2>2, <2>3, DeliverPages DEF CallStep
<1>3. CASE UNCHANGED <<call, tab>>
  BY <1>3, PagesHere, PagesMove
<1>4. ASSUME NEW c \in Calls, NEW f \in Families, ElsewhereRevoke(c, f) PROVE PagesOK'
  BY <1>4, ElsewhereRevokePages
<1>5. ASSUME NEW n \in 1 .. Len(row), GraceEnds(n) PROVE UNCHANGED <<call, tab>>
  BY <1>5 DEF GraceEnds
<1>6. BlockEnds \/ Deactivate \/ (\E f \in Families : ElsewhereLogin(f)) \/ UNCHANGED vars
      => UNCHANGED <<call, tab>>
  BY DEF BlockEnds, Deactivate, ElsewhereLogin, vars, browser
<1> QED
  BY <1>1, <1>2, <1>3, <1>4, <1>5, <1>6 DEF Next

-----------------------------------------------------------------------------
LEMMA InitReasons ==
    ASSUME KeepsCookies, Init
    PROVE  CausesOK /\ PagesOK
<1>1. cookie = 1 /\ blocked = {} /\ \A c \in Calls : call[c] = Idle
  BY DEF Init
<1>2. CausesOK
  BY <1>1, WhyIdle DEF CausesOK
<1>3. Idle.kind = "none"
  BY DEF Idle
<1>4. PagesOK
  BY <1>1, <1>3 DEF PagesOK, FitsPage, OneLogout
<1> QED
  BY <1>2, <1>4

\* A page leaves the app in five ways.
LEMMA LeavesForCause ==
    ASSUME IInv, CausesOK, PagesOK, [Next]_vars
    PROVE  \A t \in Tabs : tab[t].page = "app" /\ tab'[t].page # "app" =>
              \/ ended \cup overdue # {}
              \/ ~member \/ "user" \in blocked
              \/ \E u \in Tabs : tab[u].page = "app" /\ tab'[u].page = "leaving"
              \/ \E c \in Calls : /\ call[c].kind = "refresh" /\ call'[c] = Idle
                                 /\ (call[c].result = "lost" \/ call[c].stale)
<1> SUFFICES ASSUME NEW t \in Tabs, tab[t].page = "app", tab'[t].page # "app",
                    ended \cup overdue = {}, member, "user" \notin blocked,
                    ~\E u \in Tabs : tab[u].page = "app" /\ tab'[u].page = "leaving",
                    ~\E c \in Calls : /\ call[c].kind = "refresh" /\ call'[c] = Idle
                                      /\ (call[c].result = "lost" \/ call[c].stale)
             PROVE  FALSE
  OBVIOUS
<1>1. tab' # tab /\ tab \in [Tabs -> Tab] /\ CallsOK /\ ~Refusable
  BY PagesHere DEF Refusable, Caused
<1>2. ASSUME NEW u \in Tabs, NEW c \in Calls, SettleRefresh(u, c) PROVE FALSE
  <2>1. call[c].kind = "refresh" /\ Settled(c) \in [Calls -> Call] /\ Settled(c)[c] = Idle
    BY <1>2, SettledFades DEF SettleRefresh
  <2>2. CASE Refused(u, c) \/ WaitedInVain(u, c)
    <3>1. call'[c] = Idle
      <4>1. call' = Invalidated(Settled(c), Tabs)
        BY <2>2 DEF Refused, WaitedInVain, Clear
      <4>2. Idle.kind # "refresh"
        BY DEF Idle
      <4> HIDE DEF Settled
      <4> QED
        BY <2>1, <4>1, <4>2 DEF Invalidated
    <3>2. call[c].result # "refused"
      BY <1>1, <2>1 DEF CausesOK, WhyOK
    <3> QED
      BY <2>1, <2>2, <3>1, <3>2 DEF Refused, WaitedInVain
  <2>3. CASE Dropped(u, c) \/ Retried(u, c)
    <3>1. CASE Dropped(u, c)
      BY <1>1, <3>1 DEF Dropped, Tab
    <3>2. CASE Retried(u, c)
      BY <1>1, <3>2 DEF Retried, Tab
    <3> QED
      BY <2>3, <3>1, <3>2
  <2>4. CASE Refreshed(u, c)
    BY <1>1, <2>4 DEF Refreshed, SetSession, Page
  <2> QED
    BY <1>2, <2>2, <2>3, <2>4 DEF SettleRefresh
<1>3. ASSUME NEW u \in Tabs, NEW c \in Calls, BeginLogout(u, c) PROVE FALSE
  BY <1>3 DEF BeginLogout, Clear, Page
<1>4. ASSUME NEW u \in Tabs, ApiRefused(u) PROVE FALSE
  <2>1. access \in blocked /\ access # "user"
    BY <1>4 DEF ApiRefused, Accepts
  <2> QED
    BY <2>1 DEF CausesOK
<1>5. ASSUME NEW u \in Tabs, NEW c \in Calls, SettleLogout(u, c) PROVE FALSE
  <2>1. tab[u].page = "leaving"
    BY <1>5, SettleLogoutPages
  <2> QED
    BY <1>1, <1>5, <2>1 DEF SettleLogout
<1>6. ASSUME NEW u \in Tabs, NEW c \in Calls, StartRefresh(u, c) PROVE FALSE
  BY <1>1, <1>6 DEF StartRefresh, Tab
<1>7. ASSUME NEW u \in Tabs, NEW f \in Families, Login(u, f) PROVE FALSE
  BY <1>1, <1>7 DEF Login, SetSession, Page
<1>8. ASSUME NEW u \in Tabs, Load(u) PROVE FALSE
  BY <1>1, <1>8 DEF Load
<1>9. ASSUME NEW u \in Tabs, NEW c \in Calls, NEW kind \in {"others", "password"},
             AskRevoke(u, c, kind)
      PROVE  FALSE
  BY <1>1, <1>9 DEF AskRevoke
<1>10. ASSUME NEW u \in Tabs, TabStep(u) PROVE FALSE
  BY <1>2, <1>3, <1>4, <1>5, <1>6, <1>7, <1>8, <1>9, <1>10 DEF TabStep
<1>11. ASSUME NEW c \in Calls, CallStep(c) PROVE FALSE
  BY <1>1, <1>11 DEF CallStep, Deliver, SettleOther, browser
<1>12. ASSUME NEW n \in 1 .. Len(row), GraceEnds(n) PROVE FALSE
  BY <1>1, <1>12 DEF GraceEnds
<1>13. ~BlockEnds /\ ~Deactivate /\ ~UNCHANGED vars
  BY <1>1 DEF BlockEnds, Deactivate, vars, browser
<1>14. ASSUME NEW f \in Families, ElsewhereLogin(f) \/ \E c \in Calls : ElsewhereRevoke(c, f)
       PROVE  FALSE
  BY <1>1, <1>14 DEF ElsewhereLogin, ElsewhereRevoke, browser
<1> QED
  BY <1>10, <1>11, <1>12, <1>13, <1>14 DEF Next

\* No page of a browser that keeps the API's cookies is signed out without a
\* cause, for any number of tabs, requests and sign-ins.  (A browser that does
\* not keep them may refresh without a token after another tab has cleared
\* storage, and be refused although somebody logged in meanwhile.)
THEOREM SignOutsHaveCause ==
    ASSUME KeepsCookies
    PROVE  Spec => SignedOutForCause
<1>1. Init => CausesOK /\ PagesOK
  BY InitReasons
<1>2. IInv /\ IInv' /\ CausesOK /\ PagesOK /\ [Next]_vars => CausesOK' /\ PagesOK'
  BY NextCauses, NextPages
<1>3. Spec => [](IInv /\ CausesOK /\ PagesOK)
  BY <1>1, <1>2, Invariance, PTL DEF Spec
<1>4. IInv /\ CausesOK /\ PagesOK /\ [Next]_vars =>
        [\A t \in Tabs : tab[t].page = "app" /\ tab'[t].page # "app" =>
              \/ ended \cup overdue # {}
              \/ ~member \/ "user" \in blocked
              \/ \E u \in Tabs : tab[u].page = "app" /\ tab'[u].page = "leaving"
              \/ \E c \in Calls : /\ call[c].kind = "refresh" /\ call'[c] = Idle
                                 /\ (call[c].result = "lost" \/ call[c].stale)]_vars
  BY LeavesForCause
<1> QED
  BY <1>3, <1>4, PTL DEF Spec, SignedOutForCause
=============================================================================
