--------------------------- MODULE BrowserSessions ---------------------------
(***************************************************************************)
(* The tabs of one browser in which a user is signed in, over the refresh  *)
(* tokens of the API: refresh-session.ts with its guard, session.store.ts, *)
(* logout.ts and the messages between tabs.                                *)
(*                                                                         *)
(* The tabs share a cookie jar and localStorage.  A tab refreshes whenever *)
(* its timer or an API call wants it; the answer reaches the cookie jar    *)
(* first and the tab's script later.  What a tab writes or clears reaches  *)
(* the other tabs at once.                                                 *)
(***************************************************************************)
EXTENDS RefreshTokens

CONSTANTS
    Retries,       \* MAX_REFRESH_RETRIES
    MaxUpsets,     \* bound: lost requests, and requests to end a session
    KeepsCookies   \* whether the browser keeps the API's cookies

ASSUME RetriesAssumption == Retries \in Nat
ASSUME UpsetAssumption == MaxUpsets \in Nat
ASSUME CookieAssumption == KeepsCookies \in BOOLEAN

VARIABLES
    cookie,   \* refresh_token cookie
    stored,   \* the refresh token in localStorage
    access,   \* the family of the access token in localStorage
    tab,      \* the tabs
    upsets,   \* how much of MaxUpsets is used
    overdue   \* families with a token still held when its grace ended (history)

browser == <<cookie, stored, access, tab, upsets, overdue>>
vars    == <<server, call, browser>>

-----------------------------------------------------------------------------
\* A page in the app has a session; one that is leaving or loading has none,
\* and a booting page at /login waits for its first refresh.
Tab      == [page: {"app", "leaving", "loading", "booting", "login"},
             refreshing: BOOLEAN, retries: 0 .. Retries]

Upset == upsets < MaxUpsets /\ upsets' = upsets + 1

Presented == IF cookie # 0 THEN cookie ELSE stored

Send(t, c, kind, step, token) ==
    [call EXCEPT ![c] = [Idle EXCEPT !.kind = kind, !.step = step, !.tab = t,
                                     !.token = token]]

Page(p) == [page |-> p, refreshing |-> FALSE, retries |-> 0]

\* A page that unloads loses its scripts.
Orphaned(calls, t) ==
    [c \in Calls |-> IF calls[c].tab = t THEN [calls[c] EXCEPT !.tab = "none"]
                     ELSE calls[c]]

\* invalidateAuthRefresh in some tabs: the answers to their refreshes in
\* flight will be dropped.
Invalidated(calls, tabs) ==
    [c \in Calls |-> IF calls[c].kind = "refresh" /\ calls[c].tab \in tabs
                     THEN [calls[c] EXCEPT !.stale = TRUE] ELSE calls[c]]

\* forceTenantAuthSignOut goes to /login, unless the page is there.
SignedOut(t) ==
    Page(CASE tab[t].page = "app"     -> "loading"
           [] tab[t].page = "booting" -> "login"
           [] OTHER                   -> tab[t].page)

\* clear: the session, the tokens in storage and the sessions of the other
\* tabs; tab t goes on as p.
Clear(t, p, calls) ==
    /\ call' = Invalidated(calls, Tabs)
    /\ tab' = [u \in Tabs |-> IF u = t THEN p ELSE SignedOut(u)]
    /\ stored' = 0
    /\ access' = "none"

\* setSession in tab t; another tab in the app has the new access token from
\* storage, and one at /login gets a session.
SetSession(t, n, f, calls) ==
    /\ call' = calls
    /\ stored' = n
    /\ access' = f
    /\ tab' = [u \in Tabs |->
                  IF u = t THEN Page("app")
                  ELSE IF tab[u].page \in {"booting", "login"}
                       THEN [tab[u] EXCEPT !.page = "app"] ELSE tab[u]]

-----------------------------------------------------------------------------
\* tryRefreshSession: one refresh at a time, none while logging out.  On
\* /login only a retry that is due refreshes.
StartRefresh(t, c) ==
    /\ call[c] = Idle
    /\ ~tab[t].refreshing
    /\ \/ tab[t].page \in {"app", "booting"}
       \/ tab[t].page = "login" /\ tab[t].retries > 0
    /\ call' = Send(t, c, "refresh", "find", Presented)
    /\ tab' = [tab EXCEPT ![t].refreshing = TRUE]
    /\ UNCHANGED <<server, cookie, stored, access, upsets, overdue>>

\* The headers of an answer reach the cookie jar.
Deliver(c) ==
    /\ call[c].step = "answer"
    /\ Goto(c, "settle")
    /\ cookie' = CASE call[c].kind = "refresh" /\ KeepsCookies  -> call[c].new
                   [] call[c].kind = "logout" /\ call[c].clears -> 0
                   [] OTHER                                     -> cookie
    /\ UNCHANGED <<server, stored, access, tab, upsets, overdue>>

Settled(c) == [call EXCEPT ![c] = Idle]

\* performRefresh resumes with an answer that is not stale.
Refreshed(t, c) ==
    /\ call[c].result = "ok"
    /\ SetSession(t, call[c].new, FamilyOf(call[c].new), Settled(c))

\* Mutant: one retry too many.
RetriedOnceMore(t, c) ==
    /\ call[c].result = "lost"
    /\ tab[t].retries <= Retries
    /\ call' = Settled(c)
    /\ tab' = [tab EXCEPT ![t].retries = @ + 1, ![t].refreshing = FALSE,
                          ![t].page = IF @ = "booting" THEN "login" ELSE @]
    /\ UNCHANGED <<stored, access>>

\* A network error keeps the session and arms another refresh.
Retried(t, c) ==
    /\ call[c].result = "lost"
    /\ tab[t].retries < Retries
    /\ call' = Settled(c)
    /\ tab' = [tab EXCEPT ![t].retries = @ + 1, ![t].refreshing = FALSE,
                          ![t].page = IF @ = "booting" THEN "login" ELSE @]
    /\ UNCHANGED <<stored, access>>

\* The API says no, or nothing for the last time.
Refused(t, c) ==
    /\ \/ call[c].result = "refused"
       \/ call[c].result = "lost" /\ tab[t].retries = Retries
    /\ Clear(t, SignedOut(t), Settled(c))

\* An API request with an expired access token waits for the refresh, and
\* ends the session when it gets no token: whatever the reason, however many
\* retries are left.  A page that is leaving for /login still runs it.
WaitedInVain(t, c) ==
    /\ IF call[c].stale THEN tab[t].page \in {"leaving", "loading"}
                       ELSE call[c].result = "lost" /\ tab[t].page = "app"
    /\ Clear(t, SignedOut(t), Settled(c))

\* A stale answer is dropped, but the promise it settles is still forgotten,
\* whichever refresh it now stands for.
Dropped(t, c) ==
    /\ call' = Settled(c)
    /\ tab' = [tab EXCEPT ![t].refreshing = FALSE,
                          ![t].page = IF @ = "booting" THEN "login" ELSE @]
    /\ UNCHANGED <<stored, access>>

SettleRefresh(t, c) ==
    /\ call[c].step = "settle" /\ call[c].kind = "refresh" /\ call[c].tab = t
    /\ \/ call[c].stale /\ Dropped(t, c)
       \/ ~call[c].stale /\ (Refreshed(t, c) \/ Retried(t, c) \/ Refused(t, c))
       \/ WaitedInVain(t, c)
    /\ UNCHANGED <<server, cookie, upsets, overdue>>

\* logoutSession: the local session goes first, the API is told after it.
BeginLogout(t, c) ==
    LET token == IF stored # 0 THEN stored ELSE cookie IN
    /\ tab[t].page = "app"
    /\ \/ call[c] = Idle /\ Upset
       \/ /\ UNCHANGED upsets
          /\ call[c].step = "settle" /\ call[c].kind = "password"
          /\ call[c].tab = t /\ call[c].result = "ok"
    /\ Clear(t, Page("leaving"),
             [Send(t, c, "logout", "logout", token) EXCEPT
                 ![c].clears = token = 0 \/ cookie = 0 \/ token = cookie])
    /\ UNCHANGED <<server, cookie, overdue>>

\* The page goes to /login, whatever the API said.
SettleLogout(t, c) ==
    /\ call[c].step = "settle" /\ call[c].kind = "logout" /\ call[c].tab = t
    /\ call' = Settled(c)
    /\ tab' = [tab EXCEPT ![t].page = "loading"]
    /\ UNCHANGED <<server, cookie, stored, access, upsets, overdue>>

\* No script is left for the answer, or none that does anything with it.
SettleOther(c) ==
    /\ call[c].step = "settle"
    /\ \/ call[c].tab = "none"
       \/ \E t \in Tabs : /\ call[c].kind = "password" /\ call[c].tab = t
                        /\ (call[c].result # "ok" \/ tab[t].page # "app")
    /\ call' = Settled(c)
    /\ UNCHANGED <<server, browser>>

\* A page loads at /login: bootstrapSession takes the access token in
\* storage, or refreshes.
Load(t) ==
    /\ tab[t].page = "loading"
    /\ tab' = [tab EXCEPT ![t] = Page(IF access # "none" THEN "app" ELSE "booting")]
    /\ call' = Orphaned(call, t)
    /\ UNCHANGED <<server, cookie, stored, access, upsets, overdue>>

\* The login form: setCookies starts a family, establishTenantSession takes
\* it over.
Login(t, f) ==
    /\ tab[t].page = "login"
    /\ ~Started(f)
    /\ Store(f)
    /\ cookie' = IF KeepsCookies THEN Len(row') ELSE cookie
    /\ SetSession(t, Len(row'), f, Invalidated(call, {t}))
    /\ UNCHANGED <<grace, blocked, member, ended, upsets, overdue>>

\* A guarded request of the tab, with the access token in storage; a session
\* that is revoked ends in the browser.
ApiRefused(t) ==
    /\ tab[t].page = "app"
    /\ access # "none" /\ ~Accepts(access)
    /\ Clear(t, SignedOut(t), call)
    /\ UNCHANGED <<server, cookie, upsets, overdue>>

\* Settings: sign out the other sessions, change the password.
AskRevoke(t, c, kind) ==
    /\ tab[t].page = "app"
    /\ call[c] = Idle /\ Upset
    /\ access # "none" /\ Accepts(access)
    /\ call' = IF kind = "others" THEN Send(t, c, "others", "current", cookie)
                                  ELSE Send(t, c, "password", "rows", 0)
    /\ UNCHANGED <<server, cookie, stored, access, tab, overdue>>

-----------------------------------------------------------------------------
\* Time, and the rest of the world.

\* A token of the browser, or on its way to or from it.
Held(n) ==
    \/ n \in {cookie, stored}
    \/ \E c \in Calls : call[c].kind = "refresh" /\ n \in {call[c].token, call[c].new}

\* REFRESH_ROTATION_GRACE_MS after its revocation.  A token that is not held
\* is never looked up again: its grace does not matter.
GraceEnds(n) ==
    /\ n \in grace
    /\ Held(n)
    /\ grace' = grace \ {n}
    /\ overdue' = overdue \cup {FamilyOf(n)}
    /\ UNCHANGED <<row, blocked, member, ended, call, cookie, stored, access, tab, upsets>>

\* The keys in Redis expire with the access tokens they were set against.
BlockEnds ==
    /\ blocked # {}
    /\ blocked' = {}
    /\ UNCHANGED <<row, grace, member, ended, call, browser>>

\* An administrator ends the membership.
Deactivate ==
    /\ member /\ Upset
    /\ member' = FALSE
    /\ UNCHANGED <<row, grace, blocked, ended, call, cookie, stored, access, tab, overdue>>

\* Another device of the user signs in, and revokes a session from its list.
ElsewhereLogin(f) ==
    /\ ~Started(f)
    /\ Store(f)
    /\ UNCHANGED <<grace, blocked, member, ended, call, browser>>

ElsewhereRevoke(c, f) ==
    /\ call[c] = Idle /\ Upset
    /\ Started(f)
    /\ call' = [call EXCEPT ![c] = [Idle EXCEPT !.kind = "others", !.step = "rows",
                                                !.families = {f}]]
    /\ UNCHANGED <<server, cookie, stored, access, tab, overdue>>

-----------------------------------------------------------------------------
\* The browser is signed in, in every tab.
Init ==
    \E f \in Families :
        /\ row = <<[family |-> f, revoked |-> FALSE]>>
        /\ grace = {}
        /\ blocked = {}
        /\ member = TRUE
        /\ ended = {}
        /\ call = [c \in Calls |-> Idle]
        /\ cookie = IF KeepsCookies THEN 1 ELSE 0
        /\ stored = 1
        /\ access = f
        /\ tab = [t \in Tabs |-> Page("app")]
        /\ upsets = 0
        /\ overdue = {}

TabStep(t) ==
    \/ \E c \in Calls :
          \/ StartRefresh(t, c) \/ SettleRefresh(t, c)
          \/ BeginLogout(t, c) \/ SettleLogout(t, c)
          \/ \E kind \in {"others", "password"} : AskRevoke(t, c, kind)
    \/ \E f \in Families : Login(t, f)
    \/ Load(t) \/ ApiRefused(t)

CallStep(c) ==
    \/ ServerStep(c) /\ UNCHANGED browser
    \/ Lose(c) /\ Upset /\ UNCHANGED <<cookie, stored, access, tab, overdue>>
    \/ Deliver(c) \/ SettleOther(c)

Next ==
    \/ \E t \in Tabs : TabStep(t)
    \/ \E c \in Calls : CallStep(c)
    \/ \E n \in 1 .. Len(row) : GraceEnds(n)
    \/ BlockEnds \/ Deactivate
    \/ \E f \in Families : ElsewhereLogin(f) \/ \E c \in Calls : ElsewhereRevoke(c, f)

Spec == Init /\ [][Next]_vars

-----------------------------------------------------------------------------
\* Type correctness: no token beyond the rows, no retry beyond the limit.
TypeOK ==
    /\ row \in Seq(Row) /\ Len(row) <= MaxTokens
    /\ grace \subseteq 1 .. Len(row)
    /\ blocked \subseteq Families \cup {"user"}
    /\ member \in BOOLEAN
    /\ ended \subseteq Families
    /\ call \in [Calls -> Call]
    /\ {cookie, stored} \subseteq 0 .. Len(row)
    /\ access \in Families \cup {"none"}
    /\ tab \in [Tabs -> Tab]
    /\ upsets \in 0 .. MaxUpsets
    /\ overdue \subseteq Families

\* A family that nobody ended, and of which the browser kept no token past
\* its grace, has a token that still refreshes, until it expires: however the refreshes of
\* several tabs interleave with each other, with lost answers and with
\* revocations, they do not consume the last one (rotateRefreshToken).
HeirKept ==
    \A f \in Families : Started(f) => Active(f) # {} \/ f \in ended \cup overdue

\* Reuse is detected for a cause: a family is revoked because of a token
\* presented twice only when its session had been ended, or a token was
\* presented after its grace.  Tabs that present one token at once never
\* trip it.
RefusedForCause ==
    \A c \in Calls : call[c].step = "reuse" => FamilyOf(call[c].token) \in ended \cup overdue

\* A page loses its session only for a cause: some session was ended or a
\* token was too old, the membership or the password is gone, a tab logs out,
\* or the answer to a refresh was lost, or dropped.  That another tab refreshes
\* at the same time, or a device signs in, is none.  (For a browser that keeps
\* the API's cookies; one that is left alone until its refresh token expires is
\* signed out too, and is not modelled.)
SignedOutForCause ==
    [][\A t \in Tabs : tab[t].page = "app" /\ tab'[t].page # "app" =>
          \/ ended \cup overdue # {}
          \/ ~member \/ "user" \in blocked
          \/ \E u \in Tabs : tab[u].page = "app" /\ tab'[u].page = "leaving"
          \/ \E c \in Calls : /\ call[c].kind = "refresh" /\ call'[c] = Idle
                             /\ (call[c].result = "lost" \/ call[c].stale)]_vars

\* The access token of a session nobody ended is accepted: who was signed out
\* can log in again.  MULTI_DEVICE_SESSIONS.md:72 promises new tokens, and its
\* operational errors say "Log in again" to a token that is not accepted.
LogInAgainHelps ==
    access # "none" /\ access \notin ended => Accepts(access)
=============================================================================
