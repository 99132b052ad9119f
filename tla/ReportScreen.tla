----------------------------- MODULE ReportScreen -----------------------------
(***************************************************************************)
(* The session and the report screen of static/app.js: signing in and out, *)
(* the fetch helper that refreshes the session after a 401, and the tabs,  *)
(* dates and pager above the report's table.                               *)
(*                                                                         *)
(* As in ThreadScreen, a handler is a chain of steps split at its awaits.  *)
(* Every chain reads and writes the same three entries of localStorage and *)
(* the same table, in the order in which answers come in.                  *)
(***************************************************************************)
EXTENDS Naturals

CONSTANTS
  Users,
  RoleOf,    \* [Users -> Roles]
  Pages,     \* pages the server has for a report
  Calls,     \* activations of api() that may overlap
  None       \* an absent entry of localStorage

Roles == {"member", "admin", "superuser"}
Scopes == {"firm", "global"}

ASSUME RoleAssumption == RoleOf \in [Users -> Roles]
ASSUME NoneAssumption == None \notin Users
ASSUME PagesAssumption == Pages \in Nat \ {0}

VARIABLES
  access,       \* ea.access: whose access token it is
  refresh,      \* ea.refresh: whose refresh token it is
  me,           \* ea.me: who the page says is signed in
  screen,       \* the hash, and so the section shown
  reportState,  \* scope and page the user has chosen
  pager,        \* whether the pager is shown, and its two buttons enabled
  table,        \* what the table shows
  calls,        \* [Calls -> ...]: the chains under way
  mixed         \* tokens and `me` may be of different users (history)

session == <<access, refresh, me>>
panel == <<reportState, pager, table>>
vars == <<session, screen, panel, calls, mixed>>

Owner == Users \cup {None}
\* The dates are left out: Apply and Clear change the query as a tab does.
Queries == [scope : Scopes, page : Nat \ {0}]
FirstQuery == [scope |-> "firm", page |-> 1]
HiddenPager == [shown |-> FALSE, prev |-> FALSE, next |-> FALSE]

\* Rows of the report `query`, fetched as `who`, under the headings of `head`.
Rows(query, head, who) == [kind |-> "rows", query |-> query, head |-> head, who |-> who]
\* kind: "none", be it empty or with an error in their place, or "overtaken":
\* rows that another fetch overtook or that a mixed session asked for, whose
\* content the model does not keep.
NoRows(kind) == [Rows(FirstQuery, "firm", None) EXCEPT !.kind = kind]

\* kind: which request; who: the user of the access token it carries, or, for
\* a sign-in, the user it names; refr: whose refresh token is being used.
Free == [kind |-> "none", pc |-> "free", who |-> None, refr |-> None,
         retried |-> FALSE, query |-> FirstQuery, overtaken |-> FALSE]
Sent(kind, who, query) ==
  [Free EXCEPT !.kind = kind, !.pc = "sent", !.who = who, !.query = query]

Init ==
  /\ access = None /\ refresh = None /\ me = None
  /\ screen = "login"
  /\ reportState = FirstQuery
  /\ pager = HiddenPager
  /\ table = NoRows("none")
  /\ calls = [c \in Calls |-> Free]
  /\ mixed = FALSE

-----------------------------------------------------------------------------
(***************************************************************************)
(* The report screen's clicks.  Each ends in fetchReport.                  *)
(***************************************************************************)
\* fetchReport(query) as chain c; what is under way is overtaken.
fetchReport(c, query) ==
  /\ calls[c].pc = "free"
  /\ calls' = [d \in Calls |->
       IF d = c THEN Sent("report", access, query)
       ELSE IF calls[d].kind = "report" THEN [calls[d] EXCEPT !.overtaken = TRUE]
       ELSE calls[d]]

Choose_no_fetch(c, query) ==        \* variant: Apply does not fetch
  /\ screen = "reports"
  /\ reportState' = query
  /\ IF query.page = 1 /\ query.scope = reportState.scope
     THEN calls[c].pc = "free" /\ UNCHANGED calls
     ELSE fetchReport(c, query)
  /\ UNCHANGED <<session, screen, pager, table, mixed>>

Choose(c, query) ==
  /\ screen = "reports"
  /\ reportState' = query
  /\ fetchReport(c, query)
  /\ UNCHANGED <<session, screen, pager, table, mixed>>

Tab(c) ==
  \E s \in Scopes :      \* a member may find a superuser's tab left open
    /\ screen = "reports"
    /\ s = "global" => RoleOf[me] # "admin"
    /\ Choose(c, [reportState EXCEPT !.scope = s, !.page = 1])

\* Apply and Clear.
Apply(c) == Choose(c, [reportState EXCEPT !.page = 1])

Prev_unchecked(c) ==                \* variant: without `page > 1`
  /\ pager.shown /\ pager.prev
  /\ Choose(c, [reportState EXCEPT !.page = IF @ = 0 THEN 0 ELSE @ - 1])

Prev(c) ==
  /\ pager.shown /\ pager.prev
  /\ reportState.page > 1
  /\ Choose(c, [reportState EXCEPT !.page = @ - 1])

Next_page(c) ==
  /\ pager.shown /\ pager.next
  /\ Choose(c, [reportState EXCEPT !.page = @ + 1])

\* onShowReports; where a member sees the notice, the table only hides.
ShowReports(c) ==
  /\ me # None /\ screen \in {"thread", "loading"}
  /\ screen' = "reports"
  /\ IF RoleOf[me] = "member"
       THEN /\ pager' = HiddenPager
            /\ UNCHANGED calls
       ELSE /\ fetchReport(c, reportState)
            /\ UNCHANGED pager
  /\ UNCHANGED <<session, reportState, table, mixed>>

ShowThread ==
  /\ me # None /\ screen = "reports"
  /\ screen' = "thread"
  /\ UNCHANGED <<session, panel, calls, mixed>>

-----------------------------------------------------------------------------
(***************************************************************************)
(* Signing in and out.                                                     *)
(***************************************************************************)
SubmitLogin(c) ==
  /\ screen = "login"
  /\ calls[c].pc = "free"
  /\ \E u \in Users : calls' = [calls EXCEPT ![c] = Sent("token", u, FirstQuery)]
  /\ UNCHANGED <<session, screen, panel, mixed>>

\* Another sign-in has stored its tokens already.
SigningIn(c) == me # None \/ \E d \in Calls \ {c} : calls[d].kind = "me"

LoggedIn_access_only(c) ==          \* variant: the refresh token is not stored
  /\ calls[c].kind = "token" /\ calls[c].pc = "sent"
  /\ access' = calls[c].who
  /\ calls' = [calls EXCEPT ![c] = Sent("me", access', FirstQuery)]
  /\ mixed' = SigningIn(c)
  /\ UNCHANGED <<refresh, me, screen, panel>>

\* POST token answers 200: both tokens are stored, then who they are of is
\* asked for.
LoggedIn(c) ==
  /\ calls[c].kind = "token" /\ calls[c].pc = "sent"
  /\ access' = calls[c].who
  /\ refresh' = calls[c].who
  /\ calls' = [calls EXCEPT ![c] = Sent("me", access', FirstQuery)]
  /\ mixed' = SigningIn(c)
  /\ UNCHANGED <<me, screen, panel>>

GotMe(c) ==
  /\ calls[c].kind = "me" /\ calls[c].pc = "sent" /\ calls[c].who # None
  /\ me' = calls[c].who
  /\ screen' = "thread"
  /\ calls' = [calls EXCEPT ![c] = Free]
  /\ UNCHANGED <<access, refresh, panel, mixed>>

logout ==
  /\ access' = None /\ refresh' = None /\ me' = None
  /\ screen' = "login"

ClickLogout ==
  /\ me # None /\ screen # "loading"
  /\ logout
  /\ UNCHANGED <<panel, calls, mixed>>

-----------------------------------------------------------------------------
(***************************************************************************)
(* api: the answers.                                                       *)
(***************************************************************************)
Allowed(who, scope) ==
  who # None /\ RoleOf[who] \in (IF scope = "firm" THEN {"admin", "superuser"}
                                                   ELSE {"superuser"})

\* renderReport: the headings are those of the scope chosen by now.
GotReport(c) ==
  /\ calls[c].kind = "report" /\ calls[c].pc = "sent"
  /\ LET q == calls[c].query
     IN /\ Allowed(calls[c].who, q.scope) /\ q.page <= Pages
        /\ table' = IF calls[c].overtaken \/ mixed THEN NoRows("overtaken")
                      ELSE Rows(q, reportState.scope, calls[c].who)
        /\ pager' = [shown |-> Pages > 1, prev |-> q.page > 1, next |-> q.page < Pages]
  /\ calls' = [calls EXCEPT ![c] = Free]
  /\ UNCHANGED <<session, screen, reportState, mixed>>

\* api throws: a report shows the error in place of rows and pager; a sign-in
\* shows it on the login screen.
Throw(c) ==
  /\ calls' = [calls EXCEPT ![c] = Free]
  /\ IF calls[c].kind = "report"
       THEN table' = NoRows("none") /\ pager' = HiddenPager
       ELSE UNCHANGED <<table, pager>>
  /\ UNCHANGED <<reportState, mixed>>

\* Any answer but 200 and 401, or none.
Fails(c) ==
  /\ calls[c].pc = "sent"
  /\ Throw(c)
  /\ UNCHANGED <<session, screen>>

Unauthorized_for_ever(c) ==         \* variant: _retried is not passed on
  /\ calls[c].pc = "sent"
  /\ IF refresh # None
       THEN /\ calls' = [calls EXCEPT ![c].pc = "refreshing", ![c].refr = refresh]
            /\ UNCHANGED <<panel, mixed>>
       ELSE Throw(c)
  /\ UNCHANGED <<session, screen>>

\* 401: a token that has expired or is missing, or a wrong password.
Unauthorized(c) ==
  /\ calls[c].pc = "sent"
  /\ IF ~calls[c].retried /\ refresh # None
       THEN /\ calls' = [calls EXCEPT ![c].pc = "refreshing", ![c].refr = refresh]
            /\ UNCHANGED <<panel, mixed>>
       ELSE Throw(c)
  /\ UNCHANGED <<session, screen>>

\* tryRefresh stores what it gets, whatever has become of the session, and
\* the request goes out again with it.
Refreshed(c) ==
  /\ calls[c].pc = "refreshing"
  /\ access' = calls[c].refr
  /\ refresh' = calls[c].refr
  /\ mixed' = (mixed \/ calls[c].refr # refresh)
  /\ calls' = [calls EXCEPT ![c].pc = "sent", ![c].retried = TRUE, ![c].refr = None,
                            ![c].who = IF calls[c].kind = "token" THEN @
                                       ELSE calls[c].refr]
  /\ UNCHANGED <<me, screen, panel>>

RefreshFails(c) ==
  /\ calls[c].pc = "refreshing"
  /\ logout
  /\ Throw(c)

\* The page is loaded anew: the chains are gone, localStorage and hash are not.
\* On the report screen the page's own script then starts with onShowReports.
Reload ==
  /\ reportState' = FirstQuery /\ table' = NoRows("none") /\ pager' = HiddenPager
  /\ screen' = IF me = None THEN "login" ELSE IF screen = "reports" THEN "loading" ELSE screen
  /\ calls' = [c \in Calls |-> Free]
  /\ UNCHANGED <<session, mixed>>

Answer(c) ==
  \/ LoggedIn(c) \/ GotMe(c) \/ GotReport(c) \/ Fails(c) \/ Unauthorized(c)
  \/ Refreshed(c) \/ RefreshFails(c)

Next ==
  \/ \E c \in Calls :
       \/ SubmitLogin(c) \/ ShowReports(c) \/ Tab(c) \/ Apply(c) \/ Prev(c)
       \/ Next_page(c) \/ Answer(c)
  \/ ShowThread \/ ClickLogout \/ Reload

Spec == Init /\ [][Next]_vars

\* Every request is answered or given up; nobody has to click.
FairSpec == Spec /\ \A c \in Calls : WF_vars(Answer(c))

-----------------------------------------------------------------------------
(***************************************************************************)
(* Properties.                                                             *)
(***************************************************************************)

\* The type of every variable: however fast Prev is clicked, no page 0.
TypeOK ==
  /\ access \in Owner /\ refresh \in Owner /\ me \in Owner
  /\ screen \in {"login", "thread", "reports", "loading"}
  /\ reportState \in Queries
  /\ mixed \in BOOLEAN
  /\ pager \in [shown : BOOLEAN, prev : BOOLEAN, next : BOOLEAN]
  /\ table \in [kind : {"none", "rows", "overtaken"}, query : Queries,
                head : Scopes, who : Owner]
  /\ calls \in [Calls -> [kind : {"none", "token", "me", "report"},
       pc : {"free", "sent", "refreshing"}, who : Owner, refr : Owner,
       retried : BOOLEAN, query : Queries, overtaken : BOOLEAN]]

\* Requests go out as the user the page names.  Only a refresh that outlived
\* its session, or two sign-ins at once, leave tokens of one user beside the
\* name of another.
OnlyOutdatedRefreshesMix ==
  me # None /\ ~mixed => access \in {me, None} /\ refresh = access

\* When no report is under way, the table shows what tabs and pager
\* say, under the headings of its scope, as the user signed in may see it;
\* only an answer that a later fetch overtook can leave anything else.
TableMatchesChoice ==
  /\ screen = "reports" /\ table.kind = "rows" /\ RoleOf[me] # "member"
  /\ ~mixed
  /\ \A c \in Calls : calls[c].kind # "report"
  => /\ table.query = reportState
     /\ table.head = reportState.scope
     /\ table.who = me

\* Every chain ends: a session that cannot be refreshed is not refreshed
\* again and again.
CallsEnd == \A c \in Calls : []<>(calls[c].pc = "free")
==============================================================================
