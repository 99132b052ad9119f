-------------------------- MODULE ReportScreen_proofs --------------------------
(***************************************************************************)
(* Proofs about ReportScreen, for any users in any roles, any number of    *)
(* pages and of requests under way.                                        *)
(***************************************************************************)
EXTENDS ReportScreen, TLAPS

(***************************************************************************)
(* The inductive invariant.                                                *)
(***************************************************************************)
CallStates == [kind : {"none", "token", "me", "report"}, pc : {"free", "sent", "refreshing"},
               who : Owner, refr : Owner, retried : BOOLEAN, query : Queries,
               overtaken : BOOLEAN]

SignedIn == screen # "login" => me # None

\* The two tokens always come together; they are of the user signed in, or of
\* the one whose name has been asked for.
TokensOfOne ==
  /\ refresh = access
  /\ ~mixed => /\ me # None => access \in {me, None}
               /\ \A c \in Calls : calls[c].kind = "me" => access \in {calls[c].who, None}

\* The one report under way that no later fetch has overtaken.
Current(c) == calls[c].kind = "report" /\ ~calls[c].overtaken

\* Whether the table on the screen is the user's to read.
Reading == screen = "reports" /\ ~mixed /\ RoleOf[me] # "member"

\* The report under way is the one chosen, asked for by the user signed in.
CurrentIsChosen ==
  \A c \in Calls : Current(c) => /\ calls[c].query = reportState
                                 /\ Reading => calls[c].who \in {me, None}

TableIsCurrent ==
  Reading /\ table.kind = "rows" /\ (\A c \in Calls : ~Current(c))
    => table.query = reportState /\ table.head = reportState.scope /\ table.who = me

PInv == TypeOK /\ SignedIn /\ TokensOfOne /\ CurrentIsChosen /\ TableIsCurrent

-----------------------------------------------------------------------------
LEMMA Values ==
  /\ None \in Owner /\ Free \in CallStates /\ FirstQuery \in Queries
  /\ HiddenPager \in [shown : BOOLEAN, prev : BOOLEAN, next : BOOLEAN]
  /\ \A kind \in {"none", "overtaken"} :
       /\ NoRows(kind) \in [kind : {"none", "rows", "overtaken"}, query : Queries,
                            head : Scopes, who : Owner]
       /\ NoRows(kind).kind = kind
  /\ Free.kind = "none" /\ Free.overtaken = FALSE
BY DEF Owner, Free, CallStates, FirstQuery, Queries, HiddenPager, NoRows, Rows, Scopes

LEMMA CallTypes ==
  TypeOK => /\ calls \in [Calls -> CallStates]
            /\ \A c \in Calls : /\ calls[c] \in CallStates /\ calls[c].who \in Owner
                                /\ calls[c].refr \in Owner /\ calls[c].query \in Queries
            /\ reportState.page \in Nat \ {0} /\ reportState.scope \in Scopes
            /\ reportState = [scope |-> reportState.scope, page |-> reportState.page]
BY DEF TypeOK, CallStates, Queries

LEMMA InitPInv == Init => PInv
<1> SUFFICES ASSUME Init PROVE PInv
  OBVIOUS
<1>1. TypeOK
  BY Values DEF Init, TypeOK, CallStates
<1>2. SignedIn /\ TokensOfOne /\ CurrentIsChosen /\ TableIsCurrent
  BY Values DEF Init, SignedIn, TokensOfOne, CurrentIsChosen, TableIsCurrent, Current
<1> QED
  BY <1>1, <1>2 DEF PInv

\* A fetch overtakes every other and is asked for by the user signed in, so
\* that nothing is claimed of the table until it is answered.
LEMMA FetchPInv ==
  ASSUME PInv, NEW z \in Calls, NEW query \in Queries, fetchReport(z, query),
         reportState' = query, me # None,
         screen' \in {"login", "thread", "reports", "loading"},
         UNCHANGED <<access, refresh, me, pager, table, mixed>>
  PROVE  PInv'
<1> USE DEF PInv
<1>1. calls' = [d \in Calls |->
        IF d = z THEN Sent("report", access, query)
        ELSE IF calls[d].kind = "report" THEN [calls[d] EXCEPT !.overtaken = TRUE]
        ELSE calls[d]]
  BY DEF fetchReport
<1>2. access \in Owner
  BY DEF TypeOK
<1>3. /\ calls'[z] \in CallStates /\ calls'[z].kind = "report" /\ calls'[z].who = access
      /\ calls'[z].query = query /\ Current(z)'
  <2>1. calls'[z] = Sent("report", access, query)
    BY <1>1
  <2>2. "report" \in {"token", "me", "report"}
    OBVIOUS
  <2>3. /\ Sent("report", access, query) \in CallStates
        /\ Sent("report", access, query).kind = "report" /\ Sent("report", access, query).who = access
        /\ Sent("report", access, query).query = query
        /\ Sent("report", access, query).overtaken = FALSE
    BY <1>2, <2>2, Values DEF Sent, CallStates
  <2> QED
    BY <2>1, <2>3 DEF Current
<1>4. ASSUME NEW d \in Calls, d # z
      PROVE  /\ calls'[d] \in CallStates /\ calls'[d].kind = calls[d].kind
             /\ calls'[d].who = calls[d].who /\ ~Current(d)'
  <2>1. calls'[d] = IF calls[d].kind = "report" THEN [calls[d] EXCEPT !.overtaken = TRUE]
                    ELSE calls[d]
    BY <1>1, <1>4
  <2>2. calls[d] \in CallStates
    BY CallTypes
  <2>3. CASE calls[d].kind = "report"
    BY <2>1, <2>2, <2>3 DEF CallStates, Current
  <2>4. CASE calls[d].kind # "report"
    BY <2>1, <2>2, <2>4 DEF Current
  <2> QED
    BY <2>3, <2>4
<1>5. calls' \in [Calls -> CallStates]
  BY <1>1, <1>3, <1>4
<1>6. TypeOK'
  BY <1>5 DEF TypeOK, CallStates
<1>7. SignedIn'
  BY DEF SignedIn
<1>8. TokensOfOne'
  BY <1>3, <1>4 DEF TokensOfOne
<1>9. CurrentIsChosen'
  BY <1>3, <1>4 DEF CurrentIsChosen, Reading, TokensOfOne
<1>10. TableIsCurrent'
  BY <1>3 DEF TableIsCurrent
<1> QED
  BY <1>6, <1>7, <1>8, <1>9, <1>10

LEMMA ChoosePInv ==
  ASSUME PInv, NEW z \in Calls, NEW query \in Queries, Choose(z, query)
  PROVE  PInv'
<1>1. screen = "reports" /\ me # None
  BY DEF Choose, PInv, SignedIn
<1> QED
  BY <1>1, FetchPInv DEF Choose, session

LEMMA ClickPInv ==
  ASSUME PInv, NEW z \in Calls, Tab(z) \/ Apply(z) \/ Prev(z) \/ Next_page(z)
  PROVE  PInv'
<1>1. /\ reportState = [scope |-> reportState.scope, page |-> reportState.page]
      /\ reportState.page \in Nat \ {0} /\ reportState.scope \in Scopes
  BY CallTypes DEF PInv
<1>2. CASE Tab(z)
  <2>1. PICK s \in Scopes : Choose(z, [reportState EXCEPT !.scope = s, !.page = 1])
    BY <1>2 DEF Tab
  <2>2. reportState \in Queries /\ 1 \in Nat \ {0}
    BY DEF PInv, TypeOK
  <2>3. [reportState EXCEPT !.scope = s, !.page = 1] \in Queries
    BY <2>2 DEF Queries
  <2> QED
    BY <2>1, <2>2, <2>3, ChoosePInv
<1>3. CASE Apply(z)
  <2>1. [reportState EXCEPT !.page = 1] \in Queries
    BY <1>1 DEF Queries
  <2> QED
    BY <1>3, <2>1, ChoosePInv DEF Apply
<1>4. CASE Prev(z)
  <2>1. [reportState EXCEPT !.page = @ - 1] \in Queries
    BY <1>1, <1>4 DEF Prev, Queries
  <2> QED
    BY <1>4, <2>1, ChoosePInv DEF Prev
<1>5. CASE Next_page(z)
  <2>1. [reportState EXCEPT !.page = @ + 1] \in Queries
    BY <1>1 DEF Queries
  <2> QED
    BY <1>5, <2>1, ChoosePInv DEF Next_page
<1> QED
  BY <1>2, <1>3, <1>4, <1>5

LEMMA ShowReportsPInv ==
  ASSUME PInv, NEW z \in Calls, ShowReports(z)
  PROVE  PInv'
<1> USE DEF PInv, ShowReports, session
<1>1. CASE RoleOf[me] = "member"
  <2>1. TypeOK'
    BY <1>1, Values DEF TypeOK
  <2>2. ~Reading'
    BY <1>1 DEF Reading
  <2> QED
    BY <1>1, <2>1, <2>2 DEF SignedIn, TokensOfOne, CurrentIsChosen, TableIsCurrent, Current
<1>2. CASE RoleOf[me] # "member"
  <2>1. reportState \in Queries
    BY DEF TypeOK
  <2> QED
    BY <1>2, <2>1, FetchPInv
<1> QED
  BY <1>1, <1>2

LEMMA ShowThreadPInv == ASSUME PInv, ShowThread PROVE PInv'
BY DEF PInv, ShowThread, session, panel, TypeOK, SignedIn, TokensOfOne, CurrentIsChosen,
       TableIsCurrent, Current, Reading

\* A chain that is and will be of no report leaves the table alone.
LEMMA OtherKeepsTable ==
  ASSUME PInv, NEW z \in Calls, calls[z].kind # "report", calls'[z].kind # "report",
         \A d \in Calls \ {z} : calls'[d] = calls[d],
         UNCHANGED <<reportState, table>>, Reading' => Reading /\ UNCHANGED me
  PROVE  CurrentIsChosen' /\ TableIsCurrent'
<1> USE DEF PInv
<1>1. \A d \in Calls : Current(d)' <=> Current(d)
  BY DEF Current
<1>2. CurrentIsChosen'
  BY <1>1 DEF CurrentIsChosen, Current
<1>3. TableIsCurrent'
  BY <1>1 DEF TableIsCurrent
<1> QED
  BY <1>2, <1>3

LEMMA SubmitLoginPInv ==
  ASSUME PInv, NEW z \in Calls, SubmitLogin(z)
  PROVE  PInv'
<1> USE DEF PInv, session, panel
<1>1. PICK u \in Users : calls' = [calls EXCEPT ![z] = Sent("token", u, FirstQuery)]
  BY DEF SubmitLogin
<1>2. UNCHANGED <<session, screen, panel, mixed>> /\ screen = "login"
  BY DEF SubmitLogin
<1>3. Sent("token", u, FirstQuery) \in CallStates /\ Sent("token", u, FirstQuery).kind = "token"
  <2>1. "token" \in {"token", "me", "report"} /\ u \in Owner /\ FirstQuery \in Queries
    BY Values DEF Owner
  <2> QED
    BY <2>1, Values DEF Sent, CallStates
<1>4. calls' \in [Calls -> CallStates]
  BY <1>1, <1>3, CallTypes
<1>5. \A d \in Calls : calls'[d] = IF d = z THEN Sent("token", u, FirstQuery) ELSE calls[d]
  BY <1>1, CallTypes
<1>6. TypeOK'
  BY <1>2, <1>4 DEF TypeOK, CallStates
<1>7. SignedIn' /\ TokensOfOne'
  BY <1>2, <1>3, <1>5 DEF SignedIn, TokensOfOne
<1>8. CurrentIsChosen' /\ TableIsCurrent'
  BY <1>2, <1>3, <1>5 DEF CurrentIsChosen, TableIsCurrent, Current, Reading
<1> QED
  BY <1>6, <1>7, <1>8

LEMMA LoggedInPInv ==
  ASSUME PInv, NEW z \in Calls, LoggedIn(z)
  PROVE  PInv'
<1> USE DEF PInv, panel
<1> DEFINE u == calls[z].who
           new == Sent("me", u, FirstQuery)
<1>1. /\ calls[z].kind = "token" /\ access' = u /\ refresh' = u
      /\ calls' = [calls EXCEPT ![z] = new]
      /\ mixed' = SigningIn(z) /\ UNCHANGED <<me, screen, panel>>
  BY DEF LoggedIn
<1>2. u \in Owner /\ new \in CallStates /\ new.kind = "me" /\ new.who = u
  <2>1. "me" \in {"token", "me", "report"} /\ u \in Owner /\ FirstQuery \in Queries
    BY Values, CallTypes
  <2> QED
    BY <2>1, Values DEF Sent, CallStates
<1>3. calls' \in [Calls -> CallStates]
  BY <1>1, <1>2, CallTypes
<1>4. \A d \in Calls : calls'[d] = IF d = z THEN new ELSE calls[d]
  BY <1>1, CallTypes
<1>5. mixed' \in BOOLEAN
  BY <1>1 DEF SigningIn
<1>6. TypeOK'
  BY <1>1, <1>2, <1>3, <1>5 DEF TypeOK, CallStates
<1>7. SignedIn'
  BY <1>1 DEF SignedIn
<1>8. ~mixed' => me = None /\ \A d \in Calls \ {z} : calls[d].kind # "me"
  BY <1>1 DEF SigningIn
<1>9. TokensOfOne'
  BY <1>1, <1>2, <1>4, <1>8 DEF TokensOfOne
<1>10. ~Reading'
  BY <1>1, <1>8 DEF Reading, SignedIn
<1>11. CurrentIsChosen' /\ TableIsCurrent'
  BY <1>1, <1>2, <1>4, <1>10, OtherKeepsTable
<1> QED
  BY <1>6, <1>7, <1>9, <1>11

LEMMA GotMePInv ==
  ASSUME PInv, NEW z \in Calls, GotMe(z)
  PROVE  PInv'
<1> USE DEF PInv, panel
<1>1. /\ calls[z].kind = "me" /\ calls[z].who # None /\ me' = calls[z].who /\ screen' = "thread"
      /\ calls' = [calls EXCEPT ![z] = Free] /\ UNCHANGED <<access, refresh, panel, mixed>>
  BY DEF GotMe
<1>2. calls' \in [Calls -> CallStates]
  BY <1>1, Values, CallTypes
<1>3. \A d \in Calls : calls'[d] = IF d = z THEN Free ELSE calls[d]
  BY <1>1, CallTypes
<1>4. TypeOK'
  BY <1>1, <1>2, CallTypes DEF TypeOK, CallStates
<1>5. SignedIn'
  BY <1>1 DEF SignedIn
<1>6. TokensOfOne'
  BY <1>1, <1>3, Values DEF TokensOfOne
<1>7. CurrentIsChosen' /\ TableIsCurrent'
  BY <1>1, <1>3, Values, OtherKeepsTable DEF Reading
<1> QED
  BY <1>4, <1>5, <1>6, <1>7

LEMMA LogoutPInv == ASSUME PInv, ClickLogout PROVE PInv'
<1> USE DEF PInv, ClickLogout, logout, panel
<1>1. TypeOK'
  BY Values DEF TypeOK
<1> QED
  BY <1>1 DEF SignedIn, TokensOfOne, CurrentIsChosen, TableIsCurrent, Current, Reading

LEMMA GotReportPInv ==
  ASSUME PInv, NEW z \in Calls, GotReport(z)
  PROVE  PInv'
<1> USE DEF PInv, session
<1> DEFINE q == calls[z].query
<1>1. /\ calls[z].kind = "report" /\ Allowed(calls[z].who, q.scope)
      /\ table' = IF calls[z].overtaken \/ mixed THEN NoRows("overtaken")
                  ELSE Rows(q, reportState.scope, calls[z].who)
      /\ pager' = [shown |-> Pages > 1, prev |-> q.page > 1, next |-> q.page < Pages]
      /\ calls' = [calls EXCEPT ![z] = Free]
      /\ UNCHANGED <<access, refresh, me, screen, reportState, mixed>>
  BY DEF GotReport
<1>2. calls' \in [Calls -> CallStates]
  BY <1>1, Values, CallTypes
<1>3. \A d \in Calls : calls'[d] = IF d = z THEN Free ELSE calls[d]
  BY <1>1, CallTypes
<1>4. table' \in [kind : {"none", "rows", "overtaken"}, query : Queries, head : Scopes, who : Owner]
  <2>1. Rows(q, reportState.scope, calls[z].who) \in
          [kind : {"none", "rows", "overtaken"}, query : Queries, head : Scopes, who : Owner]
    BY CallTypes DEF Rows
  <2> QED
    BY <1>1, <2>1, Values
<1>5. pager' \in [shown : BOOLEAN, prev : BOOLEAN, next : BOOLEAN]
  BY <1>1
<1>6. TypeOK'
  BY <1>1, <1>2, <1>4, <1>5 DEF TypeOK, CallStates
<1>7. SignedIn' /\ TokensOfOne'
  BY <1>1, <1>3, Values DEF SignedIn, TokensOfOne
<1>8. CurrentIsChosen'
  BY <1>1, <1>3, Values DEF CurrentIsChosen, Current, Reading
<1>9. TableIsCurrent'
  <2>1. SUFFICES ASSUME Reading', table'.kind = "rows"
                 PROVE  table'.query = reportState /\ table'.head = reportState.scope /\ table'.who = me
    BY <1>1 DEF TableIsCurrent
  <2>2. ~calls[z].overtaken /\ ~mixed
    BY <1>1, <2>1, Values
  <2>3. q = reportState /\ calls[z].who = me
    BY <1>1, <2>1, <2>2 DEF CurrentIsChosen, Current, Reading, Allowed
  <2> QED
    BY <1>1, <2>2, <2>3 DEF Rows
<1> QED
  BY <1>6, <1>7, <1>8, <1>9

\* The end of a chain by an error; where the session ends with it, the login
\* screen is shown.
LEMMA ThrowPInv ==
  ASSUME PInv, NEW z \in Calls, Throw(z),
         UNCHANGED <<access, refresh, me, screen>> \/ logout
  PROVE  PInv'
<1> USE DEF PInv
<1>1. /\ calls' = [calls EXCEPT ![z] = Free] /\ UNCHANGED <<reportState, mixed>>
      /\ IF calls[z].kind = "report" THEN table' = NoRows("none") /\ pager' = HiddenPager
         ELSE UNCHANGED <<table, pager>>
  BY DEF Throw
<1>2. calls' \in [Calls -> CallStates]
  BY <1>1, Values, CallTypes
<1>3. \A d \in Calls : calls'[d] = IF d = z THEN Free ELSE calls[d]
  BY <1>1, CallTypes
<1>4. TypeOK'
  <2>1. /\ access' \in Owner /\ refresh' \in Owner /\ me' \in Owner
        /\ screen' \in {"login", "thread", "reports", "loading"}
    BY Values DEF TypeOK, logout
  <2>2. /\ table' \in [kind : {"none", "rows", "overtaken"}, query : Queries, head : Scopes, who : Owner]
        /\ pager' \in [shown : BOOLEAN, prev : BOOLEAN, next : BOOLEAN]
    BY <1>1, Values DEF TypeOK
  <2> QED
    BY <1>1, <1>2, <2>1, <2>2 DEF TypeOK, CallStates
<1>5. SignedIn' /\ TokensOfOne'
  BY <1>1, <1>3, Values DEF SignedIn, TokensOfOne, logout
<1>6. Reading' => Reading /\ UNCHANGED me
  BY <1>1 DEF Reading, logout
<1>7. CASE calls[z].kind = "report"
  <2>1. CurrentIsChosen'
    BY <1>1, <1>3, <1>6, Values DEF CurrentIsChosen, Current
  <2>2. TableIsCurrent'
    BY <1>1, <1>7, Values DEF TableIsCurrent
  <2> QED
    BY <1>4, <1>5, <2>1, <2>2
<1>8. CASE calls[z].kind # "report"
  <2>1. CurrentIsChosen' /\ TableIsCurrent'
    BY <1>1, <1>3, <1>6, <1>8, Values, OtherKeepsTable
  <2> QED
    BY <1>4, <1>5, <2>1
<1> QED
  BY <1>7, <1>8

LEMMA UnauthorizedPInv ==
  ASSUME PInv, NEW z \in Calls, Unauthorized(z)
  PROVE  PInv'
<1> USE DEF PInv, session, panel
<1>1. UNCHANGED <<access, refresh, me, screen>>
  BY DEF Unauthorized
<1>2. CASE ~calls[z].retried /\ refresh # None
  <2>1. /\ calls' = [calls EXCEPT ![z].pc = "refreshing", ![z].refr = refresh]
        /\ UNCHANGED <<reportState, pager, table, mixed>>
    BY <1>2 DEF Unauthorized
  <2> DEFINE new == [calls[z] EXCEPT !.pc = "refreshing", !.refr = refresh]
  <2>2. /\ new \in CallStates /\ new.kind = calls[z].kind /\ new.who = calls[z].who
        /\ new.query = calls[z].query /\ new.overtaken = calls[z].overtaken
    <3>1. calls[z] \in CallStates /\ refresh \in Owner
      BY CallTypes DEF TypeOK
    <3> QED
      BY <3>1 DEF CallStates
  <2>3. \A d \in Calls : calls'[d] = IF d = z THEN new ELSE calls[d]
    BY <2>1, CallTypes
  <2>4. calls' \in [Calls -> CallStates]
    BY <2>1, <2>2, <2>3, CallTypes
  <2>5. TypeOK'
    BY <1>1, <2>1, <2>4 DEF TypeOK, CallStates
  <2>6. \A d \in Calls : /\ calls'[d].kind = calls[d].kind /\ calls'[d].who = calls[d].who
                         /\ calls'[d].query = calls[d].query
                         /\ calls'[d].overtaken = calls[d].overtaken
    BY <2>2, <2>3
  <2>7. SignedIn' /\ TokensOfOne'
    BY <1>1, <2>1, <2>6 DEF SignedIn, TokensOfOne
  <2>8. CurrentIsChosen' /\ TableIsCurrent'
    <3>1. \A d \in Calls : Current(d)' <=> Current(d)
      BY <2>6 DEF Current
    <3>2. Reading' <=> Reading
      BY <1>1, <2>1 DEF Reading
    <3>3. CurrentIsChosen'
      BY <1>1, <2>1, <2>6, <3>1, <3>2 DEF CurrentIsChosen
    <3>4. TableIsCurrent'
      BY <1>1, <2>1, <3>1, <3>2 DEF TableIsCurrent
    <3> QED
      BY <3>3, <3>4
  <2> QED
    BY <2>5, <2>7, <2>8
<1>3. CASE ~(~calls[z].retried /\ refresh # None)
  BY <1>1, <1>3, ThrowPInv DEF Unauthorized
<1> QED
  BY <1>2, <1>3

\* A refresh that comes back to another session makes it mixed; one that comes
\* back to its own changes nothing of it.
LEMMA RefreshedPInv ==
  ASSUME PInv, NEW z \in Calls, Refreshed(z)
  PROVE  PInv'
<1> USE DEF PInv, panel
<1> DEFINE u == calls[z].refr
           asked == IF calls[z].kind = "token" THEN calls[z].who ELSE u
           new == [calls[z] EXCEPT !.pc = "sent", !.retried = TRUE, !.refr = None, !.who = asked]
<1>1. /\ access' = u /\ refresh' = u /\ mixed' = (mixed \/ u # refresh)
      /\ calls' = [calls EXCEPT ![z].pc = "sent", ![z].retried = TRUE, ![z].refr = None,
                                ![z].who = IF calls[z].kind = "token" THEN @ ELSE u]
      /\ UNCHANGED <<me, screen, panel>>
  BY DEF Refreshed
<1>2. u \in Owner /\ asked \in Owner /\ calls[z] \in CallStates
  BY CallTypes
<1>3. /\ new \in CallStates /\ new.kind = calls[z].kind /\ new.who = asked
      /\ new.query = calls[z].query /\ new.overtaken = calls[z].overtaken
  BY <1>2, Values DEF CallStates
<1>4. \A d \in Calls : calls'[d] = IF d = z THEN new ELSE calls[d]
  BY <1>1, <1>2, CallTypes DEF CallStates
<1>5. calls' \in [Calls -> CallStates]
  BY <1>1, <1>3, <1>4, CallTypes
<1>6. mixed' \in BOOLEAN
  BY <1>1 DEF TypeOK
<1>7. TypeOK'
  BY <1>1, <1>2, <1>5, <1>6 DEF TypeOK, CallStates
<1>8. SignedIn'
  BY <1>1 DEF SignedIn
<1>9. ~mixed' => ~mixed /\ u = access
  BY <1>1 DEF TokensOfOne, TypeOK
<1>10. TokensOfOne'
  BY <1>1, <1>3, <1>4, <1>9 DEF TokensOfOne
<1>11. Reading' => Reading /\ me # None /\ u \in {me, None}
  BY <1>1, <1>9 DEF Reading, SignedIn, TokensOfOne
<1>12. \A d \in Calls : Current(d)' <=> Current(d)
  BY <1>3, <1>4 DEF Current
<1>13. CurrentIsChosen'
  <2> SUFFICES ASSUME NEW d \in Calls, Current(d)'
               PROVE  /\ calls'[d].query = reportState'
                      /\ Reading' => calls'[d].who \in {me', None}
    BY DEF CurrentIsChosen
  <2>1. Current(d) /\ calls'[d].query = calls[d].query
    BY <1>3, <1>4, <1>12
  <2>2. calls'[d].query = reportState'
    BY <1>1, <2>1 DEF CurrentIsChosen
  <2>3. ASSUME Reading' PROVE calls'[d].who \in {me', None}
    <3>1. calls[d].who \in {me, None} /\ u \in {me, None} /\ calls[d].kind = "report"
      BY <1>11, <2>1, <2>3 DEF CurrentIsChosen, Current
    <3>2. CASE d = z
      BY <1>1, <1>3, <1>4, <3>1, <3>2
    <3>3. CASE d # z
      BY <1>1, <1>4, <3>1, <3>3
    <3> QED
      BY <3>2, <3>3
  <2> QED
    BY <2>2, <2>3
<1>14. TableIsCurrent'
  BY <1>1, <1>11, <1>12 DEF TableIsCurrent
<1> QED
  BY <1>7, <1>8, <1>10, <1>13, <1>14

LEMMA ReloadPInv == ASSUME PInv, Reload PROVE PInv'
<1> USE DEF PInv, Reload, session
<1>1. TypeOK'
  BY Values DEF TypeOK, CallStates
<1>2. SignedIn' /\ TokensOfOne'
  BY Values DEF SignedIn, TokensOfOne
<1>3. CurrentIsChosen' /\ TableIsCurrent'
  BY Values DEF CurrentIsChosen, TableIsCurrent, Current
<1> QED
  BY <1>1, <1>2, <1>3

LEMMA NextPInv == PInv /\ [Next]_vars => PInv'
<1> SUFFICES ASSUME PInv, [Next]_vars PROVE PInv'
  OBVIOUS
<1>1. CASE UNCHANGED vars
  BY <1>1 DEF vars, session, panel, PInv, TypeOK, SignedIn, TokensOfOne, CurrentIsChosen,
              TableIsCurrent, Current, Reading
<1>2. ASSUME NEW c \in Calls, Fails(c) \/ RefreshFails(c) PROVE PInv'
  BY <1>2, ThrowPInv DEF Fails, RefreshFails, session
<1>3. CASE Next
  BY <1>2, <1>3, SubmitLoginPInv, ShowReportsPInv, ClickPInv, LoggedInPInv, GotMePInv,
     GotReportPInv, UnauthorizedPInv, RefreshedPInv, ShowThreadPInv, LogoutPInv, ReloadPInv
     DEF Next, Answer
<1> QED
  BY <1>1, <1>3

\* The inductive invariant holds in every reachable state.
THEOREM ReportScreenInvariant == Spec => []PInv
BY InitPInv, NextPInv, PTL DEF Spec

\* The types of the page's state: above all, no page 0 is ever asked for.
THEOREM ReportScreenTypes == Spec => []TypeOK
<1>1. PInv => TypeOK
  BY DEF PInv
<1> QED
  BY <1>1, ReportScreenInvariant, PTL

\* app.js tryRefresh, login, logout: only a refresh that outlived its session,
\* or two sign-ins at once, mix tokens and names.
THEOREM TokensAreOfTheUser == Spec => []OnlyOutdatedRefreshesMix
<1>1. PInv => OnlyOutdatedRefreshesMix
  BY DEF PInv, TokensOfOne, OnlyOutdatedRefreshesMix
<1> QED
  BY <1>1, ReportScreenInvariant, PTL

\* app.js fetchReport, renderReport: the table shows what tabs and pager say.
THEOREM TableIsTheChosenOne == Spec => []TableMatchesChoice
<1>1. PInv => TableMatchesChoice
  BY DEF PInv, TableIsCurrent, Current, Reading, TableMatchesChoice
<1> QED
  BY <1>1, ReportScreenInvariant, PTL
==============================================================================
