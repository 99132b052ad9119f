-------------------------------- MODULE Reports --------------------------------
(***************************************************************************)
(* Who may read what, and the two reports over the summaries: the clients  *)
(* of a firm for its admins, and all firms for superusers.                 *)
(*                                                                         *)
(* One account reads a report page by page while refreshes go on.  Every   *)
(* page is a request of its own that aggregates the summaries anew, so     *)
(* rows may move from page to page during one reading.                     *)
(***************************************************************************)
EXTENDS Naturals, SequencesExt

CONSTANTS
  Firms, Clients, Threads,
  ClientFirm,     \* [Clients -> Firms]
  ThreadClient,   \* [Threads -> Clients]
  NoFirm,         \* the firm_id of an account that has none
  Sessions,       \* the accounts that may be signed in
  MaxOverlap,     \* bound on the refreshes about to commit
  MaxTime,        \* bound on the stamps of the clocks
  Length,         \* [Threads -> Nat]: the messages of each thread
  Sinces, Untils, \* what ?since= and ?until= may ask; 0 and MaxTime: not given
  page_size

Roles == {"member", "admin", "superuser"}
Accounts == [role : Roles, is_superuser : BOOLEAN, firm_id : Firms \cup {NoFirm}]

ASSUME FirmAssumption == NoFirm \notin Firms
ASSUME ClientAssumption == ClientFirm \in [Clients -> Firms]
ASSUME ThreadAssumption == ThreadClient \in [Threads -> Clients]
ASSUME SessionAssumption == Sessions \subseteq Accounts
ASSUME FiniteAssumption == IsFiniteSet(Threads)
ASSUME LengthAssumption == Length \in [Threads -> Nat]
ASSUME BoundAssumption ==
  /\ {MaxOverlap, MaxTime, page_size} \subseteq Nat \ {0}
  /\ Sinces \cup Untils \subseteq 0..MaxTime

VARIABLES
  account,   \* the Accountant of the session
  stamped,   \* what the refreshes under way will write
  summary,   \* [Threads -> [at, emails]]: the EmailSummary rows; at = 0: none
  reading    \* the report being read

vars == <<account, stamped, summary, reading>>

Queries == [scope : {"firm", "global"}, since : Sinces, until : Untils]

\* keys: the rows shown so far; touched: the threads refreshed since the first
\* page; setBack: one of those refreshes wrote an earlier date (history).
NotReading == [phase |-> "none", query |-> [scope |-> "firm", since |-> 0, until |-> MaxTime],
               page |-> 0, keys |-> <<>>, touched |-> {}, setBack |-> FALSE]

Init ==
  /\ account \in Sessions
  /\ stamped = {}
  /\ summary = [t \in Threads |-> [at |-> 0, emails |-> 0]]
  /\ reading = NotReading

-----------------------------------------------------------------------------
(***************************************************************************)
(* Access.  A thread, and its summary, carry the firm of the client.       *)
(***************************************************************************)
ThreadFirm(t) == ClientFirm[ThreadClient[t]]

is_role_superuser(a) == a.role = "superuser" \/ a.is_superuser
IsFirmAdmin(a) == is_role_superuser(a) \/ a.role = "admin"
IsInSameFirm(a, firm_id) == is_role_superuser(a) \/ firm_id = a.firm_id

list_for_firm(a) == {c \in Clients : is_role_superuser(a) \/ ClientFirm[c] = a.firm_id}

list_for_client(a, c) ==
  {t \in Threads : ThreadClient[t] = c /\ (is_role_superuser(a) \/ ThreadFirm(t) = a.firm_id)}

\* The rows a lookup by primary key finds: none, or one of firm `firm_id`.
get_for_firm_any(a, firm_id) == {firm_id}    \* variant: not scoped to the firm
get_for_firm(a, firm_id) == {f \in {firm_id} : is_role_superuser(a) \/ f = a.firm_id}

\* ClientDetailView and ThreadDetailView: scoped lookup, then object permission.
Detail(a, firm_id) ==
  IF get_for_firm(a, firm_id) = {} THEN 404 ELSE IF IsInSameFirm(a, firm_id) THEN 200 ELSE 403

\* The summary endpoints rely on the lookup alone.
check_thread_access(a, t) ==
  IF is_role_superuser(a) \/ ThreadFirm(t) = a.firm_id THEN 200 ELSE 404

-----------------------------------------------------------------------------
(***************************************************************************)
(* ReportRepository.                                                       *)
(***************************************************************************)
apply_date_filter(q) ==
  {t \in Threads : summary[t].at # 0 /\ q.since <= summary[t].at /\ summary[t].at <= q.until}

\* The group of one client, as firm_clients_with_summaries sums it up.
client_row(client, threads) ==
  [key |-> client, summaries |-> threads,
   summary_count |-> Cardinality(threads),
   total_emails_analyzed |-> MapThenSumSet(LAMBDA t : summary[t].emails, threads),
   last_summarized |-> Max({summary[t].at : t \in threads})]

firm_row_counts_threads(firm, threads) ==    \* variant: no distinct clients
  [key |-> firm, summaries |-> threads,
   summary_count |-> Cardinality(threads), client_count |-> Cardinality(threads),
   total_emails_analyzed |-> MapThenSumSet(LAMBDA t : summary[t].emails, threads),
   last_summarized |-> Max({summary[t].at : t \in threads})]

\* The group of one firm, as global_grouped_by_firm sums it up.
firm_row(firm, threads) ==
  [key |-> firm, summaries |-> threads,
   summary_count |-> Cardinality(threads),
   client_count |-> Cardinality({ThreadClient[t] : t \in threads}),
   total_emails_analyzed |-> MapThenSumSet(LAMBDA t : summary[t].emails, threads),
   last_summarized |-> Max({summary[t].at : t \in threads})]

\* rows.sort: a row comes behind those that `before` puts ahead of it.
Sorted(rows, before) ==
  [i \in 1..Cardinality(rows) |->
     CHOOSE r \in rows : Cardinality({s \in rows : <<s, r>> \in before}) = i - 1]

NewestFirst(rows) == {p \in rows \X rows : p[1].last_summarized > p[2].last_summarized}

\* The sort is stable: firms with equal counts stay in the order of the query,
\* which is that of their latest refresh.
LargestFirst(rows) ==
  {p \in rows \X rows :
     \/ p[1].summary_count > p[2].summary_count
     \/ /\ p[1].summary_count = p[2].summary_count
        /\ p[1].last_summarized > p[2].last_summarized}

OfFirm(firm_id, q) == {t \in apply_date_filter(q) : ThreadFirm(t) = firm_id}

ByClient(threads) ==
  {client_row(c, {t \in threads : ThreadClient[t] = c}) : c \in {ThreadClient[t] : t \in threads}}

ByFirm(threads) ==
  {firm_row(f, {t \in threads : ThreadFirm(t) = f}) : f \in {ThreadFirm(t) : t \in threads}}

firm_clients_oldest_first(firm_id, q) ==     \* variant: without reverse=True
  LET rows == ByClient(OfFirm(firm_id, q))
  IN  Sorted(rows, {p \in rows \X rows : p[1].last_summarized < p[2].last_summarized})

firm_clients_of_all(firm_id, q) ==           \* variant: without the firm filter
  LET rows == ByClient(apply_date_filter(q)) IN Sorted(rows, NewestFirst(rows))

firm_clients_with_summaries(firm_id, q) ==
  LET rows == ByClient(OfFirm(firm_id, q)) IN Sorted(rows, NewestFirst(rows))

global_grouped_by_firm(q) ==
  LET rows == ByFirm(apply_date_filter(q)) IN Sorted(rows, LargestFirst(rows))

\* The two views: who may ask, and the rows of the answer.
ReportAllowed(a, q) == IF q.scope = "firm" THEN IsFirmAdmin(a) ELSE is_role_superuser(a)
ReportRows(a, q) ==
  IF q.scope = "firm" THEN firm_clients_with_summaries(a.firm_id, q)
                      ELSE global_grouped_by_firm(q)

-----------------------------------------------------------------------------
(***************************************************************************)
(* Actions.                                                                *)
(***************************************************************************)
Taken == {s.at : s \in stamped} \cup {summary[t].at : t \in Threads}

Stamp_empty(t) ==                            \* variant: a thread without messages
  /\ Cardinality(stamped) < MaxOverlap
  /\ \E now \in 1..MaxTime \ Taken :
       stamped' = stamped \cup {[thread |-> t, at |-> now, emails |-> Length[t]]}
  /\ UNCHANGED <<account, summary, reading>>

\* SummaryService.refresh has taken last_refreshed_at and is about to write.
\* Refreshes overlap, and those of one thread too: the management command
\* takes no lock, and a worker's lock may lapse.  They run on several hosts,
\* whose clocks need not agree; that two name one microsecond is left out.
Stamp(t) ==
  /\ Length[t] > 0
  /\ Cardinality(stamped) < MaxOverlap
  /\ \E now \in 1..MaxTime \ Taken :
       stamped' = stamped \cup {[thread |-> t, at |-> now, emails |-> Length[t]]}
  /\ UNCHANGED <<account, summary, reading>>

\* SummaryRepository.upsert commits.
upsert(s) ==
  /\ s \in stamped
  /\ stamped' = stamped \ {s}
  /\ summary' = [summary EXCEPT ![s.thread] = [at |-> s.at, emails |-> s.emails]]
  /\ reading' = IF reading.phase = "none" THEN reading
                ELSE [reading EXCEPT !.touched = @ \cup {s.thread},
                                     !.setBack = @ \/ s.at < summary[s.thread].at]
  /\ UNCHANGED account

\* The process dies first, and the transaction is rolled back.
Rollback(s) ==
  /\ s \in stamped
  /\ stamped' = stamped \ {s}
  /\ UNCHANGED <<account, summary, reading>>

\* Page n of the report: 404 when there are no rows that far, page 1 excepted;
\* a next page is linked when rows remain.
ReadPage(r, n) ==
  LET rows == ReportRows(account, r.query)
      keys == [i \in 1..Len(rows) |-> rows[i].key]
      first == (n - 1) * page_size + 1
      last == Min({n * page_size, Len(rows)})
  IN  reading' =
        IF n > 1 /\ first > Len(rows) THEN [r EXCEPT !.phase = "not_found"]
        ELSE [r EXCEPT !.phase = IF last < Len(rows) THEN "pages" ELSE "done",
                       !.page = n, !.keys = @ \o SubSeq(keys, first, last)]

\* GET the first page.
FirstPage(q) ==
  /\ reading.phase # "pages"
  /\ LET r == [NotReading EXCEPT !.query = q]
     IN IF ReportAllowed(account, q) THEN ReadPage(r, 1)
        ELSE reading' = [r EXCEPT !.phase = "forbidden"]
  /\ UNCHANGED <<account, stamped, summary>>

\* GET the page linked as next.
NextPage ==
  /\ reading.phase = "pages"
  /\ ReadPage(reading, reading.page + 1)
  /\ UNCHANGED <<account, stamped, summary>>

Next ==
  \/ \E t \in Threads : Stamp(t)
  \/ \E s \in stamped : upsert(s) \/ Rollback(s)
  \/ \E q \in Queries : FirstPage(q)
  \/ NextPage

Spec == Init /\ [][Next]_vars

-----------------------------------------------------------------------------
(***************************************************************************)
(* Properties.                                                             *)
(***************************************************************************)

\* The type of every variable; a summary is never made of no messages.
TypeOK ==
  /\ account \in Sessions
  /\ stamped \subseteq [thread : Threads, at : 1..MaxTime, emails : Nat \ {0}]
  /\ \A t \in Threads :
       /\ summary[t] \in [at : 0..MaxTime, emails : Nat]
       /\ summary[t].at = 0 <=> summary[t].emails = 0
  /\ reading.phase \in {"none", "pages", "done", "not_found", "forbidden"}
  /\ reading.query \in Queries \cup {NotReading.query}
  /\ reading.page \in Nat
  /\ reading.keys \in Seq(IF reading.query.scope = "firm" THEN Clients ELSE Firms)
  /\ reading.touched \subseteq Threads /\ reading.setBack \in BOOLEAN

\* What an account finds in a list it may open, and nothing else; a resource
\* of another firm is "not found" everywhere and never "forbidden", although
\* lists, lookups, object permissions and the summary endpoints each have a
\* firm check of their own.
OneAnswerForAFirm ==
  \A c \in Clients :
    /\ Detail(account, ClientFirm[c]) = IF c \in list_for_firm(account) THEN 200 ELSE 404
    /\ \A t \in Threads : ThreadClient[t] = c =>
         /\ check_thread_access(account, t) = Detail(account, ThreadFirm(t))
         /\ Detail(account, ThreadFirm(t)) = 200 <=> t \in list_for_client(account, c)

\* Every thread a report names opens for the account that reads it, and the
\* undated reports leave none out that has a summary and is of their firms.
ReportsOpen ==
  \A q \in Queries : ReportAllowed(account, q) =>
    LET rows == ReportRows(account, q)
        named == UNION {rows[i].summaries : i \in DOMAIN rows}
    IN /\ \A t \in named : check_thread_access(account, t) = 200
       /\ q.since = 0 /\ q.until = MaxTime =>
            \A t \in Threads :
              summary[t].at # 0 /\ (q.scope = "global" \/ ThreadFirm(t) = account.firm_id)
                => t \in named

\* A firm's row in the global report sums up the rows of that firm's own
\* report for the same dates.
ReportsAgree ==
  \A q \in {p \in Queries : p.scope = "global"}, f \in Firms :
    LET own == ToSet(firm_clients_with_summaries(f, q))
        global == {r \in ToSet(global_grouped_by_firm(q)) : r.key = f}
    IN /\ Cardinality(global) = IF own = {} THEN 0 ELSE 1
       /\ \A r \in global :
            /\ r.summaries = UNION {c.summaries : c \in own}
            /\ r.summary_count = MapThenSumSet(LAMBDA c : c.summary_count, own)
            /\ r.client_count = Cardinality(own)
            /\ r.total_emails_analyzed =
                 MapThenSumSet(LAMBDA c : c.total_emails_analyzed, own)
            /\ r.last_summarized = Max({c.last_summarized : c \in own})

ThreadsUnder(q, key) ==
  {t \in Threads : key = IF q.scope = "firm" THEN ThreadClient[t] ELSE ThreadFirm(t)}

\* Whoever follows the links of a report without ?until= to its end never gets
\* a 404, and has seen every row but those that a refresh moved forward in the
\* meantime; with no refresh at all, each row exactly once.  A refresh that
\* sets the date of its thread back, because it overlaps another or its host's
\* clock is behind, is excepted.
PagesAddUp ==
  /\ reading.phase \in {"done", "not_found"}
  /\ reading.query.until = MaxTime /\ ~reading.setBack
  => /\ reading.phase = "done"
     /\ LET rows == ReportRows(account, reading.query)
            keys == [i \in 1..Len(rows) |-> rows[i].key]
        IN /\ \A k \in ToSet(keys) \ ToSet(reading.keys) :
                ThreadsUnder(reading.query, k) \cap reading.touched # {}
           /\ reading.touched = {} => reading.keys = keys
==============================================================================
