----------------------------- MODULE Reports_proofs -----------------------------
(***************************************************************************)
(* Proofs about Reports, for every set of firms, clients, threads and      *)
(* accounts and every page size: the firm checks agree; a report names     *)
(* what its reader may open and nothing else; reading its pages to the     *)
(* end, while refreshes commit, misses no row that was left alone; and the *)
(* two reports agree.                                                      *)
(***************************************************************************)
EXTENDS Reports, FunctionTheorems, FiniteSetTheorems, SequenceTheorems, TLAPS

\* Nothing that happens while an account is signed in changes the account.
LEMMA AccountStays == Spec => [](account \in Sessions)
<1>1. Init => account \in Sessions
  BY DEF Init
<1>2. account \in Sessions /\ [Next]_vars => (account \in Sessions)'
  BY DEF Next, vars, Stamp, upsert, Rollback, FirstPage, NextPage
<1> QED
  BY <1>1, <1>2, PTL DEF Spec

\* One account, one client: the lookup finds it exactly when the list shows it.
LEMMA DetailIsList ==
  ASSUME NEW a \in Accounts, NEW c \in Clients
  PROVE  Detail(a, ClientFirm[c]) = IF c \in list_for_firm(a) THEN 200 ELSE 404
<1>1. CASE is_role_superuser(a) \/ ClientFirm[c] = a.firm_id
  BY <1>1 DEF Detail, get_for_firm, IsInSameFirm, list_for_firm
<1>2. CASE ~(is_role_superuser(a) \/ ClientFirm[c] = a.firm_id)
  BY <1>2 DEF Detail, get_for_firm, list_for_firm
<1> QED
  BY <1>1, <1>2

\* Every account gets one answer about a firm's resources, wherever it asks:
\* lists, lookups with their object permission, and the summary endpoints.
THEOREM OneAnswer == Spec => []OneAnswerForAFirm
<1>1. account \in Sessions => OneAnswerForAFirm
  <2> SUFFICES ASSUME account \in Sessions, NEW c \in Clients
               PROVE  /\ Detail(account, ClientFirm[c]) =
                           IF c \in list_for_firm(account) THEN 200 ELSE 404
                      /\ \A t \in Threads : ThreadClient[t] = c =>
                           /\ check_thread_access(account, t) = Detail(account, ThreadFirm(t))
                           /\ Detail(account, ThreadFirm(t)) = 200
                                <=> t \in list_for_client(account, c)
    BY DEF OneAnswerForAFirm
  <2>1. Detail(account, ClientFirm[c]) = IF c \in list_for_firm(account) THEN 200 ELSE 404
    BY DetailIsList, SessionAssumption
  <2>2. ASSUME NEW t \in Threads, ThreadClient[t] = c
        PROVE  /\ check_thread_access(account, t) = Detail(account, ThreadFirm(t))
               /\ Detail(account, ThreadFirm(t)) = 200 <=> t \in list_for_client(account, c)
    BY <2>1, <2>2 DEF ThreadFirm, check_thread_access, list_for_client, list_for_firm
  <2> QED
    BY <2>1, <2>2
<1> QED
  BY <1>1, AccountStays, PTL

-----------------------------------------------------------------------------
(***************************************************************************)
(* The inductive invariant.  No two refreshes have one stamp, under way or *)
(* written.                                                                *)
(***************************************************************************)
Summaries == [at : 0..MaxTime, emails : Nat]
Stamps == [thread : Threads, at : 1..MaxTime, emails : Nat \ {0}]

Typed ==
  /\ account \in Sessions
  /\ stamped \subseteq Stamps
  /\ summary \in [Threads -> Summaries]

NoneOfNothing == \A t \in Threads : summary[t].at = 0 <=> summary[t].emails = 0

DistinctStamps ==
  /\ \A t, u \in Threads : summary[t].at = summary[u].at => t = u \/ summary[t].at = 0
  /\ \A s \in stamped, t \in Threads : summary[t].at # s.at
  /\ \A s, z \in stamped : s.at = z.at => s = z

IsReading(r) ==
  /\ r = [phase |-> r.phase, query |-> r.query, page |-> r.page, keys |-> r.keys,
          touched |-> r.touched, setBack |-> r.setBack]
  /\ r.phase \in {"none", "pages", "done", "not_found", "forbidden"}
  /\ r.query \in Queries \cup {NotReading.query}
  /\ r.page \in Nat
  /\ r.touched \subseteq Threads
  /\ r.setBack \in BOOLEAN

RInv == Typed /\ NoneOfNothing /\ DistinctStamps /\ IsReading(reading)

LEMMA RInvInit == Init => RInv
<1> SUFFICES ASSUME Init PROVE RInv
  OBVIOUS
<1> USE DEF Init
<1>1. MaxTime \in Nat
  BY BoundAssumption
<1>2. Typed
  BY <1>1 DEF Typed, Summaries
<1>3. NoneOfNothing /\ DistinctStamps
  BY <1>1 DEF NoneOfNothing, DistinctStamps
<1>4. IsReading(reading)
  BY DEF IsReading, NotReading
<1> QED
  BY <1>2, <1>3, <1>4 DEF RInv

LEMMA StampKeepsRInv ==
  ASSUME RInv, NEW t \in Threads, Stamp(t)
  PROVE  RInv'
<1> USE DEF RInv, Stamp
<1>1. PICK now \in 1..MaxTime \ Taken :
             stamped' = stamped \cup {[thread |-> t, at |-> now, emails |-> Length[t]]}
  OBVIOUS
<1> DEFINE s == [thread |-> t, at |-> now, emails |-> Length[t]]
<1>2. s \in Stamps /\ stamped' = stamped \cup {s}
  BY <1>1, LengthAssumption DEF Stamps
<1>3. /\ \A z \in stamped : z.at # s.at
      /\ \A u \in Threads : summary[u].at # s.at
  BY <1>1 DEF Taken
<1> HIDE DEF s
<1>4. Typed'
  BY <1>2 DEF Typed
<1>5. NoneOfNothing' /\ IsReading(reading')
  BY DEF NoneOfNothing, IsReading
<1>6. DistinctStamps'
  <2>1. \A z \in stamped', u \in Threads : summary'[u].at # z.at
    BY <1>2, <1>3 DEF DistinctStamps
  <2>2. \A z, y \in stamped' : z.at = y.at => z = y
    BY <1>2, <1>3 DEF DistinctStamps
  <2> QED
    BY <2>1, <2>2 DEF DistinctStamps
<1> QED
  BY <1>4, <1>5, <1>6

LEMMA UpsertKeepsRInv ==
  ASSUME RInv, NEW s \in stamped, upsert(s)
  PROVE  RInv'
<1> USE DEF RInv, upsert
<1> DEFINE new == [at |-> s.at, emails |-> s.emails]
<1>1. s \in Stamps /\ MaxTime \in Nat
  BY BoundAssumption DEF Typed
<1>2. /\ s.thread \in Threads /\ s.at \in 1..MaxTime /\ s.emails \in Nat \ {0}
      /\ new \in Summaries /\ new.at = s.at /\ new.emails = s.emails
  BY <1>1 DEF Stamps, Summaries
<1>3. \A t \in Threads : summary'[t] = IF t = s.thread THEN new ELSE summary[t]
  BY DEF Typed
<1> HIDE DEF new
<1>4. Typed'
  <2>1. summary' \in [Threads -> Summaries]
    BY <1>2 DEF Typed, new
  <2> QED
    BY <2>1 DEF Typed
<1>5. NoneOfNothing'
  BY <1>1, <1>2, <1>3 DEF NoneOfNothing
<1>6. DistinctStamps'
  <2>1. ASSUME NEW t \in Threads, NEW u \in Threads, summary'[t].at = summary'[u].at
        PROVE  t = u \/ summary'[t].at = 0
    BY <2>1, <1>2, <1>3 DEF DistinctStamps
  <2>2. ASSUME NEW z \in stamped', NEW u \in Threads
        PROVE  summary'[u].at # z.at
    BY <1>2, <1>3 DEF DistinctStamps
  <2>3. \A z, y \in stamped' : z.at = y.at => z = y
    BY DEF DistinctStamps
  <2> QED
    BY <2>1, <2>2, <2>3 DEF DistinctStamps
<1>7. IsReading(reading')
  <2>1. IsReading(reading) /\ (s.at < summary[s.thread].at) \in BOOLEAN
    OBVIOUS
  <2> QED
    BY <2>1, <1>2 DEF IsReading
<1> QED
  BY <1>4, <1>5, <1>6, <1>7

\* Every page keeps the type of the reading.
LEMMA ReadPageTyped ==
  ASSUME NEW r, IsReading(r), NEW n \in Nat, ReadPage(r, n)
  PROVE  IsReading(reading')
<1> DEFINE rows == ReportRows(account, r.query)
           first == (n - 1) * page_size + 1
           last == Min({n * page_size, Len(rows)})
           more == r.keys \o SubSeq([i \in 1..Len(rows) |-> rows[i].key], first, last)
<1>1. \/ reading' = [r EXCEPT !.phase = "not_found"]
      \/ reading' = [r EXCEPT !.phase = "pages", !.page = n, !.keys = more]
      \/ reading' = [r EXCEPT !.phase = "done", !.page = n, !.keys = more]
  BY DEF ReadPage
<1> HIDE DEF more
<1> QED
  BY <1>1 DEF IsReading

\* What the first page is read into.
Fresh(q) ==
  [phase |-> "none", query |-> q, page |-> 0, keys |-> <<>>, touched |-> {}, setBack |-> FALSE]

LEMMA FreshReading ==
  ASSUME NEW q \in Queries
  PROVE  /\ [NotReading EXCEPT !.query = q] = Fresh(q)
         /\ IsReading(Fresh(q)) /\ IsReading([Fresh(q) EXCEPT !.phase = "forbidden"])
<1>1. ASSUME NEW o, NEW r, r = Fresh(o)
      PROVE  [r EXCEPT !.query = q] = Fresh(q)
  BY <1>1 DEF Fresh
<1>2. \E o : NotReading = Fresh(o)
  BY DEF NotReading, Fresh
<1>3. IsReading(Fresh(q))
  BY DEF IsReading, Fresh
<1>4. ASSUME NEW r, IsReading(r)
      PROVE  IsReading([r EXCEPT !.phase = "forbidden"])
  BY <1>4 DEF IsReading
<1> QED
  BY <1>1, <1>2, <1>3, <1>4

LEMMA PageKeepsRInv ==
  ASSUME RInv, NextPage \/ \E q \in Queries : FirstPage(q)
  PROVE  RInv'
<1>1. UNCHANGED <<account, stamped, summary>>
  BY DEF NextPage, FirstPage
<1>2. (Typed /\ NoneOfNothing /\ DistinctStamps)'
  BY <1>1 DEF RInv, Typed, NoneOfNothing, DistinctStamps
<1>3. IsReading(reading')
  <2>1. CASE NextPage
    <3>1. IsReading(reading) /\ reading.page + 1 \in Nat
      BY DEF RInv, IsReading
    <3> QED
      BY <2>1, <3>1, ReadPageTyped DEF NextPage
  <2>2. ASSUME NEW q \in Queries, FirstPage(q)
        PROVE  IsReading(reading')
    <3>1. ReadPage(Fresh(q), 1) \/ reading' = [Fresh(q) EXCEPT !.phase = "forbidden"]
      BY <2>2, FreshReading DEF FirstPage
    <3> QED
      BY <3>1, FreshReading, ReadPageTyped
  <2> QED
    BY <2>1, <2>2
<1> QED
  BY <1>2, <1>3 DEF RInv

LEMMA ReportsInvariant == Spec => []RInv
<1>1. RInv /\ [Next]_vars => RInv'
  <2> SUFFICES ASSUME RInv, [Next]_vars PROVE RInv'
    OBVIOUS
  <2>1. CASE UNCHANGED vars
    BY <2>1 DEF vars, RInv, Typed, NoneOfNothing, DistinctStamps, IsReading
  <2>2. ASSUME NEW t \in Threads, Stamp(t) PROVE RInv'
    BY <2>2, StampKeepsRInv
  <2>3. ASSUME NEW s \in stamped, upsert(s) PROVE RInv'
    BY <2>3, UpsertKeepsRInv
  <2>4. ASSUME NEW s \in stamped, Rollback(s) PROVE RInv'
    BY <2>4 DEF Rollback, RInv, Typed, NoneOfNothing, DistinctStamps, IsReading
  <2>5. ASSUME NextPage \/ \E q \in Queries : FirstPage(q) PROVE RInv'
    BY <2>5, PageKeepsRInv
  <2> QED
    BY <2>1, <2>2, <2>3, <2>4, <2>5 DEF Next
<1> QED
  BY <1>1, RInvInit, PTL DEF Spec

-----------------------------------------------------------------------------
(***************************************************************************)
(* Sorting.  Under a strict total order every row has a place of its own,  *)
(* one behind the rows ahead of it, and `Sorted` puts it there.            *)
(***************************************************************************)
Ahead(rows, before, r) == {s \in rows : <<s, r>> \in before}
Place(rows, before, r) == Cardinality(Ahead(rows, before, r)) + 1

TotalOrder(rows, before) ==
  /\ \A r \in rows : <<r, r>> \notin before
  /\ \A r, s, z \in rows : <<r, s>> \in before /\ <<s, z>> \in before => <<r, z>> \in before
  /\ \A r, s \in rows : r # s => <<r, s>> \in before \/ <<s, r>> \in before

LEMMA SortedIsInPlace ==
  ASSUME NEW rows, IsFiniteSet(rows), NEW before, TotalOrder(rows, before)
  PROVE  /\ Cardinality(rows) \in Nat
         /\ DOMAIN Sorted(rows, before) = 1..Cardinality(rows)
         /\ Len(Sorted(rows, before)) = Cardinality(rows)
         /\ \A i \in 1..Cardinality(rows) :
              /\ Sorted(rows, before)[i] \in rows
              /\ Place(rows, before, Sorted(rows, before)[i]) = i
         /\ \A r \in rows :
              /\ Place(rows, before, r) \in 1..Cardinality(rows)
              /\ Sorted(rows, before)[Place(rows, before, r)] = r
<1> DEFINE n == Cardinality(rows)
           A(r) == Ahead(rows, before, r)
           place == [r \in rows |-> Place(rows, before, r)]
<1>1. n \in Nat
  BY FS_CardinalityType
<1>2. ASSUME NEW r \in rows
      PROVE  IsFiniteSet(A(r)) /\ Cardinality(A(r)) \in Nat /\ Cardinality(A(r)) <= n - 1
  <2>1. A(r) \in SUBSET (rows \ {r})
    BY DEF Ahead, TotalOrder
  <2>2. IsFiniteSet(rows \ {r}) /\ Cardinality(rows \ {r}) = n - 1
    BY FS_RemoveElement
  <2> HIDE DEF A, n
  <2> QED
    BY <2>1, <2>2, FS_Subset, FS_CardinalityType
<1>3. ASSUME NEW r \in rows, NEW s \in rows, <<r, s>> \in before
      PROVE  Cardinality(A(r)) < Cardinality(A(s))
  <2>1. A(r) \cup {r} \in SUBSET A(s) /\ r \notin A(r)
    BY <1>3 DEF Ahead, TotalOrder
  <2>2. Cardinality(A(r) \cup {r}) = Cardinality(A(r)) + 1
    BY <2>1, <1>2, FS_AddElement
  <2>3. Cardinality(A(r) \cup {r}) <= Cardinality(A(s))
    BY <2>1, <1>2, FS_Subset
  <2> HIDE DEF A
  <2> QED
    BY <2>2, <2>3, <1>2
<1>4. \A r \in rows : place[r] = Cardinality(A(r)) + 1
  BY DEF Place
<1>5. place \in [rows -> 1..n]
  <2>1. \A r \in rows : Cardinality(A(r)) + 1 \in 1..n
    <3> HIDE DEF A, n
    <3> QED
      BY <1>1, <1>2
  <2> QED
    BY <2>1 DEF Place
<1>6. ASSUME NEW r \in rows, NEW s \in rows, place[r] = place[s]
      PROVE  r = s
  <2>1. /\ Cardinality(A(r)) \in Nat /\ Cardinality(A(s)) \in Nat
        /\ Cardinality(A(r)) + 1 = Cardinality(A(s)) + 1
    BY <1>2, <1>4, <1>6
  <2>2. <<r, s>> \notin before /\ <<s, r>> \notin before
    <3> HIDE DEF A
    <3> QED
      BY <2>1, <1>3
  <2> QED
    BY <2>2 DEF TotalOrder
<1>7. place \in Surjection(rows, 1..n)
  <2>1. place \in Injection(rows, 1..n)
    <3> HIDE DEF place, n
    <3> QED
      BY <1>5, <1>6, Fun_IsInj
  <2>2. IsFiniteSet(1..n) /\ Cardinality(1..n) = n
    <3> HIDE DEF n
    <3> QED
      BY <1>1, FS_Interval
  <2>3. Cardinality(rows) = Cardinality(1..n)
    BY <2>2
  <2> HIDE DEF place, n
  <2> QED
    BY <2>1, <2>2, <2>3, FS_Injection
<1>8. ASSUME NEW i \in 1..n
      PROVE  \E r \in rows : place[r] = i
  <2> HIDE DEF place, n
  <2> QED
    BY <1>7 DEF Surjection
<1>9. ASSUME NEW i \in 1..n
      PROVE  /\ Sorted(rows, before)[i] \in rows
             /\ place[Sorted(rows, before)[i]] = i
  <2> DEFINE r == CHOOSE r \in rows : Cardinality(A(r)) = i - 1
  <2>1. Sorted(rows, before)[i] = r
    BY DEF Sorted, Ahead
  <2>2. \E s \in rows : Cardinality(A(s)) = i - 1
    <3> HIDE DEF A, place
    <3> QED
      BY <1>1, <1>2, <1>4, <1>8
  <2>3. r \in rows /\ Cardinality(A(r)) = i - 1
    <3> HIDE DEF A
    <3> QED
      BY <2>2
  <2> HIDE DEF r, A, place
  <2> QED
    BY <2>1, <2>3, <1>1, <1>4
<1>10. DOMAIN Sorted(rows, before) = 1..n /\ Len(Sorted(rows, before)) = n
  BY <1>1 DEF Sorted
<1>11. ASSUME NEW r \in rows
       PROVE  place[r] \in 1..n /\ Sorted(rows, before)[place[r]] = r
  <2> HIDE DEF place, n
  <2> QED
    BY <1>5, <1>6, <1>9
<1> QED
  BY <1>1, <1>9, <1>10, <1>11

-----------------------------------------------------------------------------
(***************************************************************************)
(* The rows of a report.  Both reports group the threads asked for by a    *)
(* key of theirs; distinct stamps leave no two rows with one last refresh, *)
(* so that each report has exactly one order.                              *)
(***************************************************************************)
Grouping(q) ==
  IF q.scope = "firm" THEN ThreadClient ELSE [t \in Threads |-> ThreadFirm(t)]
Asked(a, q) == IF q.scope = "firm" THEN OfFirm(a.firm_id, q) ELSE apply_date_filter(q)
KeysOf(a, q) == {Grouping(q)[t] : t \in Asked(a, q)}
Group(a, q, k) == {t \in Asked(a, q) : Grouping(q)[t] = k}
Row(q, k, T) == IF q.scope = "firm" THEN client_row(k, T) ELSE firm_row(k, T)
RowsOf(a, q) == {Row(q, k, Group(a, q, k)) : k \in KeysOf(a, q)}
Order(q, rows) == IF q.scope = "firm" THEN NewestFirst(rows) ELSE LargestFirst(rows)
Latest(threads) == Max({summary[t].at : t \in threads})

LEMMA ReportIsSorted ==
  ASSUME NEW a, NEW q
  PROVE  ReportRows(a, q) = Sorted(RowsOf(a, q), Order(q, RowsOf(a, q)))
<1>1. \A t \in Threads : ThreadFirm(t) = [u \in Threads |-> ThreadFirm(u)][t]
  OBVIOUS
<1>2. OfFirm(a.firm_id, q) \subseteq Threads /\ apply_date_filter(q) \subseteq Threads
  BY DEF OfFirm, apply_date_filter
<1>3. CASE q.scope = "firm"
  <2>1. ByClient(OfFirm(a.firm_id, q)) = RowsOf(a, q)
    BY <1>3 DEF ByClient, RowsOf, KeysOf, Group, Asked, Grouping, Row
  <2> QED
    BY <1>3, <2>1 DEF ReportRows, firm_clients_with_summaries, Order
<1>4. CASE q.scope # "firm"
  <2>1. ByFirm(apply_date_filter(q)) = RowsOf(a, q)
    BY <1>2, <1>4 DEF ByFirm, RowsOf, KeysOf, Group, Asked, Grouping, Row
  <2> QED
    BY <1>4, <2>1 DEF ReportRows, global_grouped_by_firm, Order
<1> QED
  BY <1>3, <1>4

\* The same, for a state and for the one after a step.
SortedReports ==
  \A a, q : ReportRows(a, q) = Sorted(RowsOf(a, q), Order(q, RowsOf(a, q)))

LEMMA ReportsAreSorted == SortedReports
BY ReportIsSorted DEF SortedReports

LEMMA RowFields ==
  ASSUME NEW q, NEW k, NEW T
  PROVE  /\ Row(q, k, T).key = k
         /\ Row(q, k, T).summaries = T
         /\ Row(q, k, T).summary_count = Cardinality(T)
         /\ Row(q, k, T).last_summarized = Latest(T)
BY DEF Row, client_row, firm_row, Latest

\* A set of numbers with an element and a bound has a largest element.
LEMMA MaxIsReached ==
  ASSUME NEW S \in SUBSET Nat, S # {}, NEW bound \in Nat, \A x \in S : x <= bound
  PROVE  Max(S) \in S /\ \A x \in S : x <= Max(S)
<1> DEFINE Bounds == {n \in Nat : \A x \in S : x <= n}
<1>1. Bounds \in SUBSET Nat /\ Bounds # {}
  OBVIOUS
<1>2. PICK n \in Bounds : \A m \in Bounds : ~(<<m, n>> \in OpToRel(<, Nat))
  BY <1>1, NatLessThanWellFounded, WFMin
<1>3. \A m \in Bounds : ~(m < n)
  BY <1>1, <1>2 DEF OpToRel
<1>4. n \in S
  <2> SUFFICES ASSUME n \notin S PROVE FALSE
    OBVIOUS
  <2>1. \A x \in S : x <= n - 1 /\ n - 1 \in Nat
    OBVIOUS
  <2>2. n \in Nat /\ n - 1 \in Nat /\ \A x \in S : x <= n - 1
    BY <2>1
  <2>3. n - 1 \in Bounds
    BY <2>2
  <2> HIDE DEF Bounds
  <2> QED
    BY <2>2, <2>3, <1>3
<1>5. \E y \in S : \A x \in S : y >= x
  BY <1>4
<1> QED
  BY <1>5 DEF Max

LEMMA LatestIsOneOfThem ==
  ASSUME RInv, NEW T \in SUBSET Threads, T # {}
  PROVE  /\ Latest(T) \in Nat
         /\ \E t \in T : summary[t].at = Latest(T)
         /\ \A t \in T : summary[t].at <= Latest(T)
<1> DEFINE S == {summary[t].at : t \in T}
<1>1. S \in SUBSET Nat /\ S # {} /\ MaxTime \in Nat /\ \A x \in S : x <= MaxTime
  BY BoundAssumption DEF RInv, Typed, Summaries
<1>2. Max(S) \in S /\ \A x \in S : x <= Max(S)
  BY <1>1, MaxIsReached
<1>3. Latest(T) = Max(S)
  BY DEF Latest
<1> QED
  BY <1>1, <1>2, <1>3

LEMMA RowsAreGroups ==
  ASSUME RInv, NEW a, NEW q \in Queries
  PROVE  /\ IsFiniteSet(Asked(a, q)) /\ IsFiniteSet(RowsOf(a, q))
         /\ Asked(a, q) \subseteq {t \in Threads : summary[t].at # 0}
         /\ \A k \in KeysOf(a, q) :
              /\ Group(a, q, k) \in SUBSET Threads /\ Group(a, q, k) # {}
              /\ Cardinality(Group(a, q, k)) \in Nat
              /\ Row(q, k, Group(a, q, k)) \in RowsOf(a, q)
         /\ \A r \in RowsOf(a, q) :
              /\ r.key \in KeysOf(a, q)
              /\ r.summaries = Group(a, q, r.key)
              /\ r.summary_count = Cardinality(Group(a, q, r.key))
              /\ r.last_summarized = Latest(Group(a, q, r.key))
         /\ \A r, s \in RowsOf(a, q) : r.key = s.key => r = s
<1>1. Asked(a, q) \subseteq {t \in Threads : summary[t].at # 0}
  BY DEF Asked, OfFirm, apply_date_filter
<1>2. IsFiniteSet(Asked(a, q))
  BY <1>1, FiniteAssumption, FS_Subset
<1>3. ASSUME NEW k \in KeysOf(a, q)
      PROVE  /\ Group(a, q, k) \in SUBSET Threads /\ Group(a, q, k) # {}
             /\ Cardinality(Group(a, q, k)) \in Nat
             /\ Row(q, k, Group(a, q, k)) \in RowsOf(a, q)
  <2>1. Group(a, q, k) \in SUBSET Asked(a, q) /\ Group(a, q, k) # {}
    BY DEF Group, KeysOf
  <2>2. Cardinality(Group(a, q, k)) \in Nat
    BY <2>1, <1>2, FS_Subset, FS_CardinalityType
  <2> QED
    BY <2>1, <2>2, <1>1 DEF RowsOf
<1>4. ASSUME NEW r \in RowsOf(a, q)
      PROVE  /\ r.key \in KeysOf(a, q) /\ r = Row(q, r.key, Group(a, q, r.key))
             /\ r.summaries = Group(a, q, r.key)
             /\ r.summary_count = Cardinality(Group(a, q, r.key))
             /\ r.last_summarized = Latest(Group(a, q, r.key))
  <2>1. PICK k \in KeysOf(a, q) : r = Row(q, k, Group(a, q, k))
    BY DEF RowsOf
  <2>2. r.key = k
    BY <2>1, RowFields
  <2> QED
    BY <2>1, <2>2, RowFields
<1>5. \A r, s \in RowsOf(a, q) : r.key = s.key => r = s
  BY <1>4
<1>6. IsFiniteSet(RowsOf(a, q))
  <2> DEFINE f == [t \in Asked(a, q) |-> Row(q, Grouping(q)[t], Group(a, q, Grouping(q)[t]))]
  <2>1. f \in [Asked(a, q) -> RowsOf(a, q)]
    BY DEF RowsOf, KeysOf
  <2>2. \A r \in RowsOf(a, q) : \E t \in Asked(a, q) : f[t] = r
    BY DEF RowsOf, KeysOf
  <2>3. f \in Surjection(Asked(a, q), RowsOf(a, q))
    BY <2>1, <2>2 DEF Surjection
  <2> QED
    BY <2>3, <1>2, FS_Surjection
<1> QED
  BY <1>1, <1>2, <1>3, <1>4, <1>5, <1>6

\* The newest refresh of a row is of no other row.
LEMMA RowsHaveOneOrder ==
  ASSUME RInv, NEW a, NEW q \in Queries
  PROVE  TotalOrder(RowsOf(a, q), Order(q, RowsOf(a, q)))
<1> DEFINE rows == RowsOf(a, q)
<1>1. ASSUME NEW r \in rows
      PROVE  r.last_summarized \in Nat /\ r.summary_count \in Nat
  BY RowsAreGroups, LatestIsOneOfThem
<1>2. ASSUME NEW r \in rows, NEW s \in rows, r.last_summarized = s.last_summarized
      PROVE  r = s
  <2>1. PICK t \in Group(a, q, r.key) : summary[t].at = r.last_summarized
    BY RowsAreGroups, LatestIsOneOfThem
  <2>2. PICK u \in Group(a, q, s.key) : summary[u].at = s.last_summarized
    BY RowsAreGroups, LatestIsOneOfThem
  <2>3. /\ t \in Threads /\ u \in Threads /\ summary[t].at # 0
        /\ r.key = Grouping(q)[t] /\ s.key = Grouping(q)[u]
    BY RowsAreGroups DEF Group
  <2>4. t = u
    BY <1>2, <2>1, <2>2, <2>3 DEF RInv, DistinctStamps
  <2> QED
    BY <2>3, <2>4, RowsAreGroups
<1> HIDE DEF rows
<1>3. CASE q.scope = "firm"
  BY <1>1, <1>2, <1>3 DEF TotalOrder, Order, NewestFirst, rows
<1>4. CASE q.scope # "firm"
  BY <1>1, <1>2, <1>4 DEF TotalOrder, Order, LargestFirst, rows
<1> QED
  BY <1>3, <1>4

PlaceOf(a, q, r) == Place(RowsOf(a, q), Order(q, RowsOf(a, q)), r)

LEMMA ReportInPlace ==
  ASSUME RInv, NEW a, NEW q \in Queries
  PROVE  /\ Cardinality(RowsOf(a, q)) \in Nat
         /\ DOMAIN ReportRows(a, q) = 1..Cardinality(RowsOf(a, q))
         /\ Len(ReportRows(a, q)) = Cardinality(RowsOf(a, q))
         /\ \A i \in 1..Cardinality(RowsOf(a, q)) :
              /\ ReportRows(a, q)[i] \in RowsOf(a, q)
              /\ PlaceOf(a, q, ReportRows(a, q)[i]) = i
         /\ \A r \in RowsOf(a, q) :
              /\ PlaceOf(a, q, r) \in 1..Cardinality(RowsOf(a, q))
              /\ ReportRows(a, q)[PlaceOf(a, q, r)] = r
<1>1. IsFiniteSet(RowsOf(a, q)) /\ TotalOrder(RowsOf(a, q), Order(q, RowsOf(a, q)))
  BY RowsAreGroups, RowsHaveOneOrder
<1> QED
  BY <1>1, ReportIsSorted, SortedIsInPlace DEF PlaceOf

\* A report names the threads asked for, all of them.
LEMMA ReportNamesTheAsked ==
  ASSUME RInv, NEW a, NEW q \in Queries
  PROVE  UNION {ReportRows(a, q)[i].summaries : i \in DOMAIN ReportRows(a, q)} = Asked(a, q)
<1> DEFINE rows == ReportRows(a, q)
<1>1. ASSUME NEW i \in DOMAIN rows
      PROVE  rows[i].summaries \subseteq Asked(a, q)
  <2>1. rows[i] \in RowsOf(a, q)
    BY ReportInPlace
  <2> HIDE DEF rows
  <2>2. rows[i].summaries = Group(a, q, rows[i].key)
    BY <2>1, RowsAreGroups
  <2> QED
    BY <2>2 DEF Group
<1>2. ASSUME NEW t \in Asked(a, q)
      PROVE  \E i \in DOMAIN rows : t \in rows[i].summaries
  <2> DEFINE k == Grouping(q)[t]
             r == Row(q, k, Group(a, q, k))
  <2>1. r \in RowsOf(a, q)
    BY DEF RowsOf, KeysOf
  <2>2. t \in r.summaries
    <3>1. r.summaries = Group(a, q, k)
      BY RowFields
    <3> QED
      BY <3>1 DEF Group
  <2> HIDE DEF r
  <2> QED
    BY <2>1, <2>2, ReportInPlace
<1> QED
  BY <1>1, <1>2

LEMMA RInvImpliesReportsOpen == RInv => ReportsOpen
<1> SUFFICES ASSUME RInv, NEW q \in Queries, ReportAllowed(account, q)
             PROVE  /\ \A t \in Asked(account, q) : check_thread_access(account, t) = 200
                    /\ q.since = 0 /\ q.until = MaxTime =>
                         \A t \in Threads :
                           summary[t].at # 0
                             /\ (q.scope = "global" \/ ThreadFirm(t) = account.firm_id)
                             => t \in Asked(account, q)
  BY ReportNamesTheAsked DEF ReportsOpen
<1>1. \A t \in Asked(account, q) : check_thread_access(account, t) = 200
  BY DEF Asked, OfFirm, ReportAllowed, check_thread_access
<1>2. ASSUME q.since = 0, q.until = MaxTime, NEW t \in Threads, summary[t].at # 0,
             q.scope = "global" \/ ThreadFirm(t) = account.firm_id
      PROVE  t \in Asked(account, q)
  <2>1. summary[t].at \in 0..MaxTime /\ MaxTime \in Nat
    BY BoundAssumption DEF RInv, Typed, Summaries
  <2>2. t \in apply_date_filter(q)
    BY <1>2, <2>1 DEF apply_date_filter
  <2> QED
    BY <1>2, <2>2 DEF Asked, OfFirm
<1> QED
  BY <1>1, <1>2

\* A report names only threads that open for its reader, and the undated ones
\* leave out none of their firms that has a summary.
THEOREM ReportsNameWhatOpens == Spec => []ReportsOpen
BY ReportsInvariant, RInvImpliesReportsOpen, PTL

-----------------------------------------------------------------------------
(***************************************************************************)
(* Reading page by page.  A refresh that does not set its thread back only *)
(* ever moves other rows away from the front.                              *)
(***************************************************************************)
Numbered(rows) == \A r \in rows : r.summary_count \in Nat /\ r.last_summarized \in Nat

\* Every row of the first set is in the second, with as much or more to it.
Grown(rows, later) ==
  \A r \in rows : \E s \in later :
    /\ s.key = r.key
    /\ s.summary_count >= r.summary_count /\ s.last_summarized >= r.last_summarized

LEMMA GrownPlace ==
  ASSUME NEW rows, NEW later, IsFiniteSet(later), IsFiniteSet(rows),
         Numbered(rows), Numbered(later), Grown(rows, later),
         \A r, s \in rows : r.key = s.key => r = s,
         NEW q
  PROVE  /\ Cardinality(rows) <= Cardinality(later)
         /\ \A r \in rows, s \in later :
              /\ s.summary_count = r.summary_count /\ s.last_summarized = r.last_summarized
              => /\ Place(rows, Order(q, rows), r) <= Place(later, Order(q, later), s)
                 /\ Place(rows, Order(q, rows), r) \in Nat
                 /\ Place(later, Order(q, later), s) \in Nat
<1> DEFINE Of(r) == CHOOSE s \in later :
                      /\ s.key = r.key
                      /\ s.summary_count >= r.summary_count
                      /\ s.last_summarized >= r.last_summarized
<1>1. ASSUME NEW r \in rows
      PROVE  /\ Of(r) \in later /\ Of(r).key = r.key
             /\ Of(r).summary_count >= r.summary_count
             /\ Of(r).last_summarized >= r.last_summarized
  BY DEF Grown
<1> HIDE DEF Of
<1>2. ASSUME NEW A \in SUBSET rows, NEW B \in SUBSET later, \A r \in A : Of(r) \in B
      PROVE  Cardinality(A) <= Cardinality(B)
  <2> DEFINE f == [r \in A |-> Of(r)]
  <2>1. f \in [A -> B] /\ \A r, s \in A : f[r] = f[s] => r = s
    BY <1>1, <1>2
  <2>2. f \in Injection(A, B)
    BY <2>1, Fun_IsInj
  <2>3. IsFiniteSet(B)
    BY FS_Subset
  <2> QED
    BY <2>2, <2>3, FS_Injection
<1>3. Cardinality(rows) <= Cardinality(later)
  BY <1>1, <1>2
<1>4. ASSUME NEW r \in rows, NEW s \in later,
             s.summary_count = r.summary_count, s.last_summarized = r.last_summarized
      PROVE  /\ Place(rows, Order(q, rows), r) <= Place(later, Order(q, later), s)
             /\ Place(rows, Order(q, rows), r) \in Nat
             /\ Place(later, Order(q, later), s) \in Nat
  <2> DEFINE A == Ahead(rows, Order(q, rows), r)
             B == Ahead(later, Order(q, later), s)
  <2>1. A \in SUBSET rows /\ B \in SUBSET later
    BY DEF Ahead
  <2>2. ASSUME NEW z \in A
        PROVE  Of(z) \in B
    <3>1. /\ z \in rows /\ Of(z) \in later /\ <<z, r>> \in Order(q, rows)
          /\ Of(z).summary_count >= z.summary_count
          /\ Of(z).last_summarized >= z.last_summarized
      BY <1>1 DEF Ahead
    <3>2. /\ {z.summary_count, z.last_summarized, r.summary_count, r.last_summarized} \subseteq Nat
          /\ {Of(z).summary_count, Of(z).last_summarized} \subseteq Nat
      BY <3>1 DEF Numbered
    <3>3. <<Of(z), s>> \in Order(q, later)
      BY <1>4, <3>1, <3>2 DEF Order, NewestFirst, LargestFirst
    <3> QED
      BY <3>1, <3>3 DEF Ahead
  <2>3. Cardinality(A) \in Nat /\ Cardinality(B) \in Nat /\ Cardinality(A) <= Cardinality(B)
    <3> HIDE DEF A, B
    <3> QED
      BY <2>1, <2>2, <1>2, FS_Subset, FS_CardinalityType
  <2> QED
    BY <2>3 DEF Place
<1> QED
  BY <1>3, <1>4

\* The facts about rows that a step needs before and after it.
RowsWellFormed ==
  \A a : \A q \in Queries :
    /\ IsFiniteSet(RowsOf(a, q)) /\ Numbered(RowsOf(a, q))
    /\ \A r \in RowsOf(a, q) :
         /\ r.key \in KeysOf(a, q)
         /\ r.summary_count = Cardinality(Group(a, q, r.key))
         /\ r.last_summarized = Latest(Group(a, q, r.key))
    /\ \A k \in KeysOf(a, q) : \E r \in RowsOf(a, q) : r.key = k
    /\ \A r, s \in RowsOf(a, q) : r.key = s.key => r = s
    /\ \A k \in KeysOf(a, q) :
         /\ Group(a, q, k) \in SUBSET Threads /\ Group(a, q, k) # {}
         /\ IsFiniteSet(Group(a, q, k))
         /\ \E t \in Group(a, q, k) : summary[t].at = Latest(Group(a, q, k))
         /\ \A t \in Group(a, q, k) : summary[t].at <= Latest(Group(a, q, k))

LEMMA RInvImpliesRowsWellFormed == RInv => RowsWellFormed
<1> SUFFICES ASSUME RInv, NEW a, NEW q \in Queries
             PROVE  RowsWellFormed!(a)!(q)
  BY DEF RowsWellFormed
<1>1. \A k \in KeysOf(a, q) :
        /\ Group(a, q, k) \in SUBSET Threads /\ Group(a, q, k) # {}
        /\ IsFiniteSet(Group(a, q, k))
        /\ \E t \in Group(a, q, k) : summary[t].at = Latest(Group(a, q, k))
        /\ \A t \in Group(a, q, k) : summary[t].at <= Latest(Group(a, q, k))
  BY RowsAreGroups, LatestIsOneOfThem, FiniteAssumption, FS_Subset
<1>2. ASSUME NEW k \in KeysOf(a, q)
      PROVE  \E r \in RowsOf(a, q) : r.key = k
  BY RowsAreGroups, RowFields
<1>3. ASSUME NEW r \in RowsOf(a, q)
      PROVE  r.summary_count \in Nat /\ r.last_summarized \in Nat
  BY RowsAreGroups, LatestIsOneOfThem
<1> QED
  BY <1>1, <1>2, <1>3, RowsAreGroups DEF Numbered

\* A refresh that does not set back the date of its thread leaves every other
\* row of a report without ?until= as far behind as it was, or further.
LEMMA UpsertMovesRowsBack ==
  ASSUME RInv, NEW s \in stamped, upsert(s), s.at >= summary[s.thread].at,
         NEW a, NEW q \in Queries, q.until = MaxTime
  PROVE  /\ Cardinality(RowsOf(a, q)) <= Cardinality(RowsOf(a, q)')
         /\ \A y \in RowsOf(a, q)' : y.key # Grouping(q)[s.thread] =>
              \E x \in RowsOf(a, q) :
                /\ x.key = y.key
                /\ PlaceOf(a, q, x) <= PlaceOf(a, q, y)'
                /\ PlaceOf(a, q, x) \in Nat /\ PlaceOf(a, q, y)' \in Nat
<1> DEFINE t == s.thread
           R == RowsOf(a, q)
           R2 == RowsOf(a, q)'
           G(k) == Group(a, q, k)
           G2(k) == Group(a, q, k)'
<1>1. RInv'
  BY UpsertKeepsRInv
<1>2. RowsWellFormed /\ RowsWellFormed'
  BY <1>1, RInvImpliesRowsWellFormed, PTL
<1>3. /\ t \in Threads /\ s.at \in 1..MaxTime /\ MaxTime \in Nat
      /\ \A u \in Threads : summary[u].at \in 0..MaxTime
      /\ \A u \in Threads : u # t => summary'[u] = summary[u]
      /\ summary'[t].at = s.at
  BY BoundAssumption DEF RInv, Typed, Stamps, Summaries, upsert
<1>4. q.since \in Nat
  BY BoundAssumption DEF Queries
<1>5. \A u \in Threads : summary[u].at <= summary'[u].at
  BY <1>3
<1>6. /\ apply_date_filter(q) \subseteq apply_date_filter(q)'
      /\ apply_date_filter(q)' \subseteq apply_date_filter(q) \cup {t}
  <2>1. ASSUME NEW u \in apply_date_filter(q) PROVE u \in apply_date_filter(q)'
    BY <1>3, <1>4, <1>5, <2>1 DEF apply_date_filter
  <2>2. ASSUME NEW u \in apply_date_filter(q)' PROVE u \in apply_date_filter(q) \cup {t}
    BY <1>3, <2>2 DEF apply_date_filter
  <2> QED
    BY <2>1, <2>2
<1>7. Asked(a, q) \subseteq Asked(a, q)' /\ Asked(a, q)' \subseteq Asked(a, q) \cup {t}
  BY <1>6 DEF Asked, OfFirm
<1>8. ASSUME NEW k
      PROVE  /\ G(k) \subseteq G2(k)
             /\ k # Grouping(q)[t] => G2(k) = G(k)
  BY <1>7 DEF Group
<1>9. KeysOf(a, q) \subseteq KeysOf(a, q)'
  BY <1>7 DEF KeysOf
<1>10. ASSUME NEW k \in KeysOf(a, q)
       PROVE  /\ Cardinality(G(k)) <= Cardinality(G2(k))
              /\ Latest(G(k)) <= Latest(G(k))'
  <2>1. Cardinality(G(k)) <= Cardinality(G2(k))
    <3>1. IsFiniteSet(G2(k)) /\ G(k) \in SUBSET G2(k)
      BY <1>2, <1>8, <1>9 DEF RowsWellFormed
    <3> QED
      BY <3>1, FS_Subset
  <2>2. PICK u \in G(k) : summary[u].at = Latest(G(k))
    BY <1>2 DEF RowsWellFormed
  <2>3. u \in Threads
    BY <1>2 DEF RowsWellFormed
  <2>4. summary'[u].at <= Latest(G(k))' /\ Latest(G(k))' \in {summary'[w].at : w \in Threads}
    BY <1>2, <1>8, <1>9 DEF RowsWellFormed
  <2>5. \A w \in Threads : summary'[w].at \in Nat
    BY <1>3
  <2> QED
    BY <1>3, <1>5, <2>1, <2>2, <2>3, <2>4, <2>5
<1>11. ASSUME NEW k \in KeysOf(a, q)', k # Grouping(q)[t]
       PROVE  k \in KeysOf(a, q) /\ G2(k) = G(k) /\ Latest(G(k))' = Latest(G(k))
  <2>1. G2(k) = G(k)
    BY <1>8, <1>11
  <2>2. k \in KeysOf(a, q)
    BY <1>7, <1>11 DEF KeysOf
  <2>3. PICK u \in G(k) : summary[u].at = Latest(G(k))
    BY <1>2, <2>2 DEF RowsWellFormed
  <2>4. PICK w \in G(k) : summary'[w].at = Latest(G(k))'
    BY <1>2, <1>11, <2>1 DEF RowsWellFormed
  <2>5. \A v \in G(k) : v \in Threads /\ v # t
    <3>1. G(k) \subseteq Threads
      BY <1>2, <2>2 DEF RowsWellFormed
    <3>2. \A v \in G(k) : Grouping(q)[v] = k
      BY DEF Group
    <3> QED
      BY <3>1, <3>2, <1>11
  <2>6. summary[w].at <= Latest(G(k)) /\ summary'[u].at <= Latest(G(k))'
    BY <1>2, <1>11, <2>1, <2>2 DEF RowsWellFormed
  <2> HIDE DEF G, t
  <2> QED
    BY <1>3, <2>1, <2>2, <2>3, <2>4, <2>5, <2>6
<1>12. /\ IsFiniteSet(R) /\ IsFiniteSet(R2) /\ Numbered(R) /\ Numbered(R2)
       /\ \A r, z \in R : r.key = z.key => r = z
  BY <1>2 DEF RowsWellFormed, Numbered
<1>13. Grown(R, R2)
  <2> SUFFICES ASSUME NEW r \in R
               PROVE  \E z \in R2 : /\ z.key = r.key
                                    /\ z.summary_count >= r.summary_count
                                    /\ z.last_summarized >= r.last_summarized
    BY DEF Grown
  <2>1. /\ r.key \in KeysOf(a, q) /\ r.summary_count = Cardinality(G(r.key))
        /\ r.last_summarized = Latest(G(r.key))
    BY <1>2 DEF RowsWellFormed
  <2>2. PICK z \in R2 : z.key = r.key
    BY <1>2, <1>9, <2>1 DEF RowsWellFormed
  <2>3. z.summary_count = Cardinality(G2(r.key)) /\ z.last_summarized = Latest(G(r.key))'
    BY <1>2, <2>2 DEF RowsWellFormed
  <2>4. {r.summary_count, r.last_summarized, z.summary_count, z.last_summarized} \subseteq Nat
    BY <1>12 DEF Numbered
  <2> QED
    BY <1>10, <2>1, <2>2, <2>3, <2>4
<1>14. /\ Cardinality(R) <= Cardinality(R2)
       /\ \A r \in R, z \in R2 :
            /\ z.summary_count = r.summary_count /\ z.last_summarized = r.last_summarized
            => /\ Place(R, Order(q, R), r) <= Place(R2, Order(q, R2), z)
               /\ Place(R, Order(q, R), r) \in Nat /\ Place(R2, Order(q, R2), z) \in Nat
  <2> HIDE DEF R, R2
  <2> QED
    BY <1>12, <1>13, GrownPlace
<1>15. ASSUME NEW y \in R2, y.key # Grouping(q)[t]
       PROVE  \E x \in R :
                /\ x.key = y.key
                /\ PlaceOf(a, q, x) <= PlaceOf(a, q, y)'
                /\ PlaceOf(a, q, x) \in Nat /\ PlaceOf(a, q, y)' \in Nat
  <2>1. /\ y.key \in KeysOf(a, q)' /\ y.summary_count = Cardinality(G2(y.key))
        /\ y.last_summarized = Latest(G(y.key))'
    BY <1>2 DEF RowsWellFormed
  <2>2. PICK x \in R : x.key = y.key
    BY <1>2, <1>11, <1>15, <2>1 DEF RowsWellFormed
  <2>3. x.summary_count = Cardinality(G(y.key)) /\ x.last_summarized = Latest(G(y.key))
    BY <1>2, <2>2 DEF RowsWellFormed
  <2>4. y.summary_count = x.summary_count /\ y.last_summarized = x.last_summarized
    BY <1>11, <1>15, <2>1, <2>3
  <2>5. /\ Place(R, Order(q, R), x) <= Place(R2, Order(q, R2), y)
        /\ Place(R, Order(q, R), x) \in Nat /\ Place(R2, Order(q, R2), y) \in Nat
    BY <1>14, <2>4
  <2> QED
    BY <2>2, <2>5 DEF PlaceOf, Order, NewestFirst, LargestFirst
<1> QED
  BY <1>14, <1>15

-----------------------------------------------------------------------------
(***************************************************************************)
(* The invariant of a reading that no refresh set back: there are rows     *)
(* behind the pages read as long as a next page is linked, and each row    *)
(* within them has been shown or has a thread refreshed since.             *)
(***************************************************************************)
KeyType(q) == IF q.scope = "firm" THEN Clients ELSE Firms
KeysInOrder(q) ==
  [i \in 1..Len(ReportRows(account, q)) |-> ReportRows(account, q)[i].key]
RowCount(q) == Cardinality(RowsOf(account, q))
Followed(r) == r.query.until = MaxTime /\ ~r.setBack

ShownUpTo(r, n) ==
  /\ \A x \in RowsOf(account, r.query) :
       PlaceOf(account, r.query, x) <= n =>
         \/ x.key \in ToSet(r.keys)
         \/ ThreadsUnder(r.query, x.key) \cap r.touched # {}
  /\ r.touched = {} => r.keys = SubSeq(KeysInOrder(r.query), 1, n)

PagesInv ==
  /\ reading.keys \in Seq(KeyType(reading.query))
  /\ reading.phase \in {"pages", "done"} => reading.query \in Queries
  /\ reading.phase = "pages" /\ Followed(reading) =>
       /\ reading.page * page_size < RowCount(reading.query)
       /\ ShownUpTo(reading, reading.page * page_size)
  /\ reading.phase = "done" /\ Followed(reading) =>
       ShownUpTo(reading, RowCount(reading.query))
  /\ reading.phase = "not_found" => ~Followed(reading)

LEMMA PagesInvImpliesPagesAddUp == RInv /\ PagesInv => PagesAddUp
<1> SUFFICES ASSUME RInv, PagesInv,
                    reading.phase \in {"done", "not_found"}, Followed(reading)
             PROVE  /\ reading.phase = "done"
                    /\ \A k \in ToSet(KeysInOrder(reading.query)) \ ToSet(reading.keys) :
                         ThreadsUnder(reading.query, k) \cap reading.touched # {}
                    /\ reading.touched = {} => reading.keys = KeysInOrder(reading.query)
  BY DEF PagesAddUp, KeysInOrder, Followed
<1> DEFINE q == reading.query
           rows == ReportRows(account, q)
           n == RowCount(q)
<1>1. reading.phase = "done" /\ q \in Queries /\ ShownUpTo(reading, n)
  BY DEF PagesInv
<1>2. /\ n \in Nat /\ Len(rows) = n
      /\ \A i \in 1..n : rows[i] \in RowsOf(account, q) /\ PlaceOf(account, q, rows[i]) = i
  BY <1>1, ReportInPlace DEF RowCount
<1>3. ASSUME NEW k \in ToSet(KeysInOrder(q)) \ ToSet(reading.keys)
      PROVE  ThreadsUnder(q, k) \cap reading.touched # {}
  <2>1. PICK i \in 1..n : k = rows[i].key
    BY <1>2 DEF ToSet, KeysInOrder
  <2> HIDE DEF rows
  <2>2. rows[i] \in RowsOf(account, q) /\ PlaceOf(account, q, rows[i]) <= n
    BY <1>2
  <2> QED
    BY <1>1, <2>1, <2>2 DEF ShownUpTo
<1>4. SubSeq(KeysInOrder(q), 1, n) = KeysInOrder(q)
  BY <1>2 DEF KeysInOrder
<1> QED
  BY <1>1, <1>3, <1>4 DEF ShownUpTo

\* As long as no refresh commits, a report stays as it is.
LEMMA RowsStay ==
  ASSUME UNCHANGED <<account, summary>>, NEW q
  PROVE  /\ RowsOf(account, q)' = RowsOf(account, q)
         /\ KeysInOrder(q)' = KeysInOrder(q) /\ RowCount(q)' = RowCount(q)
         /\ \A x : PlaceOf(account, q, x)' = PlaceOf(account, q, x)
<1>1. RowsOf(account, q)' = RowsOf(account, q)
  BY DEF RowsOf, KeysOf, Group, Asked, Grouping, OfFirm, apply_date_filter, Row,
         client_row, firm_row, MapThenSumSet, MapThenFoldSet
<1>2. Order(q, RowsOf(account, q))' = Order(q, RowsOf(account, q))
  BY <1>1 DEF Order, NewestFirst, LargestFirst
<1>3. ReportRows(account, q)' = ReportRows(account, q)
  <2>1. SortedReports /\ SortedReports'
    BY ReportsAreSorted, PTL
  <2>2. ReportRows(account, q)' =
          Sorted(RowsOf(account, q), Order(q, RowsOf(account, q)))'
    BY <2>1 DEF SortedReports
  <2>3. @ = Sorted(RowsOf(account, q), Order(q, RowsOf(account, q)))
    BY <1>1, <1>2 DEF Sorted
  <2> QED
    BY <2>1, <2>2, <2>3 DEF SortedReports
<1>4. KeysInOrder(q)' = KeysInOrder(q) /\ RowCount(q)' = RowCount(q)
  BY <1>1, <1>3 DEF KeysInOrder, RowCount
<1>5. \A x : PlaceOf(account, q, x)' = PlaceOf(account, q, x)
  BY <1>1, <1>2 DEF PlaceOf, Place, Ahead
<1> QED
  BY <1>1, <1>4, <1>5

LEMMA ListIsSeq ==
  ASSUME NEW K, NEW n \in Nat, NEW f, f = [i \in 1..n |-> f[i]], \A i \in 1..n : f[i] \in K
  PROVE  f \in Seq(K) /\ Len(f) = n
OBVIOUS

LEMMA SubSeqsMeet ==
  ASSUME NEW K, NEW s \in Seq(K), NEW i \in Nat, NEW j \in Nat, i <= j, j <= Len(s)
  PROVE  SubSeq(s, 1, i) \o SubSeq(s, i + 1, j) = SubSeq(s, 1, j)
<1> DEFINE a == SubSeq(s, 1, i)
           b == SubSeq(s, i + 1, j)
<1>1. /\ a \in Seq(K) /\ Len(a) = i /\ \A x \in 1..i : a[x] = s[x]
      /\ b \in Seq(K) /\ Len(b) = j - i /\ \A x \in 1..(j - i) : b[x] = s[i + x]
  OBVIOUS
<1>2. /\ SubSeq(s, 1, j) \in Seq(K) /\ Len(SubSeq(s, 1, j)) = j
      /\ \A x \in 1..j : SubSeq(s, 1, j)[x] = s[x]
  OBVIOUS
<1> HIDE DEF a, b
<1>3. /\ a \o b \in Seq(K) /\ Len(a \o b) = j
      /\ \A x \in 1..j : (a \o b)[x] = s[x]
  <2>1. a \o b \in Seq(K) /\ Len(a \o b) = j
    <3>1. a \o b \in Seq(K) /\ Len(a \o b) = Len(a) + Len(b)
      <4>1. a \in Seq(K) /\ b \in Seq(K)
        BY <1>1
      <4> QED
        BY <4>1, ConcatProperties
    <3> QED
      BY <3>1, <1>1
  <2>2. ASSUME NEW x \in 1..j, x <= i PROVE (a \o b)[x] = s[x]
    BY <1>1, <2>2
  <2>3. ASSUME NEW x \in 1..j, x > i PROVE (a \o b)[x] = s[x]
    <3>1. (a \o b)[x] = b[x - i] /\ x - i \in 1..(j - i)
      BY <1>1, <2>3
    <3>2. b[x - i] = s[i + (x - i)]
      BY <1>1, <3>1
    <3> QED
      BY <3>1, <3>2
  <2> QED
    BY <2>1, <2>2, <2>3
<1>4. a \o b = SubSeq(s, 1, j)
  BY <1>2, <1>3, SeqEqual
<1> QED
  BY <1>4 DEF a, b

LEMMA PartIsSeq ==
  ASSUME NEW K, NEW s \in Seq(K), NEW i \in Nat \ {0}, NEW j \in Nat, j <= Len(s)
  PROVE  SubSeq(s, i, j) \in Seq(K)
OBVIOUS

LEMMA PageNumbers ==
  ASSUME NEW r, IsReading(r)
  PROVE  /\ page_size \in Nat \ {0} /\ r.page \in Nat /\ r.page + 1 \in Nat \ {0}
         /\ r.page * page_size \in Nat /\ (r.page + 1) * page_size \in Nat
         /\ (r.page + 1) * page_size = r.page * page_size + page_size
         /\ ((r.page + 1) - 1) * page_size = r.page * page_size
<1>1. page_size \in Nat \ {0} /\ r.page \in Nat
  BY BoundAssumption DEF IsReading
<1> QED
  BY <1>1

LEMMA MinOfTwo ==
  ASSUME NEW m \in Nat, NEW n \in Nat
  PROVE  Min({m, n}) = IF m <= n THEN m ELSE n
<1>1. \E x \in {m, n} : \A y \in {m, n} : x =< y
  OBVIOUS
<1>2. Min({m, n}) \in {m, n} /\ \A y \in {m, n} : Min({m, n}) =< y
  BY <1>1 DEF Min
<1> QED
  BY <1>2

\* Pages n and on of a report whose first n - 1 have been read and followed.
LEMMA PageFollows ==
  ASSUME RInv, NEW r, IsReading(r), r.query \in Queries, r.keys \in Seq(KeyType(r.query)),
         Followed(r) =>
           /\ r.page = 0 \/ r.page * page_size < RowCount(r.query)
           /\ ShownUpTo(r, r.page * page_size),
         ReadPage(r, r.page + 1), UNCHANGED <<account, stamped, summary>>
  PROVE  PagesInv'
<1> DEFINE q == r.query
           n == r.page + 1
           ahead == r.page * page_size
           rows == ReportRows(account, q)
           keys == KeysInOrder(q)
           N == RowCount(q)
           first == ahead + 1
           last == Min({n * page_size, N})
           more == r.keys \o SubSeq(keys, first, last)
<1>1. /\ N \in Nat /\ Len(rows) = N /\ keys \in Seq(KeyType(q)) /\ Len(keys) = N
      /\ \A i \in 1..N : keys[i] = rows[i].key
      /\ \A x \in RowsOf(account, q) :
           /\ PlaceOf(account, q, x) \in 1..N
           /\ keys[PlaceOf(account, q, x)] = x.key
  <2>1. N \in Nat /\ Len(rows) = N /\ \A i \in 1..N : rows[i] \in RowsOf(account, q)
    BY ReportInPlace DEF RowCount
  <2>2. ASSUME NEW x \in RowsOf(account, q) PROVE x.key \in KeyType(q)
    <3>1. PICK t \in Threads : x.key = Grouping(q)[t]
      BY RowsAreGroups DEF KeysOf
    <3> QED
      BY <3>1, ClientAssumption, ThreadAssumption DEF Grouping, ThreadFirm, KeyType
  <2>3. \A i \in 1..N : rows[i].key \in KeyType(q)
    BY <2>1, <2>2
  <2>4. keys = [i \in 1..N |-> rows[i].key]
    BY <2>1 DEF KeysInOrder
  <2>5. keys \in Seq(KeyType(q)) /\ Len(keys) = N /\ \A i \in 1..N : keys[i] = rows[i].key
    <3> HIDE DEF rows, keys, N
    <3>1. keys = [i \in 1..N |-> keys[i]] /\ \A i \in 1..N : keys[i] = rows[i].key
      BY <2>4
    <3>2. \A i \in 1..N : keys[i] \in KeyType(q)
      BY <2>3, <3>1
    <3> QED
      BY <2>1, <3>1, <3>2, ListIsSeq
  <2>6. ASSUME NEW x \in RowsOf(account, q)
        PROVE  /\ PlaceOf(account, q, x) \in 1..N
               /\ keys[PlaceOf(account, q, x)] = x.key
    BY <2>5, ReportInPlace DEF RowCount
  <2> QED
    BY <2>1, <2>5, <2>6
<1>2. /\ page_size \in Nat \ {0} /\ r.page \in Nat /\ n \in Nat \ {0} /\ ahead \in Nat
      /\ n * page_size \in Nat /\ n * page_size = ahead + page_size
      /\ (n - 1) * page_size = ahead
  BY PageNumbers
<1>3. last = IF n * page_size <= N THEN n * page_size ELSE N
  BY <1>1, <1>2, MinOfTwo
<1>4. IF n > 1 /\ first > N
        THEN reading' = [r EXCEPT !.phase = "not_found"]
        ELSE reading' = [r EXCEPT !.phase = IF last < N THEN "pages" ELSE "done",
                                  !.page = n, !.keys = more]
  BY <1>1, <1>2 DEF ReadPage, KeysInOrder
<1>5. CASE n > 1 /\ first > N
  <2>1. reading' = [r EXCEPT !.phase = "not_found"]
    BY <1>4, <1>5
  <2>2. /\ reading'.phase = "not_found" /\ reading'.keys = r.keys
        /\ reading'.query = q /\ Followed(reading') = Followed(r)
    BY <2>1 DEF IsReading, Followed
  <2>3. ~Followed(r)
    <3>1. Followed(r) => r.page = 0 \/ ahead < N
      OBVIOUS
    <3> HIDE DEF N, ahead
    <3> QED
      BY <3>1, <1>1, <1>2, <1>5
  <2> QED
    BY <2>2, <2>3 DEF PagesInv, Followed
<1>6. CASE ~(n > 1 /\ first > N)
  <2> HIDE DEF more, N, ahead, last
  <2>1. /\ reading'.phase = IF last < N THEN "pages" ELSE "done"
        /\ reading'.page = n /\ reading'.keys = more /\ reading'.query = q
        /\ reading'.touched = r.touched /\ Followed(reading') = Followed(r)
    BY <1>4, <1>6 DEF IsReading, Followed
  <2>2. /\ last \in Nat /\ last <= N /\ (last < N => last = n * page_size)
        /\ (~(last < N) => last = N)
    <3>1. PICK m \in Nat : m = n * page_size
      BY <1>2
    <3>2. last = IF m <= N THEN m ELSE N
      BY <1>3, <3>1
    <3>3. N \in Nat
      BY <1>1
    <3>4. /\ last \in Nat /\ last <= N /\ (last < N => last = m)
          /\ (~(last < N) => last = N)
      BY <3>2, <3>3
    <3> QED
      BY <3>1, <3>4
  <2>3. SubSeq(keys, first, last) \in Seq(KeyType(q)) /\ more \in Seq(KeyType(q))
    <3>1. SubSeq(keys, first, last) \in Seq(KeyType(q))
      <4> HIDE DEF keys
      <4>1. keys \in Seq(KeyType(q)) /\ first \in Nat \ {0} /\ last \in Nat /\ last <= Len(keys)
        BY <1>1, <1>2, <2>2
      <4> QED
        BY <4>1, PartIsSeq
    <3> QED
      BY <3>1, ConcatProperties DEF more
  <2>4. ASSUME Followed(r), NEW x \in RowsOf(account, q), PlaceOf(account, q, x) <= last
        PROVE  \/ x.key \in ToSet(more)
               \/ ThreadsUnder(q, x.key) \cap r.touched # {}
    <3> DEFINE i == PlaceOf(account, q, x)
    <3>1. i \in 1..N /\ i <= last /\ keys[i] = x.key
      BY <1>1, <2>4
    <3>2. CASE i <= ahead
      <4>1. x.key \in ToSet(r.keys) \/ ThreadsUnder(q, x.key) \cap r.touched # {}
        BY <2>4, <3>2 DEF ShownUpTo, ahead
      <4>2. ToSet(r.keys) \subseteq ToSet(more)
        BY <2>3 DEF more, ToSet
      <4> QED
        BY <4>1, <4>2
    <3>3. CASE i > ahead
      <4> DEFINE page == SubSeq(keys, first, last)
                 j == i - ahead
      <4>1. j \in 1..Len(page) /\ page[j] = keys[i]
        <5> HIDE DEF i, keys
        <5> QED
          BY <1>1, <1>2, <2>2, <3>1, <3>3
      <4> HIDE DEF i, j, page
      <4>2. /\ more = r.keys \o page /\ page \in Seq(KeyType(q))
            /\ Len(r.keys) \in Nat /\ Len(page) \in Nat
        BY <2>3 DEF more, page
      <4>3. /\ Len(more) = Len(r.keys) + Len(page)
            /\ \A z \in 1..(Len(r.keys) + Len(page)) :
                 more[z] = IF z <= Len(r.keys) THEN r.keys[z] ELSE page[z - Len(r.keys)]
        BY <4>2, ConcatProperties
      <4>4. Len(r.keys) + j \in 1..Len(more) /\ more[Len(r.keys) + j] = page[j]
        BY <4>1, <4>2, <4>3
      <4>5. more[Len(r.keys) + j] = x.key
        BY <3>1, <4>1, <4>4
      <4>6. more[Len(r.keys) + j] \in ToSet(more)
        BY <2>3, <4>4 DEF ToSet
      <4> QED
        BY <4>5, <4>6
    <3> QED
      BY <3>1, <3>2, <3>3, <1>2
  <2>5. ASSUME Followed(r), r.touched = {}
        PROVE  more = SubSeq(keys, 1, last)
    <3>1. r.keys = SubSeq(keys, 1, ahead)
      BY <2>5 DEF ShownUpTo, ahead
    <3>2. ahead <= last
      <4>1. r.page = 0 \/ ahead < N
        BY <2>5 DEF ahead, N
      <4>2. r.page = 0 => ahead = 0
        BY <1>2 DEF ahead
      <4> QED
        BY <4>1, <4>2, <1>1, <1>2, <2>2
    <3>3. SubSeq(keys, 1, ahead) \o SubSeq(keys, ahead + 1, last) = SubSeq(keys, 1, last)
      <4> HIDE DEF keys
      <4>1. /\ keys \in Seq(KeyType(q)) /\ ahead \in Nat /\ last \in Nat
            /\ ahead <= last /\ last <= Len(keys)
        BY <3>2, <1>1, <1>2, <2>2
      <4> QED
        BY <4>1, SubSeqsMeet
    <3> QED
      BY <3>1, <3>3 DEF more
  <2>6. /\ RowsOf(account, q)' = RowsOf(account, q)
        /\ KeysInOrder(q)' = keys /\ RowCount(q)' = N
        /\ \A x : PlaceOf(account, q, x)' = PlaceOf(account, q, x)
    BY RowsStay DEF N
  <2>7. ASSUME Followed(r), NEW upto, upto = last
        PROVE  ShownUpTo(reading, upto)'
    <3>1. \A x \in RowsOf(account, q)' :
            PlaceOf(account, q, x)' <= upto =>
              \/ x.key \in ToSet(more)
              \/ ThreadsUnder(q, x.key) \cap r.touched # {}
      BY <2>4, <2>6, <2>7
    <3>2. r.touched = {} => more = SubSeq(KeysInOrder(q)', 1, upto)
      BY <2>5, <2>6, <2>7
    <3> HIDE DEF keys
    <3> QED
      BY <2>1, <3>1, <3>2 DEF ShownUpTo
  <2> QED
    BY <2>1, <2>2, <2>3, <2>6, <2>7 DEF PagesInv
<1> QED
  BY <1>5, <1>6

LEMMA PagesInvStays ==
  ASSUME PagesInv, UNCHANGED <<account, summary, reading>>
  PROVE  PagesInv'
<1>1. PICK q : q = reading.query
  OBVIOUS
<1>2. /\ RowsOf(account, q)' = RowsOf(account, q)
      /\ KeysInOrder(q)' = KeysInOrder(q) /\ RowCount(q)' = RowCount(q)
      /\ \A x : PlaceOf(account, q, x)' = PlaceOf(account, q, x)
  BY RowsStay
<1>3. ASSUME NEW n, ShownUpTo(reading, n)
      PROVE  ShownUpTo(reading, n)'
  BY <1>1, <1>2, <1>3 DEF ShownUpTo
<1> QED
  BY <1>1, <1>2, <1>3 DEF PagesInv, Followed

LEMMA FirstPageKeepsPagesInv ==
  ASSUME RInv, PagesInv, NEW q \in Queries, FirstPage(q)
  PROVE  PagesInv'
<1>1. CASE ReadPage(Fresh(q), 1)
  <2> DEFINE r == Fresh(q)
  <2>1. /\ r.query = q /\ r.page = 0 /\ r.keys = <<>> /\ r.touched = {} /\ IsReading(r)
    BY FreshReading DEF Fresh
  <2>2. r.keys \in Seq(KeyType(q)) /\ r.page * page_size = 0 /\ r.page + 1 = 1
    BY <2>1, BoundAssumption
  <2>3. ShownUpTo(r, 0)
    <3>1. \A x \in RowsOf(account, q) : ~(PlaceOf(account, q, x) <= 0)
      BY ReportInPlace
    <3>2. SubSeq(KeysInOrder(q), 1, 0) = <<>>
      BY SubSeqEmpty
    <3> QED
      BY <2>1, <3>1, <3>2 DEF ShownUpTo
  <2> HIDE DEF r
  <2> QED
    BY <1>1, <2>1, <2>2, <2>3, PageFollows DEF FirstPage, r
<1>2. CASE reading' = [Fresh(q) EXCEPT !.phase = "forbidden"]
  <2>1. reading'.phase = "forbidden" /\ reading'.keys = <<>>
    BY <1>2 DEF Fresh
  <2> QED
    BY <2>1 DEF PagesInv
<1> QED
  BY <1>1, <1>2, FreshReading DEF FirstPage

LEMMA NextPageKeepsPagesInv ==
  ASSUME RInv, PagesInv, NextPage
  PROVE  PagesInv'
<1>1. /\ IsReading(reading) /\ reading.query \in Queries
      /\ reading.keys \in Seq(KeyType(reading.query))
      /\ Followed(reading) => /\ reading.page * page_size < RowCount(reading.query)
                              /\ ShownUpTo(reading, reading.page * page_size)
      /\ ReadPage(reading, reading.page + 1) /\ UNCHANGED <<account, stamped, summary>>
  BY DEF RInv, PagesInv, NextPage
<1> QED
  BY <1>1, PageFollows

LEMMA UpsertKeepsPagesInv ==
  ASSUME RInv, PagesInv, NEW s \in stamped, upsert(s)
  PROVE  PagesInv'
<1>0. PICK a, q : a = account /\ q = reading.query
  OBVIOUS
<1>1. CASE reading.phase \notin {"pages", "done"}
  <2>1. /\ reading'.phase = reading.phase /\ reading'.keys = reading.keys
        /\ reading'.query = reading.query /\ (Followed(reading') => Followed(reading))
    BY DEF upsert, Followed, RInv, IsReading
  <2> QED
    BY <1>1, <2>1 DEF PagesInv, Followed
<1>2. CASE reading.phase \in {"pages", "done"}
  <2>1. /\ reading'.phase = reading.phase /\ reading'.keys = reading.keys
        /\ reading'.page = reading.page /\ reading'.query = q
        /\ reading'.touched = reading.touched \cup {s.thread}
        /\ Followed(reading') => Followed(reading) /\ ~(s.at < summary[s.thread].at)
    BY <1>0, <1>2 DEF upsert, Followed, RInv, IsReading
  <2>2. q \in Queries
    BY <1>0, <1>2 DEF PagesInv
  <2>3. account' = account
    BY DEF upsert
  <2>4. s.thread \in Threads /\ s.at \in Nat /\ summary[s.thread].at \in Nat
    BY BoundAssumption DEF RInv, Typed, Stamps, Summaries
  <2>5. ASSUME Followed(reading')
        PROVE  /\ Cardinality(RowsOf(a, q)) <= Cardinality(RowsOf(a, q)')
               /\ \A y \in RowsOf(a, q)' : y.key # Grouping(q)[s.thread] =>
                    \E x \in RowsOf(a, q) :
                      /\ x.key = y.key
                      /\ PlaceOf(a, q, x) <= PlaceOf(a, q, y)'
                      /\ PlaceOf(a, q, x) \in Nat /\ PlaceOf(a, q, y)' \in Nat
    <3>1. q.until = MaxTime /\ s.at >= summary[s.thread].at
      BY <1>0, <2>1, <2>4, <2>5 DEF Followed
    <3> QED
      BY <2>2, <3>1, UpsertMovesRowsBack
  <2>6. Cardinality(RowsOf(a, q)) \in Nat /\ Cardinality(RowsOf(a, q)') \in Nat
    <3>1. RowsWellFormed /\ RowsWellFormed'
      BY UpsertKeepsRInv, RInvImpliesRowsWellFormed, PTL
    <3>2. IsFiniteSet(RowsOf(a, q)) /\ IsFiniteSet(RowsOf(a, q)')
      BY <2>2, <3>1 DEF RowsWellFormed
    <3> QED
      BY <3>2, FS_CardinalityType
  <2>7. ASSUME Followed(reading'), NEW n \in Nat, NEW upto \in Nat, ShownUpTo(reading, n),
               n = upto \/ \A x \in RowsOf(a, q) : PlaceOf(a, q, x) <= n
        PROVE  ShownUpTo(reading, upto)'
    <3>1. ASSUME NEW y \in RowsOf(a, q)', PlaceOf(a, q, y)' <= upto
          PROVE  \/ y.key \in ToSet(reading.keys)
                 \/ ThreadsUnder(q, y.key) \cap (reading.touched \cup {s.thread}) # {}
      <4>1. CASE y.key = Grouping(q)[s.thread]
        <5>1. s.thread \in ThreadsUnder(q, y.key)
          BY <2>4, <4>1 DEF ThreadsUnder, Grouping
        <5> QED
          BY <5>1
      <4>2. CASE y.key # Grouping(q)[s.thread]
        <5>1. PICK x \in RowsOf(a, q) :
                /\ x.key = y.key
                /\ PlaceOf(a, q, x) <= PlaceOf(a, q, y)'
                /\ PlaceOf(a, q, x) \in Nat /\ PlaceOf(a, q, y)' \in Nat
          BY <2>5, <2>7, <4>2
        <5>2. PlaceOf(a, q, x) <= n
          BY <2>7, <3>1, <5>1
        <5>3. \/ x.key \in ToSet(reading.keys)
              \/ ThreadsUnder(q, x.key) \cap reading.touched # {}
          BY <1>0, <2>7, <5>2 DEF ShownUpTo
        <5> QED
          BY <5>1, <5>3
      <4> QED
        BY <4>1, <4>2
    <3> QED
      BY <1>0, <2>1, <2>3, <3>1 DEF ShownUpTo
  <2>8. \A x \in RowsOf(a, q) : PlaceOf(a, q, x) <= Cardinality(RowsOf(a, q))
    BY <2>2, <2>6, ReportInPlace
  <2>9. reading.page * page_size \in Nat
    BY BoundAssumption DEF RInv, IsReading
  <2>10. /\ reading'.keys \in Seq(KeyType(reading'.query)) /\ reading'.query \in Queries
         /\ reading'.phase # "not_found"
    BY <1>0, <1>2, <2>1, <2>2 DEF PagesInv
  <2>11. ASSUME reading'.phase = "pages", Followed(reading')
         PROVE  /\ reading'.page * page_size < RowCount(reading.query)'
                /\ ShownUpTo(reading, reading.page * page_size)'
    <3>1. PICK upto \in Nat : upto = reading.page * page_size
      BY <2>9
    <3>2. upto < Cardinality(RowsOf(a, q)) /\ ShownUpTo(reading, upto)
      BY <1>0, <2>1, <2>11, <3>1 DEF PagesInv, RowCount
    <3>3. upto < Cardinality(RowsOf(a, q)')
      BY <2>5, <2>6, <2>11, <3>2
    <3>4. ShownUpTo(reading, upto)'
      BY <2>7, <2>11, <3>2
    <3> QED
      BY <1>0, <2>1, <2>3, <3>1, <3>3, <3>4 DEF RowCount
  <2>12. ASSUME reading'.phase = "done", Followed(reading')
         PROVE  ShownUpTo(reading, RowCount(reading.query))'
    <3>1. PICK n \in Nat : n = Cardinality(RowsOf(a, q))
      BY <2>6
    <3>2. PICK upto \in Nat : upto = Cardinality(RowsOf(a, q)')
      BY <2>6
    <3>3. ShownUpTo(reading, n)
      BY <1>0, <2>1, <2>12, <3>1 DEF PagesInv, RowCount
    <3>4. ShownUpTo(reading, upto)'
      BY <2>7, <2>8, <2>12, <3>1, <3>3
    <3> QED
      BY <1>0, <2>1, <2>3, <3>2, <3>4 DEF RowCount
  <2> QED
    BY <2>10, <2>11, <2>12 DEF PagesInv
<1> QED
  BY <1>1, <1>2

LEMMA ReadingInvariant == Spec => []PagesInv
<1>1. Init => PagesInv
  BY DEF Init, NotReading, PagesInv
<1>2. RInv /\ PagesInv /\ [Next]_vars => PagesInv'
  <2> SUFFICES ASSUME RInv, PagesInv, [Next]_vars PROVE PagesInv'
    OBVIOUS
  <2>1. CASE UNCHANGED vars
    BY <2>1, PagesInvStays DEF vars
  <2>2. ASSUME NEW t \in Threads, Stamp(t) PROVE PagesInv'
    BY <2>2, PagesInvStays DEF Stamp
  <2>3. ASSUME NEW s \in stamped, upsert(s) PROVE PagesInv'
    BY <2>3, UpsertKeepsPagesInv
  <2>4. ASSUME NEW s \in stamped, Rollback(s) PROVE PagesInv'
    BY <2>4, PagesInvStays DEF Rollback
  <2>5. ASSUME NEW q \in Queries, FirstPage(q) PROVE PagesInv'
    BY <2>5, FirstPageKeepsPagesInv
  <2>6. CASE NextPage
    BY <2>6, NextPageKeepsPagesInv
  <2> QED
    BY <2>1, <2>2, <2>3, <2>4, <2>5, <2>6 DEF Next
<1> QED
  BY <1>1, <1>2, ReportsInvariant, PTL DEF Spec

\* However many refreshes commit in the meantime, following the links of a
\* report to its end leaves out no row but those refreshed since the first
\* page, and meets no 404.
THEOREM PagesReachTheEnd == Spec => []PagesAddUp
BY ReadingInvariant, ReportsInvariant, PagesInvImpliesPagesAddUp, PTL

\* The types hold; a summary is never made of no messages, and the keys read
\* so far are clients in a firm's report and firms in the global one.
THEOREM ReportsTypes == Spec => []TypeOK
<1>1. RInv /\ PagesInv => TypeOK
  <2> SUFFICES ASSUME RInv, PagesInv PROVE TypeOK
    OBVIOUS
  <2>1. /\ account \in Sessions /\ stamped \subseteq Stamps
        /\ \A t \in Threads : summary[t] \in Summaries
    BY DEF RInv, Typed
  <2>2. \A t \in Threads : summary[t].at = 0 <=> summary[t].emails = 0
    BY DEF RInv, NoneOfNothing
  <2>3. /\ reading.phase \in {"none", "pages", "done", "not_found", "forbidden"}
        /\ reading.query \in Queries \cup {NotReading.query} /\ reading.page \in Nat
        /\ reading.touched \subseteq Threads /\ reading.setBack \in BOOLEAN
    BY DEF RInv, IsReading
  <2>4. reading.keys \in Seq(IF reading.query.scope = "firm" THEN Clients ELSE Firms)
    BY DEF PagesInv, KeyType
  <2> QED
    BY <2>1, <2>2, <2>3, <2>4 DEF TypeOK, Stamps, Summaries
<1> QED
  BY <1>1, ReadingInvariant, ReportsInvariant, PTL

-----------------------------------------------------------------------------
(***************************************************************************)
(* Sums.  MapThenSumSet takes the elements of a set in the order in which  *)
(* CHOOSE gives them.  Its sum exists because the set is finite, and does  *)
(* not depend on the order.  What a recursive function says of every set   *)
(* is shown by way of a least set for which it would not hold.             *)
(***************************************************************************)
LEMMA LeastNat ==
  ASSUME NEW T \in SUBSET Nat, T # {}
  PROVE  \E n \in T : \A m \in T : n <= m
<1>1. PICK n \in T : \A m \in T : ~(<<m, n>> \in OpToRel(<, Nat))
  BY NatLessThanWellFounded, WFMin
<1>2. ASSUME NEW m \in T PROVE n <= m
  <2>1. <<m, n>> \notin OpToRel(<, Nat)
    BY <1>1
  <2>2. ~(m < n)
    BY <2>1 DEF OpToRel
  <2> QED
    BY <2>2
<1> QED
  BY <1>2

\* Of the subsets with some property, one has the fewest elements.
LEMMA LeastSubset ==
  ASSUME NEW S, IsFiniteSet(S), NEW C \in SUBSET (SUBSET S), C # {}
  PROVE  \E s \in C : \A u \in C : Cardinality(s) <= Cardinality(u)
<1> DEFINE T == {Cardinality(s) : s \in C}
<1>1. ASSUME NEW s \in C
      PROVE  Cardinality(s) \in Nat
  BY FS_Subset, FS_CardinalityType
<1>2. T \in SUBSET Nat /\ T # {}
  BY <1>1
<1>3. PICK n \in T : \A m \in T : n <= m
  <2> HIDE DEF T
  <2> QED
    BY <1>2, LeastNat
<1>4. PICK s \in C : n = Cardinality(s)
  BY <1>3
<1> QED
  BY <1>3, <1>4

\* A set, without one of its elements.
LEMMA OneLess ==
  ASSUME NEW S, IsFiniteSet(S), NEW s \in SUBSET S, NEW x \in s
  PROVE  /\ s \ {x} \in SUBSET S /\ IsFiniteSet(s)
         /\ Cardinality(s) \in Nat /\ Cardinality(s \ {x}) \in Nat
         /\ Cardinality(s) = Cardinality(s \ {x}) + 1
<1>1. IsFiniteSet(s)
  BY FS_Subset
<1>2. Cardinality(s) \in Nat /\ IsFiniteSet(s \ {x}) /\ Cardinality(s \ {x}) = Cardinality(s) - 1
  BY <1>1, FS_RemoveElement, FS_CardinalityType
<1>3. Cardinality(s \ {x}) \in Nat
  BY <1>2, FS_CardinalityType
<1> QED
  BY <1>1, <1>2, <1>3

Pick(s) == CHOOSE x \in s : TRUE

\* h gives, on the subsets in C, the sum of f.
SumsOn(h, f, C) ==
  h = [s \in C |-> IF s = {} THEN 0 ELSE f[Pick(s)] + h[s \ {Pick(s)}]]

LEMMA SumExists ==
  ASSUME NEW S, IsFiniteSet(S), NEW f
  PROVE  \E h : SumsOn(h, f, SUBSET S)
<1> DEFINE Upto(n) == {s \in SUBSET S : Cardinality(s) <= n}
           T == {n \in Nat : ~ \E h : SumsOn(h, f, Upto(n))}
<1>1. T = {}
  <2> SUFFICES ASSUME T # {} PROVE FALSE
    OBVIOUS
  <2>1. PICK n \in T : n \in Nat /\ \A m \in T : n <= m
    <3>1. T \in SUBSET Nat
      OBVIOUS
    <3> HIDE DEF T
    <3> QED
      BY <3>1, LeastNat
  <2>2. CASE n = 0
    <3>1. \A s \in Upto(0) : s = {}
      <4> SUFFICES ASSUME NEW s \in Upto(0), s # {} PROVE FALSE
        OBVIOUS
      <4>1. PICK x : x \in s
        OBVIOUS
      <4>2. s \in SUBSET S /\ Cardinality(s) <= 0
        OBVIOUS
      <4>3. Cardinality(s) \in Nat /\ Cardinality(s \ {x}) \in Nat
            /\ Cardinality(s) = Cardinality(s \ {x}) + 1
        BY <4>1, <4>2, OneLess
      <4> QED
        BY <4>2, <4>3
    <3> DEFINE h == [s \in Upto(0) |-> 0]
    <3>2. SumsOn(h, f, Upto(0))
      BY <3>1 DEF SumsOn
    <3> QED
      BY <2>2, <3>2
  <2>3. CASE n # 0
    <3>1. n - 1 \in Nat /\ n - 1 \notin T
      <4> HIDE DEF T
      <4> QED
        BY <2>1, <2>3
    <3>2. PICK h : SumsOn(h, f, Upto(n - 1))
      BY <3>1
    <3> DEFINE g == [s \in Upto(n) |-> IF s = {} THEN 0 ELSE f[Pick(s)] + h[s \ {Pick(s)}]]
    <3>3. ASSUME NEW s \in Upto(n), s # {}
          PROVE  g[s \ {Pick(s)}] = h[s \ {Pick(s)}]
      <4>1. Pick(s) \in s
        BY <3>3 DEF Pick
      <4>2. PICK u : u = s \ {Pick(s)}
        OBVIOUS
      <4>3. u \in SUBSET S /\ Cardinality(u) \in Nat /\ Cardinality(s) = Cardinality(u) + 1
        BY <4>1, <4>2, OneLess
      <4>4. u \in Upto(n - 1) /\ u \in Upto(n)
        BY <3>1, <4>3
      <4>5. h[u] = IF u = {} THEN 0 ELSE f[Pick(u)] + h[u \ {Pick(u)}]
        <5> HIDE DEF Upto
        <5> QED
          BY <3>2, <4>4 DEF SumsOn
      <4>6. g[u] = IF u = {} THEN 0 ELSE f[Pick(u)] + h[u \ {Pick(u)}]
        BY <4>4
      <4> QED
        BY <4>2, <4>5, <4>6
    <3>4. SumsOn(g, f, Upto(n))
      <4>1. g = [s \in Upto(n) |-> IF s = {} THEN 0 ELSE f[Pick(s)] + g[s \ {Pick(s)}]]
        <5>1. \A s \in Upto(n) : s # {} => g[s \ {Pick(s)}] = h[s \ {Pick(s)}]
          BY <3>3
        <5> HIDE DEF Upto
        <5> QED
          BY <5>1
      <4> QED
        BY <4>1 DEF SumsOn
    <3> QED
      BY <3>4
  <2> QED
    BY <2>2, <2>3
<1>2. Cardinality(S) \in Nat
  BY FS_CardinalityType
<1>3. PICK h : SumsOn(h, f, Upto(Cardinality(S)))
  BY <1>1, <1>2
<1>4. Upto(Cardinality(S)) = SUBSET S
  BY FS_Subset
<1> QED
  BY <1>3, <1>4

\* The sum of f over the subsets of S, in whatever order.
Adds(h, f, S) ==
  /\ h \in [SUBSET S -> Nat]
  /\ h[{}] = 0
  /\ \A s \in SUBSET S : \A x \in s : h[s] = f[x] + h[s \ {x}]

LEMMA SumAdds ==
  ASSUME NEW S, IsFiniteSet(S), NEW f \in [S -> Nat], NEW h, SumsOn(h, f, SUBSET S)
  PROVE  Adds(h, f, S)
<1>1. \A s \in SUBSET S : h[s] = IF s = {} THEN 0 ELSE f[Pick(s)] + h[s \ {Pick(s)}]
  BY DEF SumsOn
<1>2. DOMAIN h = SUBSET S /\ h[{}] = 0
  BY <1>1 DEF SumsOn
<1>3. \A s \in SUBSET S : s # {} => Pick(s) \in s
  BY DEF Pick
<1>4. \A s \in SUBSET S : h[s] \in Nat
  <2> DEFINE C == {s \in SUBSET S : h[s] \notin Nat}
  <2> SUFFICES ASSUME C # {} PROVE FALSE
    OBVIOUS
  <2>1. PICK s \in C : \A u \in C : Cardinality(s) <= Cardinality(u)
    <3>1. C \in SUBSET (SUBSET S)
      OBVIOUS
    <3> HIDE DEF C
    <3> QED
      BY <3>1, LeastSubset
  <2>2. s # {}
    BY <1>2
  <2>3. PICK p \in s, u \in SUBSET S : p = Pick(s) /\ u = s \ {p}
    BY <1>3, <2>2
  <2>4. Cardinality(u) \in Nat /\ Cardinality(s) = Cardinality(u) + 1
    BY <2>3, OneLess
  <2>5. u \notin C
    <3> HIDE DEF C
    <3> QED
      BY <2>1, <2>4
  <2>6. h[u] \in Nat /\ f[p] \in Nat /\ h[s] = f[p] + h[u]
    BY <1>1, <2>2, <2>3, <2>5
  <2> QED
    BY <2>6
<1>5. ASSUME NEW s \in SUBSET S, NEW x \in s
      PROVE  h[s] = f[x] + h[s \ {x}]
  <2> DEFINE C == {u \in SUBSET S : \E y \in u : h[u] # f[y] + h[u \ {y}]}
  <2> SUFFICES ASSUME C # {} PROVE FALSE
    OBVIOUS
  <2>1. PICK u \in C : \A v \in C : Cardinality(u) <= Cardinality(v)
    <3>1. C \in SUBSET (SUBSET S)
      OBVIOUS
    <3> HIDE DEF C
    <3> QED
      BY <3>1, LeastSubset
  <2>2. PICK y \in u : h[u] # f[y] + h[u \ {y}]
    BY <2>1
  <2>3. PICK p \in u : p = Pick(u)
    BY <1>3, <2>2
  <2>4. h[u] = f[p] + h[u \ {p}]
    BY <1>1, <2>2, <2>3
  <2>5. p # y
    BY <2>2, <2>4
  <2>6. PICK v \in SUBSET S, w \in SUBSET S, z \in SUBSET S :
          v = u \ {p} /\ w = u \ {y} /\ z = (u \ {p}) \ {y}
    OBVIOUS
  <2>7. /\ Cardinality(u) \in Nat /\ Cardinality(v) \in Nat /\ Cardinality(w) \in Nat
        /\ Cardinality(u) = Cardinality(v) + 1 /\ Cardinality(u) = Cardinality(w) + 1
    BY <2>6, OneLess
  <2>8. v \notin C /\ w \notin C
    <3> HIDE DEF C
    <3> QED
      BY <2>1, <2>7
  <2>9. h[v] = f[y] + h[z]
    <3>1. y \in v /\ v \ {y} = z
      BY <2>5, <2>6
    <3> QED
      BY <2>8, <3>1
  <2>10. h[w] = f[p] + h[z]
    <3>1. p \in w /\ w \ {p} = z
      BY <2>5, <2>6
    <3> QED
      BY <2>8, <3>1
  <2>11. /\ h[u] = f[p] + h[v] /\ h[u] # f[y] + h[w]
         /\ h[z] \in Nat /\ f[p] \in Nat /\ f[y] \in Nat
    BY <1>4, <2>2, <2>4, <2>6
  <2> QED
    BY <2>9, <2>10, <2>11
<1> QED
  BY <1>2, <1>4, <1>5 DEF Adds, SumsOn

\* Two sums of what agrees on a set agree on it.
LEMMA SumsAgree ==
  ASSUME NEW S, NEW U, IsFiniteSet(S), S \subseteq U, NEW f, NEW g, NEW h, NEW k,
         Adds(h, f, U), Adds(k, g, S), \A x \in S : f[x] = g[x]
  PROVE  \A s \in SUBSET S : h[s] = k[s]
<1> DEFINE C == {s \in SUBSET S : h[s] # k[s]}
<1> SUFFICES ASSUME C # {} PROVE FALSE
  OBVIOUS
<1>1. PICK s \in C : \A u \in C : Cardinality(s) <= Cardinality(u)
  <2>1. C \in SUBSET (SUBSET S)
    OBVIOUS
  <2> HIDE DEF C
  <2> QED
    BY <2>1, LeastSubset
<1>2. CASE s = {}
  BY <1>2 DEF Adds
<1>3. ASSUME NEW x \in s PROVE FALSE
  <2>1. PICK u \in SUBSET S : u = s \ {x}
    OBVIOUS
  <2>2. Cardinality(u) \in Nat /\ Cardinality(s) = Cardinality(u) + 1
    BY <2>1, OneLess
  <2>3. u \notin C
    <3> HIDE DEF C
    <3> QED
      BY <1>1, <2>2
  <2>4. h[s] = f[x] + h[u] /\ k[s] = g[x] + k[u]
    BY <2>1 DEF Adds
  <2> QED
    BY <2>3, <2>4
<1> QED
  BY <1>2, <1>3

LEMMA SumOfBoth ==
  ASSUME NEW S, IsFiniteSet(S), NEW f \in [S -> Nat], NEW h, Adds(h, f, S), NEW b \in SUBSET S
  PROVE  \A a \in SUBSET S : a \cap b = {} => h[a \cup b] = h[a] + h[b]
<1> DEFINE C == {a \in SUBSET S : a \cap b = {} /\ h[a \cup b] # h[a] + h[b]}
<1> SUFFICES ASSUME C # {} PROVE FALSE
  OBVIOUS
<1>1. PICK a \in C : \A u \in C : Cardinality(a) <= Cardinality(u)
  <2>1. C \in SUBSET (SUBSET S)
    OBVIOUS
  <2> HIDE DEF C
  <2> QED
    BY <2>1, LeastSubset
<1>2. \A s \in SUBSET S : h[s] \in Nat
  BY DEF Adds
<1>3. CASE a = {}
  <2>1. h[a \cup b] = h[b]
    <3>1. a \cup b = b
      BY <1>3
    <3> QED
      BY <3>1
  <2>2. h[a] = 0 /\ h[b] \in Nat
    BY <1>2, <1>3 DEF Adds
  <2>3. h[a] + h[b] = h[b]
    <3> HIDE DEF C
    <3> QED
      BY <2>2
  <2>4. h[a \cup b] # h[a] + h[b]
    OBVIOUS
  <2> QED
    BY <2>1, <2>3, <2>4
<1>4. ASSUME NEW x \in a PROVE FALSE
  <2>1. PICK u \in SUBSET S : u = a \ {x}
    OBVIOUS
  <2>2. Cardinality(u) \in Nat /\ Cardinality(a) = Cardinality(u) + 1
    BY <2>1, OneLess
  <2>3. u \notin C
    <3> HIDE DEF C
    <3> QED
      BY <1>1, <2>2
  <2>4. h[u \cup b] = h[u] + h[b]
    BY <2>1, <2>3
  <2>5. h[a] = f[x] + h[u]
    <3>1. a \in SUBSET S
      OBVIOUS
    <3> HIDE DEF C
    <3> QED
      BY <2>1, <3>1 DEF Adds
  <2>6. PICK ab \in SUBSET S : ab = a \cup b
    OBVIOUS
  <2>7. x \in ab /\ ab \ {x} = u \cup b
    BY <2>1, <2>6
  <2>8. h[ab] = f[x] + h[u \cup b]
    <3>1. h[ab] = f[x] + h[ab \ {x}]
      <4> HIDE DEF C
      <4> QED
        BY <2>7 DEF Adds
    <3> QED
      BY <2>7, <3>1
  <2>9. f[x] \in Nat /\ h[u] \in Nat /\ h[b] \in Nat
    BY <1>2
  <2>10. h[ab] # h[a] + h[b]
    BY <2>6
  <2>11. h[a] + h[b] = f[x] + (h[u] + h[b])
    BY <2>5, <2>9
  <2> QED
    BY <2>4, <2>8, <2>10, <2>11
<1> QED
  BY <1>3, <1>4

\* A sum of the sums of parts that do not meet is the sum of the whole.
LEMMA SumOfParts ==
  ASSUME NEW S, IsFiniteSet(S), NEW f \in [S -> Nat], NEW h, Adds(h, f, S),
         NEW R, IsFiniteSet(R), NEW part \in [R -> SUBSET S],
         \A r, z \in R : r # z => part[r] \cap part[z] = {},
         NEW k, NEW g, Adds(k, g, R), \A r \in R : g[r] = h[part[r]]
  PROVE  \A s \in SUBSET R : k[s] = h[UNION {part[r] : r \in s}]
<1> DEFINE Whole(s) == UNION {part[r] : r \in s}
           C == {s \in SUBSET R : k[s] # h[Whole(s)]}
<1> SUFFICES ASSUME C # {} PROVE FALSE
  OBVIOUS
<1>1. PICK s \in C : \A u \in C : Cardinality(s) <= Cardinality(u)
  <2>1. C \in SUBSET (SUBSET R)
    OBVIOUS
  <2> HIDE DEF C
  <2> QED
    BY <2>1, LeastSubset
<1>2. CASE s = {}
  <2>1. Whole(s) = {} /\ k[s] = 0 /\ h[{}] = 0
    BY <1>2 DEF Adds
  <2> QED
    BY <2>1
<1>3. ASSUME NEW x \in s PROVE FALSE
  <2>1. PICK u \in SUBSET R : u = s \ {x}
    OBVIOUS
  <2>2. Cardinality(u) \in Nat /\ Cardinality(s) = Cardinality(u) + 1
    BY <2>1, OneLess
  <2>3. u \notin C
    <3> HIDE DEF C
    <3> QED
      BY <1>1, <2>2
  <2>4. k[s] = h[part[x]] + k[u] /\ k[u] = h[Whole(u)]
    <3>1. k[s] = g[x] + k[u] /\ x \in R
      BY <2>1 DEF Adds
    <3> QED
      BY <2>3, <3>1
  <2>5. PICK p \in SUBSET S, w \in SUBSET S : p = part[x] /\ w = Whole(u)
    <3>1. x \in R /\ u \subseteq R
      OBVIOUS
    <3>2. part[x] \in SUBSET S /\ Whole(u) \in SUBSET S
      BY <3>1
    <3> HIDE DEF Whole
    <3> QED
      BY <3>2
  <2>6. Whole(s) = p \cup w /\ p \cap w = {}
    BY <2>1, <2>5
  <2> HIDE DEF Whole
  <2>7. h[p \cup w] = h[p] + h[w]
    BY <2>6, SumOfBoth
  <2>8. k[s] # h[Whole(s)]
    OBVIOUS
  <2> QED
    BY <2>4, <2>5, <2>6, <2>7, <2>8
<1> QED
  BY <1>2, <1>3

\* The number of elements is a sum of ones.
LEMMA CountAdds ==
  ASSUME NEW S, IsFiniteSet(S)
  PROVE  Adds([s \in SUBSET S |-> Cardinality(s)], [x \in S |-> 1], S)
<1> DEFINE h == [s \in SUBSET S |-> Cardinality(s)]
           f == [x \in S |-> 1]
<1>1. \A s \in SUBSET S : Cardinality(s) \in Nat
  BY FS_Subset, FS_CardinalityType
<1>2. h \in [SUBSET S -> Nat] /\ h[{}] = 0
  BY <1>1, FS_EmptySet
<1>3. ASSUME NEW s \in SUBSET S, NEW x \in s
      PROVE  h[s] = f[x] + h[s \ {x}]
  BY OneLess
<1> QED
  BY <1>2, <1>3 DEF Adds

-----------------------------------------------------------------------------
(***************************************************************************)
(* The three sums of the reports.                                          *)
(***************************************************************************)
LEMMA EmailsAddUp ==
  ASSUME NEW T, IsFiniteSet(T), NEW f \in [T -> Nat], \A t \in T : f[t] = summary[t].emails
  PROVE  \E h : Adds(h, f, T) /\ MapThenSumSet(LAMBDA t : summary[t].emails, T) = h[T]
<1> DEFINE Eq(h) == h = [s \in SUBSET T |->
                           IF s = {} THEN 0 ELSE summary[Pick(s)].emails + h[s \ {Pick(s)}]]
           g == CHOOSE h : Eq(h)
<1>1. PICK h : SumsOn(h, f, SUBSET T)
  BY SumExists
<1>2. \A s \in SUBSET T : s # {} => f[Pick(s)] = summary[Pick(s)].emails
  BY DEF Pick
<1>3. Eq(h)
  BY <1>1, <1>2 DEF SumsOn
<1>4. Eq(g)
  BY <1>3
<1>5. MapThenSumSet(LAMBDA t : summary[t].emails, T) = g[T]
  BY DEF MapThenSumSet, MapThenFoldSet, Pick
<1> HIDE DEF g
<1>6. SumsOn(g, f, SUBSET T)
  BY <1>2, <1>4 DEF SumsOn
<1> QED
  BY <1>5, <1>6, SumAdds

LEMMA CountsAddUp ==
  ASSUME NEW R, IsFiniteSet(R), NEW f \in [R -> Nat], \A c \in R : f[c] = c.summary_count
  PROVE  \E h : Adds(h, f, R) /\ MapThenSumSet(LAMBDA c : c.summary_count, R) = h[R]
<1> DEFINE Eq(h) == h = [s \in SUBSET R |->
                           IF s = {} THEN 0 ELSE Pick(s).summary_count + h[s \ {Pick(s)}]]
           g == CHOOSE h : Eq(h)
<1>1. PICK h : SumsOn(h, f, SUBSET R)
  BY SumExists
<1>2. \A s \in SUBSET R : s # {} => f[Pick(s)] = Pick(s).summary_count
  BY DEF Pick
<1>3. Eq(h)
  BY <1>1, <1>2 DEF SumsOn
<1>4. Eq(g)
  BY <1>3
<1>5. MapThenSumSet(LAMBDA c : c.summary_count, R) = g[R]
  BY DEF MapThenSumSet, MapThenFoldSet, Pick
<1> HIDE DEF g
<1>6. SumsOn(g, f, SUBSET R)
  BY <1>2, <1>4 DEF SumsOn
<1> QED
  BY <1>5, <1>6, SumAdds

LEMMA TotalsAddUp ==
  ASSUME NEW R, IsFiniteSet(R), NEW f \in [R -> Nat], \A c \in R : f[c] = c.total_emails_analyzed
  PROVE  \E h : Adds(h, f, R) /\ MapThenSumSet(LAMBDA c : c.total_emails_analyzed, R) = h[R]
<1> DEFINE Eq(h) == h = [s \in SUBSET R |->
                           IF s = {} THEN 0
                           ELSE Pick(s).total_emails_analyzed + h[s \ {Pick(s)}]]
           g == CHOOSE h : Eq(h)
<1>1. PICK h : SumsOn(h, f, SUBSET R)
  BY SumExists
<1>2. \A s \in SUBSET R : s # {} => f[Pick(s)] = Pick(s).total_emails_analyzed
  BY DEF Pick
<1>3. Eq(h)
  BY <1>1, <1>2 DEF SumsOn
<1>4. Eq(g)
  BY <1>3
<1>5. MapThenSumSet(LAMBDA c : c.total_emails_analyzed, R) = g[R]
  BY DEF MapThenSumSet, MapThenFoldSet, Pick
<1> HIDE DEF g
<1>6. SumsOn(g, f, SUBSET R)
  BY <1>2, <1>4 DEF SumsOn
<1> QED
  BY <1>5, <1>6, SumAdds

-----------------------------------------------------------------------------
(***************************************************************************)
(* A firm's row and the rows of its clients.                               *)
(***************************************************************************)
Emails(T) == MapThenSumSet(LAMBDA t : summary[t].emails, T)

LEMMA MoreRowFields ==
  ASSUME NEW q, NEW k, NEW T
  PROVE  /\ q.scope # "firm" =>
              Row(q, k, T).client_count = Cardinality({ThreadClient[t] : t \in T})
         /\ Row(q, k, T).total_emails_analyzed = Emails(T)
BY DEF Row, client_row, firm_row, Emails

LEMMA ReportIsItsRows ==
  ASSUME RInv, NEW a, NEW q \in Queries
  PROVE  ToSet(ReportRows(a, q)) = RowsOf(a, q)
<1> DEFINE rows == ReportRows(a, q)
           n == Cardinality(RowsOf(a, q))
<1>1. /\ DOMAIN rows = 1..n
      /\ \A i \in 1..n : rows[i] \in RowsOf(a, q)
      /\ \A r \in RowsOf(a, q) : PlaceOf(a, q, r) \in 1..n /\ rows[PlaceOf(a, q, r)] = r
  BY ReportInPlace
<1> HIDE DEF rows, n
<1> QED
  BY <1>1 DEF ToSet, rows

\* The firm's own report for the dates of q, asked for by an account of firm f.
Of(f) == [firm_id |-> f]
OwnQuery(q) == [scope |-> "firm", since |-> q.since, until |-> q.until]

LEMMA OwnReport ==
  ASSUME RInv, NEW f, NEW q \in Queries
  PROVE  /\ OwnQuery(q) \in Queries
         /\ Asked(Of(f), OwnQuery(q)) = OfFirm(f, q)
         /\ Grouping(OwnQuery(q)) = ThreadClient
         /\ ToSet(firm_clients_with_summaries(f, q)) = RowsOf(Of(f), OwnQuery(q))
<1>1. OwnQuery(q) \in Queries /\ OwnQuery(q).scope = "firm" /\ Of(f).firm_id = f
  BY DEF Queries, OwnQuery, Of
<1>2. apply_date_filter(OwnQuery(q)) = apply_date_filter(q)
  BY DEF apply_date_filter, OwnQuery
<1>3. OfFirm(f, OwnQuery(q)) = OfFirm(f, q)
  BY <1>2 DEF OfFirm
<1>4. ReportRows(Of(f), OwnQuery(q)) = firm_clients_with_summaries(f, q)
  BY <1>1, <1>3 DEF ReportRows, firm_clients_with_summaries
<1>5. ToSet(ReportRows(Of(f), OwnQuery(q))) = RowsOf(Of(f), OwnQuery(q))
  BY <1>1, ReportIsItsRows
<1> QED
  BY <1>1, <1>3, <1>4, <1>5 DEF Asked, Grouping

\* The rows of a firm's own report part the threads of the global row.
Parted(own, G) ==
  /\ IsFiniteSet(G) /\ IsFiniteSet(own) /\ G \in SUBSET Threads
  /\ \A c \in own : /\ c.summaries \in SUBSET G /\ c.summaries # {}
                    /\ \A t \in c.summaries : ThreadClient[t] = c.key
                    /\ c.summary_count = Cardinality(c.summaries)
                    /\ c.total_emails_analyzed = Emails(c.summaries)
                    /\ c.last_summarized = Latest(c.summaries)
  /\ \A c, d \in own : c.key = d.key => c = d
  /\ \A t \in G : \E c \in own : t \in c.summaries

LEMMA ClientsPartTheFirm ==
  ASSUME RInv, NEW f, NEW q \in Queries
  PROVE  Parted(RowsOf(Of(f), OwnQuery(q)), OfFirm(f, q))
<1> DEFINE a == Of(f)
           p == OwnQuery(q)
           G == OfFirm(f, q)
<1>1. p \in Queries /\ Asked(a, p) = G /\ Grouping(p) = ThreadClient
  BY OwnReport
<1> HIDE DEF a, p
<1>2. /\ IsFiniteSet(G) /\ IsFiniteSet(RowsOf(a, p)) /\ G \in SUBSET Threads
      /\ \A r, s \in RowsOf(a, p) : r.key = s.key => r = s
  BY <1>1, RowsAreGroups
<1>3. \A k : Group(a, p, k) = {t \in G : ThreadClient[t] = k}
  BY <1>1 DEF Group
<1>4. KeysOf(a, p) = {ThreadClient[t] : t \in G}
  BY <1>1 DEF KeysOf
<1> HIDE DEF G
<1>5. ASSUME NEW c \in RowsOf(a, p)
      PROVE  /\ c.summaries \in SUBSET G /\ c.summaries # {}
             /\ \A t \in c.summaries : ThreadClient[t] = c.key
             /\ c.summary_count = Cardinality(c.summaries)
             /\ c.total_emails_analyzed = Emails(c.summaries)
             /\ c.last_summarized = Latest(c.summaries)
  <2>1. PICK k \in KeysOf(a, p) : c = Row(p, k, Group(a, p, k))
    BY DEF RowsOf
  <2>2. /\ c.key = k /\ c.summaries = Group(a, p, k)
        /\ c.summary_count = Cardinality(Group(a, p, k))
        /\ c.last_summarized = Latest(Group(a, p, k))
        /\ c.total_emails_analyzed = Emails(Group(a, p, k))
    <3>1. PICK T : T = Group(a, p, k)
      OBVIOUS
    <3>2. /\ Row(p, k, T).key = k /\ Row(p, k, T).summaries = T
          /\ Row(p, k, T).summary_count = Cardinality(T)
          /\ Row(p, k, T).last_summarized = Latest(T)
      BY RowFields
    <3>3. Row(p, k, T).total_emails_analyzed = Emails(T)
      BY MoreRowFields
    <3> QED
      BY <2>1, <3>1, <3>2, <3>3
  <2>3. Group(a, p, k) # {}
    BY <1>1, RowsAreGroups
  <2> QED
    BY <2>2, <2>3, <1>3
<1>6. ASSUME NEW t \in G
      PROVE  \E c \in RowsOf(a, p) : t \in c.summaries
  <2> DEFINE k == ThreadClient[t]
  <2>1. Row(p, k, Group(a, p, k)) \in RowsOf(a, p)
    BY <1>4 DEF RowsOf
  <2>2. Row(p, k, Group(a, p, k)).summaries = Group(a, p, k)
    BY RowFields
  <2>3. t \in Group(a, p, k)
    BY <1>3
  <2> QED
    BY <2>1, <2>2, <2>3
<1>7. Parted(RowsOf(a, p), G)
  BY <1>2, <1>5, <1>6 DEF Parted
<1> QED
  BY <1>7 DEF a, p, G

LEMMA PartsMakeTheWhole ==
  ASSUME NEW own, NEW G, Parted(own, G)
  PROVE  /\ G = UNION {c.summaries : c \in own}
         /\ \A c, d \in own : c # d => c.summaries \cap d.summaries = {}
BY DEF Parted

\* The sums over the clients of a firm are those over its threads.
LEMMA CountsOfParts ==
  ASSUME NEW own, NEW G, Parted(own, G)
  PROVE  Cardinality(G) = MapThenSumSet(LAMBDA c : c.summary_count, own)
<1> DEFINE part == [c \in own |-> c.summaries]
           h == [s \in SUBSET G |-> Cardinality(s)]
           ones == [t \in G |-> 1]
           g == [c \in own |-> c.summary_count]
<1>1. IsFiniteSet(G) /\ IsFiniteSet(own) /\ part \in [own -> SUBSET G]
  BY DEF Parted
<1>2. \A c, d \in own : c # d => part[c] \cap part[d] = {}
  BY PartsMakeTheWhole
<1>3. ones \in [G -> Nat] /\ Adds(h, ones, G)
  BY <1>1, CountAdds
<1>4. \A c \in own : g[c] = h[part[c]]
  BY DEF Parted
<1>5. g \in [own -> Nat]
  <2>1. \A c \in own : c.summary_count \in Nat
    BY <1>1, FS_Subset, FS_CardinalityType DEF Parted
  <2> QED
    BY <2>1
<1>6. PICK k : Adds(k, g, own) /\ MapThenSumSet(LAMBDA c : c.summary_count, own) = k[own]
  BY <1>1, <1>5, CountsAddUp
<1>7. UNION {part[c] : c \in own} = G
  BY PartsMakeTheWhole
<1>8. h[G] = Cardinality(G)
  OBVIOUS
<1> HIDE DEF part, h, ones, g
<1>9. k[own] = h[UNION {part[c] : c \in own}]
  BY <1>1, <1>2, <1>3, <1>4, <1>6, SumOfParts
<1> QED
  BY <1>6, <1>7, <1>8, <1>9

LEMMA EmailsOfParts ==
  ASSUME RInv, NEW own, NEW G, Parted(own, G)
  PROVE  Emails(G) = MapThenSumSet(LAMBDA c : c.total_emails_analyzed, own)
<1> DEFINE part == [c \in own |-> c.summaries]
           f == [t \in G |-> summary[t].emails]
           g == [c \in own |-> c.total_emails_analyzed]
<1>1. IsFiniteSet(G) /\ IsFiniteSet(own) /\ part \in [own -> SUBSET G]
  BY DEF Parted
<1>2. \A c, d \in own : c # d => part[c] \cap part[d] = {}
  BY PartsMakeTheWhole
<1>3. f \in [G -> Nat]
  BY DEF Parted, RInv, Typed, Summaries
<1>4. PICK h : Adds(h, f, G) /\ Emails(G) = h[G]
  BY <1>1, <1>3, EmailsAddUp DEF Emails
<1>5. ASSUME NEW c \in own
      PROVE  g[c] = h[part[c]] /\ g[c] \in Nat
  <2>1. PICK T \in SUBSET G : T = part[c] /\ g[c] = Emails(T)
    BY DEF Parted
  <2>2. IsFiniteSet(T)
    BY <1>1, FS_Subset
  <2> DEFINE e == [t \in T |-> summary[t].emails]
  <2>3. e \in [T -> Nat] /\ \A t \in T : e[t] = f[t] /\ e[t] = summary[t].emails
    BY <1>3
  <2> HIDE DEF e, f
  <2>4. PICK k : Adds(k, e, T) /\ Emails(T) = k[T]
    BY <2>2, <2>3, EmailsAddUp DEF Emails
  <2>5. h[T] = k[T]
    BY <1>4, <2>2, <2>3, <2>4, SumsAgree
  <2>6. k[T] \in Nat
    BY <2>4 DEF Adds
  <2> QED
    BY <2>1, <2>4, <2>5, <2>6
<1>6. g \in [own -> Nat]
  <2>1. \A c \in own : c.total_emails_analyzed \in Nat
    BY <1>5
  <2> QED
    BY <2>1
<1>7. PICK k : Adds(k, g, own)
              /\ MapThenSumSet(LAMBDA c : c.total_emails_analyzed, own) = k[own]
  BY <1>1, <1>6, TotalsAddUp
<1>8. UNION {part[c] : c \in own} = G
  BY PartsMakeTheWhole
<1> HIDE DEF part, f, g
<1>9. k[own] = h[UNION {part[c] : c \in own}]
  BY <1>1, <1>2, <1>3, <1>4, <1>5, <1>7, SumOfParts
<1> QED
  BY <1>4, <1>7, <1>8, <1>9

LEMMA ClientsOfParts ==
  ASSUME NEW own, NEW G, Parted(own, G)
  PROVE  Cardinality({ThreadClient[t] : t \in G}) = Cardinality(own)
<1> DEFINE keys == {ThreadClient[t] : t \in G}
           key == [c \in own |-> c.key]
<1>1. \A c \in own : c.key \in keys
  BY DEF Parted
<1>2. \A k \in keys : \E c \in own : c.key = k
  BY DEF Parted
<1>3. key \in [own -> keys] /\ (\A k \in keys : \E c \in own : key[c] = k)
  BY <1>1, <1>2
<1>4. \A c, d \in own : key[c] = key[d] => c = d
  BY DEF Parted
<1>5. IsFiniteSet(own)
  BY DEF Parted
<1> HIDE DEF keys, key
<1>6. key \in Surjection(own, keys)
  BY <1>3 DEF Surjection
<1>7. key \in Injection(own, keys)
  BY <1>3, <1>4, Fun_IsInj
<1>8. Cardinality(keys) = Cardinality(own)
  BY <1>5, <1>6, <1>7, FS_Surjection
<1> QED
  BY <1>8 DEF keys

LEMMA LatestOfParts ==
  ASSUME RInv, NEW own, NEW G, Parted(own, G), G # {}
  PROVE  Latest(G) = Max({c.last_summarized : c \in own})
<1> DEFINE L == {c.last_summarized : c \in own}
<1>1. ASSUME NEW c \in own
      PROVE  /\ c.last_summarized \in Nat
             /\ \E t \in c.summaries : t \in G /\ summary[t].at = c.last_summarized
             /\ \A t \in c.summaries : summary[t].at <= c.last_summarized
  <2>1. PICK T \in SUBSET G : /\ T # {} /\ T = c.summaries /\ T \in SUBSET Threads
                              /\ c.last_summarized = Latest(T)
    BY DEF Parted
  <2> QED
    BY <2>1, LatestIsOneOfThem
<1>2. /\ Latest(G) \in Nat
      /\ \E t \in G : summary[t].at = Latest(G)
      /\ \A t \in G : summary[t].at <= Latest(G)
  BY LatestIsOneOfThem DEF Parted
<1>3. \A c \in own : c.last_summarized <= Latest(G)
  BY <1>1, <1>2
<1>4. \E c \in own : Latest(G) <= c.last_summarized
  BY <1>1, <1>2 DEF Parted
<1>5. L \in SUBSET Nat /\ L # {} /\ \A x \in L : x <= Latest(G)
  BY <1>1, <1>3, <1>4
<1>6. \E x \in L : Latest(G) <= x
  BY <1>4
<1> HIDE DEF L
<1>7. Max(L) \in L /\ \A x \in L : x <= Max(L)
  BY <1>2, <1>5, MaxIsReached
<1>8. Max(L) \in Nat /\ Max(L) <= Latest(G) /\ Latest(G) <= Max(L)
  <2>1. PICK x \in L : Latest(G) <= x
    BY <1>6
  <2>2. x \in Nat /\ Max(L) \in Nat /\ x <= Max(L) /\ Max(L) <= Latest(G)
    BY <1>5, <1>7
  <2> QED
    BY <1>2, <2>1, <2>2
<1> QED
  BY <1>2, <1>8 DEF L

LEMMA TheFirmsRow ==
  ASSUME RInv, NEW f, NEW q \in Queries, q.scope = "global"
  PROVE  {r \in ToSet(global_grouped_by_firm(q)) : r.key = f}
           = IF OfFirm(f, q) = {} THEN {} ELSE {Row(q, f, OfFirm(f, q))}
<1> DEFINE a == Of(f)
           rows == RowsOf(a, q)
<1>1. ToSet(global_grouped_by_firm(q)) = rows
  <2>1. ReportRows(a, q) = global_grouped_by_firm(q)
    BY DEF ReportRows
  <2> QED
    BY <2>1, ReportIsItsRows
<1>2. Asked(a, q) = apply_date_filter(q) /\ apply_date_filter(q) \subseteq Threads
  BY DEF Asked, apply_date_filter
<1>3. \A t \in Asked(a, q) : Grouping(q)[t] = ThreadFirm(t)
  BY <1>2 DEF Grouping
<1>4. Group(a, q, f) = OfFirm(f, q)
  BY <1>2, <1>3 DEF Group, OfFirm
<1>5. f \in KeysOf(a, q) <=> OfFirm(f, q) # {}
  BY <1>2, <1>3 DEF KeysOf, OfFirm
<1>6. \A k : Row(q, k, Group(a, q, k)).key = k
  BY RowFields
<1>7. {r \in rows : r.key = f}
        = IF f \in KeysOf(a, q) THEN {Row(q, f, Group(a, q, f))} ELSE {}
  BY <1>6 DEF RowsOf
<1> QED
  BY <1>1, <1>4, <1>5, <1>7

LEMMA RInvImpliesReportsAgree == RInv => ReportsAgree
<1> SUFFICES ASSUME RInv, NEW q \in Queries, q.scope = "global", NEW f \in Firms
             PROVE  LET own == ToSet(firm_clients_with_summaries(f, q))
                        global == {r \in ToSet(global_grouped_by_firm(q)) : r.key = f}
                    IN /\ Cardinality(global) = IF own = {} THEN 0 ELSE 1
                       /\ \A r \in global :
                            /\ r.summaries = UNION {c.summaries : c \in own}
                            /\ r.summary_count = MapThenSumSet(LAMBDA c : c.summary_count, own)
                            /\ r.client_count = Cardinality(own)
                            /\ r.total_emails_analyzed =
                                 MapThenSumSet(LAMBDA c : c.total_emails_analyzed, own)
                            /\ r.last_summarized = Max({c.last_summarized : c \in own})
  BY DEF ReportsAgree
<1> DEFINE own == ToSet(firm_clients_with_summaries(f, q))
           global == {r \in ToSet(global_grouped_by_firm(q)) : r.key = f}
           G == OfFirm(f, q)
<1>1. Parted(own, G)
  BY OwnReport, ClientsPartTheFirm
<1>2. global = IF G = {} THEN {} ELSE {Row(q, f, G)}
  BY TheFirmsRow
<1> HIDE DEF own, global, G
<1>3. own = {} <=> G = {}
  BY <1>1 DEF Parted
<1>4. Cardinality(global) = IF own = {} THEN 0 ELSE 1
  BY <1>2, <1>3, FS_EmptySet, FS_Singleton
<1>5. ASSUME NEW r \in global
      PROVE  /\ r.summaries = UNION {c.summaries : c \in own}
             /\ r.summary_count = MapThenSumSet(LAMBDA c : c.summary_count, own)
             /\ r.client_count = Cardinality(own)
             /\ r.total_emails_analyzed = MapThenSumSet(LAMBDA c : c.total_emails_analyzed, own)
             /\ r.last_summarized = Max({c.last_summarized : c \in own})
  <2>1. G # {} /\ r = Row(q, f, G)
    BY <1>2
  <2>2. /\ r.summaries = G /\ r.summary_count = Cardinality(G)
        /\ r.client_count = Cardinality({ThreadClient[t] : t \in G})
        /\ r.total_emails_analyzed = Emails(G)
        /\ r.last_summarized = Latest(G)
    BY <2>1, RowFields, MoreRowFields
  <2>3. r.summaries = UNION {c.summaries : c \in own}
    BY <1>1, <2>2, PartsMakeTheWhole
  <2>4. r.summary_count = MapThenSumSet(LAMBDA c : c.summary_count, own)
    BY <1>1, <2>2, CountsOfParts
  <2>5. r.client_count = Cardinality(own)
    BY <1>1, <2>2, ClientsOfParts
  <2>6. r.total_emails_analyzed = MapThenSumSet(LAMBDA c : c.total_emails_analyzed, own)
    BY <1>1, <2>2, EmailsOfParts
  <2>7. r.last_summarized = Max({c.last_summarized : c \in own})
    BY <1>1, <2>1, <2>2, LatestOfParts
  <2> QED
    BY <2>3, <2>4, <2>5, <2>6, <2>7
<1> QED
  BY <1>4, <1>5 DEF own, global

(***************************************************************************)
(* A firm's row in the global report is the sum of the rows of its clients *)
(* in the firm's own report for the same dates, and is there exactly when  *)
(* that has any.                                                           *)
(***************************************************************************)
THEOREM ReportsSumUp == Spec => []ReportsAgree
BY ReportsInvariant, RInvImpliesReportsAgree, PTL
===============================================================================
