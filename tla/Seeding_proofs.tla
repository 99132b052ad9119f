----------------------------- MODULE Seeding_proofs -----------------------------
(***************************************************************************)
(* Proofs about Seeding, for any number of runs, any scenarios and either  *)
(* engine.                                                                 *)
(***************************************************************************)
EXTENDS Seeding, FunctionTheorems, FiniteSetTheorems, SequenceTheorems, WellFoundedInduction, TLAPS

\* The rows of the database and of every open transaction.
AllRows == db \cup UNION {pending[r] : r \in Runs}

Typed ==
  /\ engine \in Engines
  /\ phase \in [Runs -> Phases]
  /\ opts \in Scenarios
  /\ before \in [Runs -> SUBSET Runs]
  /\ DOMAIN pending = Runs /\ DOMAIN todo = Runs

Finite == IsFiniteSet(db) /\ \A r \in Runs : IsFiniteSet(pending[r])

\* Rows pend in a run under way, and carry its number.
OwnRows ==
  /\ \A r \in Runs : pending[r] # {} => Running(r)
  /\ \A r \in Runs : \A row \in pending[r] : row = [item |-> row.item, by |-> r]

Unique == \A a, b \in AllRows : a # b /\ Same(a.item, b.item) => a.item.table = "client"

StartedInTurn == \A r \in Runs : phase[r] # "idle" => r \in DOMAIN opts

TInv == Typed /\ Finite /\ OwnRows /\ Unique /\ StartedInTurn

LEMMA TInvImpliesTypeOK == TInv => TypeOK
<1> SUFFICES ASSUME TInv PROVE TypeOK
  OBVIOUS
<1>1. \A a, b \in db : a # b /\ Same(a.item, b.item) => a.item.table = "client"
  BY DEF TInv, Unique, AllRows
<1>2. \A r \in Runs : pending[r] # {} => Running(r) /\ \A row \in pending[r] : row.by = r
  BY DEF TInv, OwnRows
<1> QED
  BY <1>1, <1>2 DEF TypeOK, TInv, Typed

LEMMA TInvInit == Init => TInv
<1> SUFFICES ASSUME Init PROVE TInv
  OBVIOUS
<1> USE DEF Init
<1>1. Typed /\ OwnRows /\ StartedInTurn
  BY DEF Typed, OwnRows, StartedInTurn, Phases
<1>2. Finite
  BY FS_EmptySet DEF Finite
<1>3. AllRows = {}
  BY DEF AllRows
<1> QED
  BY <1>1, <1>2, <1>3 DEF TInv, Unique

LEMMA StartKeepsTInv ==
  ASSUME TInv, NEW r \in Runs, Start(r)
  PROVE  TInv'
<1> USE DEF TInv, Start
<1>1. Typed'
  BY DEF Typed, Phases
<1>2. Finite' /\ Unique'
  BY DEF Finite, Unique, AllRows
<1>3. \A q \in Runs : phase'[q] = IF q = r THEN "running" ELSE phase[q]
  BY DEF Typed
<1>4. OwnRows' /\ StartedInTurn'
  BY <1>3 DEF OwnRows, StartedInTurn, Running
<1> QED
  BY <1>1, <1>2, <1>4

\* The run ends one way or the other, without or with its rows.
LEMMA EndKeepsTInv ==
  ASSUME TInv, NEW r \in Runs, phase[r] # "idle", NEW end \in Ended,
         phase' = [phase EXCEPT ![r] = end],
         pending' = [pending EXCEPT ![r] = {}],
         db' = db \/ db' = db \cup pending[r],
         UNCHANGED <<engine, opts, todo, before>>
  PROVE  TInv'
<1> USE DEF TInv
<1>1. Typed'
  BY DEF Typed, Phases, Ended
<1>2. \A q \in Runs : /\ phase'[q] = IF q = r THEN end ELSE phase[q]
                      /\ pending'[q] = IF q = r THEN {} ELSE pending[q]
  BY DEF Typed
<1>3. Finite'
  <2>1. IsFiniteSet(db')
    BY FS_Union DEF Finite
  <2> QED
    BY <2>1, <1>2, FS_EmptySet DEF Finite
<1>4. OwnRows' /\ StartedInTurn'
  BY <1>2 DEF OwnRows, StartedInTurn, Running
<1>5. AllRows' \subseteq AllRows
  BY <1>2 DEF AllRows
<1>6. Unique'
  BY <1>5 DEF Unique
<1> QED
  BY <1>1, <1>3, <1>4, <1>6

LEMMA FailKeepsTInv ==
  ASSUME TInv, NEW r \in Runs, phase[r] # "idle", Fail(r)
  PROVE  TInv'
BY EndKeepsTInv DEF Fail, Ended

LEMMA SkipKeepsTInv ==
  ASSUME TInv, NEW r \in Runs, Skip(r)
  PROVE  TInv'
BY DEF TInv, Skip, Typed, Finite, OwnRows, Unique, AllRows, StartedInTurn, Running

\* An insert adds a row that no other is the same as, its own apart.
LEMMA InsertKeepsTInv ==
  ASSUME TInv, NEW r \in Runs, Running(r), NEW item,
         item.table = "client" \/ Found(r, item) = {}, Insert(r, item)
  PROVE  TInv'
<1> USE DEF TInv
<1>1. phase[r] # "idle"
  BY DEF Running
<1>2. CASE Waits(r, item)
  BY <1>1, <1>2, FailKeepsTInv DEF Insert, Locked
<1>3. CASE ~Waits(r, item)
  <2> DEFINE new == [item |-> item, by |-> r]
  <2>1. /\ pending' = [pending EXCEPT ![r] = @ \cup {new}]
        /\ phase' = [phase EXCEPT ![r] = "running"]
        /\ todo' = [todo EXCEPT ![r] = Tail(@)]
        /\ UNCHANGED <<engine, db, opts, before>>
    BY <1>3 DEF Insert
  <2>2. \A q \in Runs : /\ phase'[q] = IF q = r THEN "running" ELSE phase[q]
                        /\ pending'[q] = IF q = r THEN pending[r] \cup {new} ELSE pending[q]
    BY <2>1 DEF Typed
  <2>3. Typed'
    BY <2>1 DEF Typed, Phases
  <2>4. Finite'
    <3>1. IsFiniteSet(pending[r] \cup {new})
      BY FS_AddElement DEF Finite
    <3> QED
      BY <3>1, <2>1, <2>2 DEF Finite
  <2>5. OwnRows' /\ StartedInTurn'
    BY <1>1, <2>1, <2>2 DEF OwnRows, StartedInTurn, Running
  <2>6. AllRows' = AllRows \cup {new}
    BY <2>1, <2>2 DEF AllRows
  <2>7. ASSUME NEW row \in AllRows, Same(row.item, item) \/ Same(item, row.item),
               item.table # "client"
        PROVE  FALSE
    <3>1. Same(row.item, item)
      BY <2>7 DEF Same
    <3>2. row \notin Visible(r)
      BY <2>7, <3>1 DEF Found
    <3>3. PICK q \in Runs \ {r} : row \in pending[q]
      BY <2>7, <3>2 DEF AllRows, Visible
    <3> QED
      BY <1>3, <2>7, <3>1, <3>3 DEF Waits
  <2>8. Unique'
    <3>1. new.item = item
      OBVIOUS
    <3>2. \A a, b : Same(a, b) => a.table = b.table
      BY DEF Same
    <3> HIDE DEF new
    <3> QED
      BY <2>6, <2>7, <3>1, <3>2 DEF Unique
  <2> QED
    BY <2>3, <2>4, <2>5, <2>8
<1> QED
  BY <1>2, <1>3

\* What a lookup finds is counted: none, one, or several.
LEMMA FoundIsCounted ==
  ASSUME TInv, NEW r \in Runs, NEW item
  PROVE  /\ Cardinality(Found(r, item)) \in Nat
         /\ Cardinality(Found(r, item)) = 0 => Found(r, item) = {}
         /\ Cardinality(Found(r, item)) = 1 => Found(r, item) # {}
         /\ Cardinality(Found(r, item)) > 1 =>
              \E a, b \in Found(r, item) : a # b
<1>1. IsFiniteSet(Visible(r))
  BY FS_Union DEF TInv, Finite, Visible
<1>2. IsFiniteSet(Found(r, item))
  BY <1>1, FS_Subset DEF Found
<1>3. Cardinality(Found(r, item)) \in Nat
  BY <1>2, FS_CardinalityType
<1>4. ASSUME Cardinality(Found(r, item)) > 1
      PROVE  \E a, b \in Found(r, item) : a # b
  <2>1. PICK a \in Found(r, item) : TRUE
    BY <1>4, FS_EmptySet
  <2>2. Found(r, item) # {a}
    <3>1. Cardinality({a}) = 1
      BY FS_Singleton
    <3> QED
      BY <3>1, <1>4
  <2> QED
    BY <2>1, <2>2
<1> QED
  BY <1>2, <1>3, <1>4, FS_EmptySet

LEMMA StepKeepsTInv ==
  ASSUME TInv, NEW r \in Runs, Step(r) \/ Kill(r)
  PROVE  TInv'
<1>1. CASE get_or_create(r)
  <2> DEFINE item == Head(todo[r])
  <2>1. Running(r) /\ phase[r] # "idle"
    BY <1>1 DEF get_or_create, At, Running
  <2>2. \/ Skip(r) \/ Fail(r)
        \/ Insert(r, item) /\ Cardinality(Found(r, item)) = 0
    <3>1. Cardinality(Found(r, item)) \in Nat
      BY FoundIsCounted
    <3> QED
      BY <1>1, <3>1 DEF get_or_create
  <2> HIDE DEF item
  <2> QED
    BY <2>1, <2>2, FoundIsCounted, SkipKeepsTInv, FailKeepsTInv, InsertKeepsTInv
<1>2. CASE ThreadExists(r)
  <2>1. phase[r] # "idle"
    BY <1>2 DEF ThreadExists, At
  <2>2. CASE phase' = [phase EXCEPT ![r] = "creating"]
             /\ UNCHANGED <<engine, db, pending, opts, todo, before>>
    <3>1. Typed'
      BY <2>2 DEF TInv, Typed, Phases
    <3>2. \A q \in Runs : phase'[q] = IF q = r THEN "creating" ELSE phase[q]
      BY <2>2 DEF TInv, Typed
    <3>3. (OwnRows /\ StartedInTurn /\ Finite /\ Unique)'
      BY <2>1, <2>2, <3>2 DEF TInv, OwnRows, StartedInTurn, Running, Finite, Unique, AllRows
    <3> QED
      BY <3>1, <3>3 DEF TInv
  <2> QED
    BY <1>2, <2>1, <2>2, SkipKeepsTInv, FailKeepsTInv DEF ThreadExists
<1>3. CASE CreateThread(r)
  <2>1. Running(r) /\ phase[r] # "idle"
    BY <1>3 DEF CreateThread, Running
  <2> QED
    BY <1>3, <2>1, FailKeepsTInv, InsertKeepsTInv DEF CreateThread
<1>4. CASE Commit(r)
  BY <1>4, EndKeepsTInv, FailKeepsTInv DEF Commit, Locked, Ended
<1>5. CASE Kill(r)
  <2>1. phase[r] # "idle"
    BY <1>5 DEF Kill, Running
  <2> QED
    BY <1>5, <2>1, EndKeepsTInv DEF Kill, Ended
<1> QED
  BY <1>1, <1>2, <1>3, <1>4, <1>5 DEF Step

LEMMA SeedingInvariant == Spec => []TInv
<1>1. TInv /\ [Next]_vars => TInv'
  <2> SUFFICES ASSUME TInv, [Next]_vars PROVE TInv'
    OBVIOUS
  <2>1. CASE UNCHANGED vars
    BY <2>1 DEF vars, TInv, Typed, Finite, OwnRows, Unique, AllRows, StartedInTurn, Running
  <2>2. CASE Next
    BY <2>2, StartKeepsTInv, StepKeepsTInv DEF Next
  <2> QED
    BY <2>1, <2>2
<1> QED
  BY <1>1, TInvInit, PTL DEF Spec

\* The types hold, and what has a unique key is there once, committed or not,
\* however many runs overlap.
THEOREM SeedingTypes == Spec => []TypeOK
BY SeedingInvariant, TInvImpliesTypeOK, PTL

-----------------------------------------------------------------------------
(***************************************************************************)
(* A run works through its items in order: those behind it are all there   *)
(* for it to see, and those ahead are what is left to do.                  *)
(***************************************************************************)
ItemsOf(o) ==
  _seed_superuser \o _seed_firms(o) \o _seed_accountants(o)
    \o _seed_clients(o) \o _seed_threads(o)

IsSeq(s, n) == (\E K : s \in Seq(K)) /\ Len(s) = n

LEMMA TableIsSeq ==
  ASSUME NEW n \in Nat, NEW f, f = [i \in 1..n |-> f[i]]
  PROVE  IsSeq(f, n)
<1>1. f \in [1..n -> {f[i] : i \in 1..n}]
  OBVIOUS
<1>2. f \in Seq({f[i] : i \in 1..n}) /\ Len(f) = n
  BY <1>1
<1> QED
  BY <1>2 DEF IsSeq

Joined(u, s, m, t, n) ==
  /\ IsSeq(u, m + n)
  /\ \A i \in 1..m : u[i] = s[i]
  /\ \A i \in 1..n : u[m + i] = t[i]

LEMMA SeqsJoin ==
  ASSUME NEW m \in Nat, NEW n \in Nat, NEW s, NEW t, IsSeq(s, m), IsSeq(t, n)
  PROVE  Joined(s \o t, s, m, t, n)
<1>1. PICK K, L : s \in Seq(K) /\ t \in Seq(L)
  BY DEF IsSeq
<1>2. s \in Seq(K \cup L) /\ t \in Seq(K \cup L) /\ Len(s) = m /\ Len(t) = n
  BY <1>1, SeqMonotonic DEF IsSeq
<1>3. /\ s \o t \in Seq(K \cup L) /\ Len(s \o t) = m + n
      /\ \A i \in 1..(m + n) : (s \o t)[i] = IF i <= m THEN s[i] ELSE t[i - m]
  BY <1>2, ConcatProperties
<1>4. ASSUME NEW i \in 1..n
      PROVE  (s \o t)[m + i] = t[i]
  <2>1. m + i \in 1..(m + n) /\ ~(m + i <= m) /\ (m + i) - m = i
    OBVIOUS
  <2> QED
    BY <1>3, <2>1
<1> QED
  BY <1>3, <1>4 DEF IsSeq, Joined

InBlocks(e, s1, s2, s3, s4, s5, f, c, t) ==
  /\ IsSeq(e, 1 + f + f + c + t)
  /\ e[1] = s1[1]
  /\ \A i \in 1..f : e[1 + i] = s2[i] /\ e[1 + f + i] = s3[i]
  /\ \A i \in 1..c : e[1 + f + f + i] = s4[i]
  /\ \A i \in 1..t : e[1 + f + f + c + i] = s5[i]

LEMMA FiveSeqsJoin ==
  ASSUME NEW f \in Nat, NEW c \in Nat, NEW t \in Nat,
         NEW s1, NEW s2, NEW s3, NEW s4, NEW s5,
         IsSeq(s1, 1), IsSeq(s2, f), IsSeq(s3, f), IsSeq(s4, c), IsSeq(s5, t)
  PROVE  InBlocks(s1 \o s2 \o s3 \o s4 \o s5, s1, s2, s3, s4, s5, f, c, t)
<1> DEFINE a == s1 \o s2
           b == a \o s3
           d == b \o s4
           e == d \o s5
<1>1. Joined(a, s1, 1, s2, f)
  BY SeqsJoin
<1> HIDE DEF a
<1>2. IsSeq(a, 1 + f) /\ 1 + f \in Nat
  BY <1>1 DEF Joined
<1>3. Joined(b, a, 1 + f, s3, f)
  BY <1>2, SeqsJoin
<1> HIDE DEF b
<1>4. IsSeq(b, 1 + f + f) /\ 1 + f + f \in Nat
  BY <1>2, <1>3 DEF Joined
<1>5. Joined(d, b, 1 + f + f, s4, c)
  BY <1>4, SeqsJoin
<1> HIDE DEF d
<1>6. IsSeq(d, 1 + f + f + c) /\ 1 + f + f + c \in Nat
  BY <1>4, <1>5 DEF Joined
<1>7. Joined(e, d, 1 + f + f + c, s5, t)
  BY <1>6, SeqsJoin
<1> HIDE DEF e
<1>8. e[1] = s1[1]
  BY <1>1, <1>3, <1>5, <1>7 DEF Joined
<1>9. ASSUME NEW i \in 1..f
      PROVE  e[1 + i] = s2[i] /\ e[1 + f + i] = s3[i]
  <2>1. a[1 + i] = s2[i] /\ b[1 + f + i] = s3[i]
    BY <1>1, <1>3 DEF Joined
  <2>2. b[1 + i] = a[1 + i]
    BY <1>3 DEF Joined
  <2>3. d[1 + i] = b[1 + i] /\ d[1 + f + i] = b[1 + f + i]
    BY <1>5 DEF Joined
  <2>4. e[1 + i] = d[1 + i] /\ e[1 + f + i] = d[1 + f + i]
    BY <1>7 DEF Joined
  <2> QED
    BY <2>1, <2>2, <2>3, <2>4
<1>10. ASSUME NEW i \in 1..c
       PROVE  e[1 + f + f + i] = s4[i]
  BY <1>5, <1>7 DEF Joined
<1> QED
  BY <1>7, <1>8, <1>9, <1>10 DEF a, b, d, e, Joined, InBlocks

LEMMA FirstIndexesAreCounted ==
  ASSUME NEW o, Options(o)
  PROVE  IsFiniteSet(FirstIndexes(o)) /\ Cardinality(FirstIndexes(o)) \in Nat
<1>1. o.size.firms \in Nat
  BY DEF Options
<1>2. IsFiniteSet(1..o.size.firms)
  BY <1>1, FS_Interval
<1> QED
  BY <1>2, FS_Subset, FS_CardinalityType DEF FirstIndexes

\* Where the five tables begin in the items of a run.
FirmsFrom == 1
AccountantsFrom(o) == FirmsFrom + o.size.firms
ClientsFrom(o) == AccountantsFrom(o) + o.size.firms
ThreadsFrom(o) == ClientsFrom(o) + o.size.firms * o.size.clients_per_firm
ItemCount(o) == ThreadsFrom(o) + Cardinality(FirstIndexes(o)) * o.size.threads_per_firm

LEMMA SizesAreNumbers ==
  ASSUME NEW o, Options(o)
  PROVE  /\ o.size.firms \in Nat /\ o.size.clients_per_firm \in Nat
         /\ o.size.threads_per_firm \in Nat /\ Cardinality(FirstIndexes(o)) \in Nat
         /\ o.size.firms * o.size.clients_per_firm \in Nat
         /\ Cardinality(FirstIndexes(o)) * o.size.threads_per_firm \in Nat
         /\ AccountantsFrom(o) \in Nat /\ ClientsFrom(o) \in Nat /\ ThreadsFrom(o) \in Nat
         /\ ItemCount(o) \in Nat
<1>1. o.size.firms \in Nat /\ o.size.clients_per_firm \in Nat /\ o.size.threads_per_firm \in Nat
  BY DEF Options
<1>2. Cardinality(FirstIndexes(o)) \in Nat
  BY FirstIndexesAreCounted
<1>3. /\ o.size.firms * o.size.clients_per_firm \in Nat
      /\ Cardinality(FirstIndexes(o)) * o.size.threads_per_firm \in Nat
  BY <1>1, <1>2
<1> QED
  BY <1>1, <1>2, <1>3
     DEF FirmsFrom, AccountantsFrom, ClientsFrom, ThreadsFrom, ItemCount

LEMMA ItemsInBlocks ==
  ASSUME NEW o, Options(o)
  PROVE  /\ IsSeq(ItemsOf(o), ItemCount(o))
         /\ ItemsOf(o)[1] = _seed_superuser[1]
         /\ \A i \in 1..o.size.firms :
              /\ ItemsOf(o)[FirmsFrom + i] = _seed_firms(o)[i]
              /\ ItemsOf(o)[AccountantsFrom(o) + i] = _seed_accountants(o)[i]
         /\ \A k \in 1..(o.size.firms * o.size.clients_per_firm) :
              ItemsOf(o)[ClientsFrom(o) + k] = _seed_clients(o)[k]
         /\ \A k \in 1..(Cardinality(FirstIndexes(o)) * o.size.threads_per_firm) :
              ItemsOf(o)[ThreadsFrom(o) + k] = _seed_threads(o)[k]
<1> DEFINE f == o.size.firms
           c == o.size.firms * o.size.clients_per_firm
           t == Cardinality(FirstIndexes(o)) * o.size.threads_per_firm
           s1 == _seed_superuser
           s2 == _seed_firms(o)
           s3 == _seed_accountants(o)
           s4 == _seed_clients(o)
           s5 == _seed_threads(o)
<1>1. f \in Nat /\ c \in Nat /\ t \in Nat
  BY SizesAreNumbers
<1>2. IsSeq(s1, 1) /\ IsSeq(s2, f) /\ IsSeq(s3, f)
  <2>1. s1 \in Seq({s1[1]}) /\ Len(s1) = 1
    BY DEF _seed_superuser
  <2>2. IsSeq(s2, f) /\ IsSeq(s3, f)
    BY <1>1, TableIsSeq DEF _seed_firms, _seed_accountants
  <2> QED
    BY <2>1, <2>2 DEF IsSeq
<1>3. IsSeq(s4, c) /\ IsSeq(s5, t)
  BY <1>1, TableIsSeq DEF _seed_clients, _seed_threads
<1>4. s1 \o s2 \o s3 \o s4 \o s5 = ItemsOf(o)
  BY DEF ItemsOf
<1> HIDE DEF s1, s2, s3, s4, s5, f, c, t
<1>5. InBlocks(s1 \o s2 \o s3 \o s4 \o s5, s1, s2, s3, s4, s5, f, c, t)
  BY <1>1, <1>2, <1>3, FiveSeqsJoin
<1> QED
  BY <1>4, <1>5 DEF InBlocks, FirmsFrom, AccountantsFrom, ClientsFrom, ThreadsFrom, ItemCount,
     s1, s2, s3, s4, s5, f, c, t

Sees(r, item) == \E row \in Visible(r) : Same(row.item, item)

AtItem(r, n) ==
  /\ n \in 0..Len(Items(r))
  /\ todo[r] = SubSeq(Items(r), n + 1, Len(Items(r)))
  /\ \A k \in 1..n : Sees(r, Items(r)[k])

InOrder ==
  /\ \A r \in Runs : Running(r) => \E n \in Nat : AtItem(r, n)
  /\ \A r \in Runs : phase[r] = "creating" => todo[r] # <<>>

LEMMA ItemsAreItems ==
  ASSUME TInv, NEW r \in DOMAIN opts
  PROVE  Options(opts[r]) /\ Items(r) = ItemsOf(opts[r]) /\ IsSeq(Items(r), ItemCount(opts[r]))
         /\ ItemCount(opts[r]) \in Nat /\ Len(Items(r)) = ItemCount(opts[r])
<1>1. Options(opts[r])
  BY ScenariosAssumption DEF TInv, Typed
<1>2. Items(r) = ItemsOf(opts[r])
  BY DEF Items, ItemsOf
<1> QED
  BY <1>1, <1>2, ItemsInBlocks, SizesAreNumbers DEF IsSeq

\* The head of what is left is the next item, and the tail what comes after.
LEMMA NextItem ==
  ASSUME TInv, NEW r \in DOMAIN opts, NEW n \in Nat, AtItem(r, n), todo[r] # <<>>
  PROVE  /\ n < Len(Items(r)) /\ n + 1 \in 1..Len(Items(r))
         /\ Head(todo[r]) = Items(r)[n + 1]
         /\ Tail(todo[r]) = SubSeq(Items(r), n + 2, Len(Items(r)))
<1> DEFINE s == Items(r)
           N == Len(s)
<1>1. PICK K : s \in Seq(K) /\ N \in Nat
  BY ItemsAreItems DEF IsSeq
<1>2. n \in 0..N /\ todo[r] = SubSeq(s, n + 1, N)
  BY DEF AtItem
<1> HIDE DEF s, N
<1>3. n < N
  <2> SUFFICES ASSUME n >= N PROVE FALSE
    BY <1>1
  <2>1. SubSeq(s, n + 1, N) = <<>>
    BY <1>1, SubSeqEmpty
  <2> QED
    BY <2>1, <1>2
<1>4. n + 1 \in 1..N /\ N \in (n + 1)..N
  BY <1>1, <1>3
<1>5. Head(SubSeq(s, n + 1, N)) = s[n + 1] /\ Tail(SubSeq(s, n + 1, N)) = SubSeq(s, (n + 1) + 1, N)
  <2>1. N = Len(s)
    BY DEF N
  <2> QED
    BY <1>1, <1>4, <2>1, HeadTailOfSubSeq
<1> QED
  BY <1>2, <1>3, <1>4, <1>5 DEF s, N

LEMMA AllDone ==
  ASSUME TInv, NEW r \in DOMAIN opts, NEW n \in Nat, AtItem(r, n), todo[r] = <<>>
  PROVE  n = Len(Items(r))
<1>1. PICK K : Items(r) \in Seq(K) /\ Len(Items(r)) \in Nat
  BY ItemsAreItems DEF IsSeq
<1>2. PICK s, N : s = Items(r) /\ N = Len(Items(r))
  OBVIOUS
<1>3. s \in Seq(K) /\ N = Len(s) /\ N \in Nat /\ n \in 0..N /\ SubSeq(s, n + 1, N) = <<>>
  BY <1>1, <1>2 DEF AtItem
<1>4. CASE n < N
  <2>1. n + 1 \in 1..N /\ N \in (n + 1)..N
    BY <1>3, <1>4
  <2>2. Len(SubSeq(s, n + 1, N)) = N - (n + 1) + 1
    BY <1>3, <2>1, SubSeqProperties
  <2>3. Len(SubSeq(s, n + 1, N)) = 0
    BY <1>3
  <2> QED
    BY <1>3, <2>1, <2>2, <2>3
<1> QED
  BY <1>2, <1>3, <1>4

\* What a run has seen stays to be seen, as long as it goes on.
LEMMA SeenStays ==
  ASSUME NEW r, NEW item, Sees(r, item), db \subseteq db', pending[r] \subseteq pending'[r]
  PROVE  Sees(r, item)'
BY DEF Sees, Visible

LEMMA PlaceStays ==
  ASSUME NEW r, NEW n, AtItem(r, n), db \subseteq db', pending[r] \subseteq pending'[r],
         opts' = opts, todo'[r] = todo[r]
  PROVE  AtItem(r, n)'
<1>1. Items(r)' = Items(r)
  BY DEF Items
<1> QED
  BY <1>1, SeenStays DEF AtItem

\* A run that has seen to its next item goes on to the one after.
LEMMA PlaceMoves ==
  ASSUME TInv, NEW r \in DOMAIN opts, NEW n \in Nat, AtItem(r, n), todo[r] # <<>>,
         db \subseteq db', pending[r] \subseteq pending'[r],
         NEW item, item = Head(todo[r]), Sees(r, item)',
         opts' = opts, todo'[r] = Tail(todo[r])
  PROVE  AtItem(r, n + 1)'
<1>1. Items(r)' = Items(r) /\ Len(Items(r)) \in Nat
  BY ItemsAreItems DEF Items
<1>2. \A k \in 1..n : Sees(r, Items(r)[k])'
  BY <1>1, SeenStays DEF AtItem
<1>3. /\ n + 1 \in 0..Len(Items(r)) /\ Head(todo[r]) = Items(r)[n + 1]
      /\ todo'[r] = SubSeq(Items(r), (n + 1) + 1, Len(Items(r)))
  BY NextItem
<1>4. ASSUME NEW k \in 1..(n + 1)
      PROVE  Sees(r, Items(r)[k])'
  <2>1. CASE k \in 1..n
    BY <1>2, <2>1
  <2>2. CASE k = n + 1
    BY <1>1, <1>3, <2>2
  <2> QED
    BY <2>1, <2>2
<1> QED
  BY <1>1, <1>3, <1>4 DEF AtItem

-----------------------------------------------------------------------------
(***************************************************************************)
(* What a step of a run can come to.                                       *)
(***************************************************************************)
Now(r) == Head(todo[r])

Skips(r) == phase[r] = "running" /\ todo[r] # <<>> /\ Found(r, Now(r)) # {} /\ Skip(r)

Creates(r) ==
  /\ At(r, {"thread"}) /\ Now(r).client # <<>> /\ Found(r, Now(r)) = {}
  /\ phase' = [phase EXCEPT ![r] = "creating"]
  /\ UNCHANGED <<engine, db, pending, opts, todo, before>>

Inserts(r) ==
  /\ Running(r) /\ todo[r] # <<>> /\ Found(r, Now(r)) = {} /\ ~Waits(r, Now(r))
  /\ phase[r] = "creating" \/ At(r, {"superuser", "firm", "accountants", "client"})
  /\ pending' = [pending EXCEPT ![r] = @ \cup {[item |-> Now(r), by |-> r]}]
  /\ phase' = [phase EXCEPT ![r] = "running"]
  /\ todo' = [todo EXCEPT ![r] = Tail(@)]
  /\ UNCHANGED <<engine, db, opts, before>>

Commits(r) ==
  /\ phase[r] = "running" /\ todo[r] = <<>>
  /\ db' = db \cup pending[r]
  /\ pending' = [pending EXCEPT ![r] = {}]
  /\ phase' = [phase EXCEPT ![r] = "committed"]
  /\ UNCHANGED <<engine, opts, todo, before>>

\* Why an exception leaves the command.
Several(r) ==
  /\ At(r, {"superuser", "firm", "accountants", "client"})
  /\ \E a, b \in Found(r, Now(r)) : a # b
NoClient(r) == At(r, {"thread"}) /\ Now(r).client = <<>>
LateThread(r) == phase[r] = "creating" /\ todo[r] # <<>> /\ Found(r, Now(r)) # {}
LockedOut(r) ==
  /\ engine = "sqlite" /\ Running(r)
  /\ \/ todo[r] # <<>> /\ Found(r, Now(r)) = {} /\ Waits(r, Now(r))
     \/ pending[r] # {} /\ \E other \in Runs \ {r} : Running(other)

Fails(r) == Fail(r) /\ (Several(r) \/ NoClient(r) \/ LateThread(r) \/ LockedOut(r))

LEMMA StepComesTo ==
  ASSUME TInv, InOrder, NEW r \in Runs, Step(r)
  PROVE  /\ Running(r)
         /\ Skips(r) \/ Creates(r) \/ Inserts(r) \/ Commits(r) \/ Fails(r)
<1>1. CASE get_or_create(r)
  <2>1. /\ At(r, {"superuser", "firm", "accountants", "client"})
        /\ phase[r] = "running" /\ todo[r] # <<>> /\ Running(r)
    BY <1>1 DEF get_or_create, At, Running
  <2>2. \/ Skip(r) /\ Cardinality(Found(r, Now(r))) = 1
        \/ Fail(r) /\ Cardinality(Found(r, Now(r))) > 1
        \/ Insert(r, Now(r)) /\ Cardinality(Found(r, Now(r))) = 0
    <3>1. Cardinality(Found(r, Now(r))) \in Nat
      BY FoundIsCounted
    <3> QED
      BY <1>1, <3>1 DEF get_or_create, Now
  <2>3. \/ Skip(r) /\ Found(r, Now(r)) # {}
        \/ Fail(r) /\ \E a, b \in Found(r, Now(r)) : a # b
        \/ Insert(r, Now(r)) /\ Found(r, Now(r)) = {}
    BY <2>2, FoundIsCounted
  <2> QED
    BY <2>1, <2>3 DEF Skips, Fails, Several, Inserts, Insert, Locked, LockedOut
<1>2. CASE ThreadExists(r)
  BY <1>2 DEF ThreadExists, At, Running, Now, Fails, NoClient, Skips, Creates
<1>3. CASE CreateThread(r)
  <2>1. phase[r] = "creating" /\ Running(r) /\ todo[r] # <<>>
    BY <1>3 DEF CreateThread, Running, InOrder
  <2>2. \/ Fail(r) /\ Found(r, Now(r)) # {}
        \/ Insert(r, Now(r)) /\ Found(r, Now(r)) = {}
    BY <1>3 DEF CreateThread, Now
  <2> QED
    BY <2>1, <2>2 DEF Fails, LateThread, Inserts, Insert, Locked, LockedOut
<1>4. CASE Commit(r)
  BY <1>4 DEF Commit, Commits, Locked, Fails, LockedOut, Running, Reading
<1> QED
  BY <1>1, <1>2, <1>3, <1>4 DEF Step

\* The steps of a run leave the other runs alone; rows are only added, but to
\* the run that ends.
LEMMA StepsOfOne ==
  ASSUME TInv, NEW r \in Runs,
         Skips(r) \/ Creates(r) \/ Inserts(r) \/ Commits(r) \/ Fails(r) \/ Kill(r)
  PROVE  /\ UNCHANGED <<engine, opts, before>> /\ db \subseteq db'
         /\ \A q \in Runs \ {r} : /\ phase'[q] = phase[q]
                                  /\ todo'[q] = todo[q]
                                  /\ pending'[q] = pending[q]
         /\ phase'[r] \in Ended \/ pending[r] \subseteq pending'[r]
<1> USE DEF TInv, Typed
<1>1. CASE Skips(r)
  BY <1>1 DEF Skips, Skip
<1>2. CASE Creates(r)
  BY <1>2 DEF Creates
<1>3. CASE Inserts(r)
  BY <1>3 DEF Inserts
<1>4. CASE Commits(r)
  BY <1>4 DEF Commits, Ended
<1>5. CASE Fails(r)
  BY <1>5 DEF Fails, Fail, Ended
<1>6. CASE Kill(r)
  BY <1>6 DEF Kill, Ended
<1> QED
  BY <1>1, <1>2, <1>3, <1>4, <1>5, <1>6

LEMMA StartKeepsOrder ==
  ASSUME TInv, InOrder, Complete, NEW r \in Runs, Start(r)
  PROVE  InOrder' /\ Complete'
<1> USE DEF Start
<1>1. \A q \in Runs : /\ phase'[q] = IF q = r THEN "running" ELSE phase[q]
                      /\ todo'[q] = IF q = r THEN Items(r) ELSE todo[q]
  BY DEF TInv, Typed
<1>2. \A q \in Runs : Items(q)' = Items(q)
  BY DEF Items
<1>3. ASSUME NEW q \in Runs, Running(q)'
      PROVE  \E n \in Nat : AtItem(q, n)'
  <2>1. CASE q = r
    <3>1. PICK K : Items(r) \in Seq(K) /\ Len(Items(r)) \in Nat
      BY ItemsAreItems DEF IsSeq
    <3>2. SubSeq(Items(r), 1, Len(Items(r))) = Items(r)
      BY <3>1, SubSeqFull
    <3>3. AtItem(r, 0)'
      BY <1>1, <1>2, <3>1, <3>2 DEF AtItem
    <3> QED
      BY <2>1, <3>3
  <2>2. CASE q # r
    <3>1. PICK n \in Nat : AtItem(q, n)
      BY <1>1, <1>3, <2>2 DEF Running, InOrder
    <3> QED
      BY <1>1, <2>2, <3>1, PlaceStays
  <2> QED
    BY <2>1, <2>2
<1>4. \A q \in Runs : phase'[q] = "creating" => todo'[q] # <<>>
  BY <1>1 DEF InOrder
<1>5. Complete'
  BY <1>1, <1>2 DEF Complete
<1> QED
  BY <1>3, <1>4, <1>5 DEF InOrder

LEMMA StepKeepsOrder ==
  ASSUME TInv, InOrder, Complete, NEW r \in Runs, Step(r) \/ Kill(r)
  PROVE  InOrder' /\ Complete'
<1>1. /\ Running(r)
      /\ Skips(r) \/ Creates(r) \/ Inserts(r) \/ Commits(r) \/ Fails(r) \/ Kill(r)
  BY StepComesTo DEF Kill
<1>2. r \in DOMAIN opts /\ UNCHANGED opts /\ db \subseteq db'
  BY <1>1, StepsOfOne DEF TInv, StartedInTurn, Running
<1>3. \A q \in Runs : Items(q)' = Items(q)
  BY <1>2 DEF Items
<1>4. PICK n \in Nat : AtItem(r, n)
  BY <1>1 DEF InOrder
<1>5. ASSUME Running(r)'
      PROVE  \E m \in Nat : AtItem(r, m)'
  <2>1. pending[r] \subseteq pending'[r]
    BY <1>1, <1>5, StepsOfOne DEF Running, Ended
  <2>2. CASE Skips(r)
    <3>1. PICK item : item = Head(todo[r])
      OBVIOUS
    <3>2. Found(r, item) # {} /\ todo[r] # <<>> /\ todo'[r] = Tail(todo[r])
      BY <2>2, <3>1 DEF Skips, Skip, Now, TInv, Typed
    <3>3. Sees(r, item)
      BY <3>2 DEF Found, Sees
    <3>4. AtItem(r, n + 1)'
      BY <1>2, <1>4, <2>1, <3>1, <3>2, <3>3, SeenStays, PlaceMoves
    <3> QED
      BY <3>4
  <2>3. CASE Inserts(r)
    <3>1. PICK item : item = Head(todo[r])
      OBVIOUS
    <3>2. /\ todo[r] # <<>> /\ todo'[r] = Tail(todo[r])
          /\ pending'[r] = pending[r] \cup {[item |-> item, by |-> r]}
      BY <2>3, <3>1 DEF Inserts, Now, TInv, Typed
    <3>3. Same([item |-> item, by |-> r].item, item)
      BY DEF Same
    <3>4. Sees(r, item)'
      BY <3>2, <3>3 DEF Sees, Visible
    <3>5. AtItem(r, n + 1)'
      BY <1>2, <1>4, <2>1, <3>1, <3>2, <3>4, PlaceMoves
    <3> QED
      BY <3>5
  <2>4. CASE Creates(r)
    BY <1>2, <1>4, <2>1, <2>4, PlaceStays DEF Creates
  <2>5. CASE Commits(r) \/ Fails(r) \/ Kill(r)
    BY <1>5, <2>5 DEF Commits, Fails, Fail, Kill, Running, TInv, Typed
  <2> QED
    BY <1>1, <2>2, <2>3, <2>4, <2>5
<1>6. ASSUME NEW q \in Runs, Running(q)'
      PROVE  \E m \in Nat : AtItem(q, m)'
  <2>1. CASE q = r
    BY <1>5, <1>6, <2>1
  <2>2. CASE q # r
    <3>1. phase'[q] = phase[q] /\ todo'[q] = todo[q] /\ pending'[q] = pending[q]
      BY <1>1, <2>2, StepsOfOne
    <3>2. PICK m \in Nat : AtItem(q, m)
      BY <1>6, <3>1 DEF Running, InOrder
    <3> QED
      BY <1>2, <3>1, <3>2, PlaceStays
  <2> QED
    BY <2>1, <2>2
<1>7. ASSUME NEW q \in Runs, phase'[q] = "creating"
      PROVE  todo'[q] # <<>>
  <2>1. CASE q # r
    <3>1. phase'[q] = phase[q] /\ todo'[q] = todo[q]
      BY <1>1, <2>1, StepsOfOne
    <3> QED
      BY <1>7, <3>1 DEF InOrder
  <2>2. CASE q = r
    <3>1. CASE Creates(r)
      BY <2>2, <3>1 DEF Creates, At
    <3>2. CASE Skips(r)
      BY <1>7, <2>2, <3>2 DEF Skips, Skip
    <3>3. CASE Inserts(r) \/ Commits(r) \/ Fails(r) \/ Kill(r)
      BY <1>7, <2>2, <3>3 DEF Inserts, Commits, Fails, Fail, Kill, TInv, Typed
    <3> QED
      BY <1>1, <3>1, <3>2, <3>3
  <2> QED
    BY <2>1, <2>2
<1>8. ASSUME NEW q \in Runs, phase'[q] = "committed", NEW k \in 1..Len(Items(q)')
      PROVE  \E row \in db' : Same(row.item, Items(q)'[k])
  <2>1. CASE phase[q] = "committed"
    BY <1>2, <1>3, <1>8, <2>1 DEF Complete
  <2>2. CASE phase[q] # "committed"
    <3>1. q = r
      BY <1>1, <1>8, <2>2, StepsOfOne
    <3>2. Commits(r)
      BY <1>1, <1>8, <2>2, <3>1
         DEF Skips, Skip, Creates, Inserts, Fails, Fail, Kill, TInv, Typed
    <3>3. todo[r] = <<>> /\ db' = Visible(r)
      BY <3>2 DEF Commits, Visible
    <3>4. n = Len(Items(r))
      BY <1>2, <1>4, <3>1, <3>3, AllDone
    <3> QED
      BY <1>3, <1>4, <1>8, <3>1, <3>3, <3>4 DEF AtItem, Sees
  <2> QED
    BY <2>1, <2>2
<1> QED
  BY <1>6, <1>7, <1>8 DEF InOrder, Complete

LEMMA OrderInit == Init => InOrder /\ Complete
BY DEF Init, InOrder, Complete, Running

LEMMA OrderStays ==
  ASSUME InOrder, Complete, UNCHANGED vars
  PROVE  InOrder' /\ Complete'
BY DEF vars, InOrder, Complete, Running, AtItem, Sees, Visible, Items

\* Every run under way has a place in its items and has seen to those before.
LEMMA OrderInvariant == Spec => [](TInv /\ InOrder /\ Complete)
<1>1. Init => TInv /\ InOrder /\ Complete
  BY TInvInit, OrderInit
<1>2. TInv /\ InOrder /\ Complete /\ [Next]_vars /\ TInv' => InOrder' /\ Complete'
  BY StartKeepsOrder, StepKeepsOrder, OrderStays DEF Next
<1> QED
  BY <1>1, <1>2, SeedingInvariant, PTL DEF Spec

(***************************************************************************)
(* Once a run of seed_data has committed, everything it asked for is in    *)
(* the database, whoever made it: a skip of get_or_create or of the        *)
(* existence test is of a row that is there and stays there.               *)
(***************************************************************************)
THEOREM CommittedRunsAreComplete == Spec => []Complete
BY OrderInvariant, PTL

-----------------------------------------------------------------------------
(***************************************************************************)
(* The items of a run by place.                                            *)
(***************************************************************************)
LEMMA Division ==
  ASSUME NEW d \in Nat \ {0}, NEW n \in Nat
  PROVE  /\ n \div d \in Nat /\ n % d \in 0..(d - 1)
         /\ n = (n \div d) * d + (n % d)
OBVIOUS

LEMMA Quotient ==
  ASSUME NEW d \in Nat \ {0}, NEW q \in Nat, NEW m \in 0..(d - 1)
  PROVE  (q * d + m) \div d = q /\ (q * d + m) % d = m
<1> DEFINE n == q * d + m
<1>1. n \in Nat
  OBVIOUS
<1>2. n \div d \in Nat /\ n % d \in 0..(d - 1) /\ n = (n \div d) * d + (n % d)
  BY <1>1, Division
<1>3. PICK p \in Nat, l \in 0..(d - 1) : p = n \div d /\ l = n % d
  BY <1>2
<1>4. q * d + m = p * d + l
  BY <1>2, <1>3
<1>5. p = q
  <2>1. CASE p < q
    <3>1. PICK e \in Nat : q = p + 1 + e
      <4>1. q = p + 1 + (q - p - 1) /\ q - p - 1 \in Nat
        BY <2>1
      <4> QED BY <4>1
    <3>2. q * d = p * d + d + e * d /\ e * d \in Nat /\ p * d \in Nat
      BY <3>1
    <3> QED
      BY <1>4, <3>2
  <2>2. CASE q < p
    <3>1. PICK e \in Nat : p = q + 1 + e
      <4>1. p = q + 1 + (p - q - 1) /\ p - q - 1 \in Nat
        BY <2>2
      <4> QED BY <4>1
    <3>2. p * d = q * d + d + e * d /\ e * d \in Nat /\ q * d \in Nat
      BY <3>1
    <3> QED
      BY <1>4, <3>2
  <2> QED
    BY <2>1, <2>2
<1>6. l = m
  BY <1>4, <1>5
<1> QED
  BY <1>3, <1>5, <1>6

\* The numbers 1..f*d, in f rows of d.
LEMMA Numbered ==
  ASSUME NEW f \in Nat, NEW d \in Nat
  PROVE  /\ \A i \in 1..f, m \in 0..(d - 1) : (i - 1) * d + m + 1 \in 1..(f * d)
         /\ \A k \in 1..(f * d) : \E i \in 1..f, m \in 0..(d - 1) : k = (i - 1) * d + m + 1
<1>1. ASSUME NEW i \in 1..f, NEW m \in 0..(d - 1)
      PROVE  (i - 1) * d + m + 1 \in 1..(f * d)
  <2>1. PICK e \in Nat : f = i + e
    <3>1. f = i + (f - i) /\ f - i \in Nat
      OBVIOUS
    <3> QED
      BY <3>1
  <2>2. f * d = (i - 1) * d + d + e * d /\ e * d \in Nat /\ (i - 1) * d \in Nat
    BY <2>1
  <2> QED
    BY <2>2
<1>2. ASSUME NEW k \in 1..(f * d)
      PROVE  \E i \in 1..f, m \in 0..(d - 1) : k = (i - 1) * d + m + 1
  <2>1. d \in Nat \ {0} /\ k - 1 \in Nat
    <3>1. f * 0 = 0
      OBVIOUS
    <3> QED BY <3>1
  <2>2. PICK q \in Nat, m \in 0..(d - 1) : k - 1 = q * d + m
    BY <2>1, Division
  <2>3. q < f
    <3> SUFFICES ASSUME q >= f PROVE FALSE
      OBVIOUS
    <3>1. PICK e \in Nat : q = f + e
      <4>1. q = f + (q - f) /\ q - f \in Nat
        OBVIOUS
      <4> QED
        BY <4>1
    <3>2. q * d = f * d + e * d /\ e * d \in Nat
      BY <3>1
    <3> QED
      BY <2>2, <3>2
  <2>4. q + 1 \in 1..f /\ k = ((q + 1) - 1) * d + m + 1
    BY <2>2, <2>3
  <2> QED
    BY <2>4
<1> QED
  BY <1>1, <1>2

FirmItem(o, i) == Item("firm", <<o.names[i]>>, o.names[i], <<>>)
AccountantsItem(o, i) == Item("accountants", <<i>>, o.names[i], <<>>)
ClientItem(o, i, m) == Item("client", <<i, m>>, o.names[i], <<>>)
ThreadItem(o, p, t) == ThreadOf(o, p, t, FirmAt(p, o))
Places(o) == Cardinality(FirstIndexes(o))
ClientPlace(o, i, m) == ClientsFrom(o) + ((i - 1) * o.size.clients_per_firm + m + 1)
ThreadPlace(o, p, t) == ThreadsFrom(o) + ((p - 1) * o.size.threads_per_firm + t + 1)

FirmsInPlace(o) ==
  \A i \in 1..o.size.firms :
    /\ FirmsFrom + i \in 2..AccountantsFrom(o)
    /\ ItemsOf(o)[FirmsFrom + i] = FirmItem(o, i)
    /\ AccountantsFrom(o) + i \in 2..ClientsFrom(o)
    /\ ItemsOf(o)[AccountantsFrom(o) + i] = AccountantsItem(o, i)

ClientsInPlace(o) ==
  \A i \in 1..o.size.firms, m \in 0..(o.size.clients_per_firm - 1) :
    /\ ClientPlace(o, i, m) \in (ClientsFrom(o) + 1)..ThreadsFrom(o)
    /\ ItemsOf(o)[ClientPlace(o, i, m)] = ClientItem(o, i, m)

ThreadsInPlace(o) ==
  \A p \in 1..Places(o), t \in 0..(o.size.threads_per_firm - 1) :
    /\ ThreadPlace(o, p, t) \in (ThreadsFrom(o) + 1)..ItemCount(o)
    /\ ItemsOf(o)[ThreadPlace(o, p, t)] = ThreadItem(o, p, t)

LEMMA ItemPlaces ==
  ASSUME NEW o, Options(o)
  PROVE  FirmsInPlace(o) /\ ClientsInPlace(o) /\ ThreadsInPlace(o)
<1> DEFINE f == o.size.firms
           c == o.size.clients_per_firm
           t == o.size.threads_per_firm
           n == Places(o)
<1>1. /\ f \in Nat /\ c \in Nat /\ t \in Nat /\ n \in Nat /\ f * c \in Nat /\ n * t \in Nat
      /\ AccountantsFrom(o) = 1 + f /\ ClientsFrom(o) = 1 + f + f
      /\ ThreadsFrom(o) = ClientsFrom(o) + f * c /\ ItemCount(o) = ThreadsFrom(o) + n * t
  BY SizesAreNumbers
     DEF Places, FirmsFrom, AccountantsFrom, ClientsFrom, ThreadsFrom, ItemCount
<1>2. FirmsInPlace(o)
  <2> SUFFICES ASSUME NEW i \in 1..f
               PROVE  /\ FirmsFrom + i \in 2..AccountantsFrom(o)
                      /\ ItemsOf(o)[FirmsFrom + i] = FirmItem(o, i)
                      /\ AccountantsFrom(o) + i \in 2..ClientsFrom(o)
                      /\ ItemsOf(o)[AccountantsFrom(o) + i] = AccountantsItem(o, i)
    BY DEF FirmsInPlace
  <2>1. /\ ItemsOf(o)[FirmsFrom + i] = _seed_firms(o)[i]
        /\ ItemsOf(o)[AccountantsFrom(o) + i] = _seed_accountants(o)[i]
    BY ItemsInBlocks
  <2>2. _seed_firms(o)[i] = FirmItem(o, i) /\ _seed_accountants(o)[i] = AccountantsItem(o, i)
    BY DEF _seed_firms, _seed_accountants, FirmItem, AccountantsItem
  <2>3. FirmsFrom + i \in 2..AccountantsFrom(o) /\ AccountantsFrom(o) + i \in 2..ClientsFrom(o)
    BY <1>1 DEF FirmsFrom
  <2> QED
    BY <2>1, <2>2, <2>3
<1>3. ClientsInPlace(o)
  <2> SUFFICES ASSUME NEW i \in 1..f, NEW m \in 0..(c - 1)
               PROVE  /\ ClientPlace(o, i, m) \in (ClientsFrom(o) + 1)..ThreadsFrom(o)
                      /\ ItemsOf(o)[ClientPlace(o, i, m)] = ClientItem(o, i, m)
    BY DEF ClientsInPlace
  <2>1. PICK k \in 1..(f * c) : k = (i - 1) * c + m + 1
    BY <1>1, Numbered
  <2>2. ClientPlace(o, i, m) = ClientsFrom(o) + k
    BY <2>1 DEF ClientPlace
  <2>3. ItemsOf(o)[ClientsFrom(o) + k] = _seed_clients(o)[k]
    BY <2>1, ItemsInBlocks
  <2>4. (k - 1) \div c + 1 = i /\ (k - 1) % c = m
    <3>1. PICK q \in Nat : q = i - 1
      OBVIOUS
    <3> HIDE DEF c
    <3>2. k - 1 = q * c + m /\ c \in Nat \ {0}
      BY <1>1, <2>1, <3>1
    <3>3. (q * c + m) \div c = q /\ (q * c + m) % c = m
      BY <3>2, Quotient
    <3> QED
      BY <3>1, <3>2, <3>3
  <2>5. _seed_clients(o)[k] = ClientItem(o, i, m)
    <3>1. _seed_clients(o)[k] = Item("client", <<(k - 1) \div c + 1, (k - 1) % c>>,
                                     o.names[(k - 1) \div c + 1], <<>>)
      BY <2>1 DEF _seed_clients
    <3> QED
      BY <2>4, <3>1 DEF ClientItem
  <2>6. ClientsFrom(o) + k \in (ClientsFrom(o) + 1)..ThreadsFrom(o)
    BY <1>1, <2>1
  <2> QED
    BY <2>2, <2>3, <2>5, <2>6
<1>4. ThreadsInPlace(o)
  <2> SUFFICES ASSUME NEW p \in 1..n, NEW m \in 0..(t - 1)
               PROVE  /\ ThreadPlace(o, p, m) \in (ThreadsFrom(o) + 1)..ItemCount(o)
                      /\ ItemsOf(o)[ThreadPlace(o, p, m)] = ThreadItem(o, p, m)
    BY DEF ThreadsInPlace
  <2>1. PICK k \in 1..(n * t) : k = (p - 1) * t + m + 1
    BY <1>1, Numbered
  <2>2. ThreadPlace(o, p, m) = ThreadsFrom(o) + k
    BY <2>1 DEF ThreadPlace
  <2>3. ItemsOf(o)[ThreadsFrom(o) + k] = _seed_threads(o)[k]
    BY <2>1, ItemsInBlocks DEF Places
  <2>4. (k - 1) \div t + 1 = p /\ (k - 1) % t = m
    <3>1. PICK q \in Nat : q = p - 1
      OBVIOUS
    <3> HIDE DEF t
    <3>2. k - 1 = q * t + m /\ t \in Nat \ {0}
      BY <1>1, <2>1, <3>1
    <3>3. (q * t + m) \div t = q /\ (q * t + m) % t = m
      BY <3>2, Quotient
    <3> QED
      BY <3>1, <3>2, <3>3
  <2>5. _seed_threads(o)[k] = ThreadItem(o, p, m)
    <3>1. _seed_threads(o)[k] = ThreadOf(o, (k - 1) \div t + 1, (k - 1) % t,
                                         FirmAt((k - 1) \div t + 1, o))
      BY <2>1 DEF _seed_threads, Places
    <3> QED
      BY <2>4, <3>1 DEF ThreadItem
  <2>6. ThreadsFrom(o) + k \in (ThreadsFrom(o) + 1)..ItemCount(o)
    BY <1>1, <2>1
  <2> QED
    BY <2>2, <2>3, <2>5, <2>6
<1> QED
  BY <1>2, <1>3, <1>4

\* The item at place k, by its table.
KindOf(o, k) ==
  \/ k = 1 /\ ItemsOf(o)[k] = Item("superuser", <<>>, "", <<>>)
  \/ \E i \in 1..o.size.firms : k = FirmsFrom + i /\ ItemsOf(o)[k] = FirmItem(o, i)
  \/ \E i \in 1..o.size.firms :
       k = AccountantsFrom(o) + i /\ ItemsOf(o)[k] = AccountantsItem(o, i)
  \/ \E i \in 1..o.size.firms, m \in 0..(o.size.clients_per_firm - 1) :
       k = ClientPlace(o, i, m) /\ ItemsOf(o)[k] = ClientItem(o, i, m)
  \/ \E p \in 1..Places(o), t \in 0..(o.size.threads_per_firm - 1) :
       k = ThreadPlace(o, p, t) /\ ItemsOf(o)[k] = ThreadItem(o, p, t)

LEMMA TableOfItem ==
  ASSUME NEW o, NEW i, NEW j
  PROVE  /\ Item("superuser", <<>>, "", <<>>).table = "superuser"
         /\ FirmItem(o, i).table = "firm"
         /\ AccountantsItem(o, i).table = "accountants"
         /\ ClientItem(o, i, j).table = "client"
         /\ ThreadItem(o, i, j).table = "thread"
BY DEF FirmItem, AccountantsItem, ClientItem, ThreadItem, ThreadOf, Item

LEMMA EachItem ==
  ASSUME NEW o, Options(o), NEW k \in 1..ItemCount(o)
  PROVE  KindOf(o, k)
<1> DEFINE f == o.size.firms
           c == o.size.clients_per_firm
           t == o.size.threads_per_firm
           n == Places(o)
<1>1. /\ f \in Nat /\ c \in Nat /\ t \in Nat /\ n \in Nat /\ f * c \in Nat /\ n * t \in Nat
      /\ AccountantsFrom(o) = 1 + f /\ ClientsFrom(o) = 1 + f + f
      /\ ThreadsFrom(o) = ClientsFrom(o) + f * c /\ ItemCount(o) = ThreadsFrom(o) + n * t
  BY SizesAreNumbers
     DEF Places, FirmsFrom, AccountantsFrom, ClientsFrom, ThreadsFrom, ItemCount
<1>2. CASE k = 1
  BY <1>2, ItemsInBlocks DEF KindOf, _seed_superuser
<1>3. CASE k \in 2..AccountantsFrom(o)
  <2>1. k - 1 \in 1..f /\ k = FirmsFrom + (k - 1)
    BY <1>1, <1>3 DEF FirmsFrom
  <2> QED
    BY <2>1, ItemPlaces DEF KindOf, FirmsInPlace
<1>4. CASE k \in (AccountantsFrom(o) + 1)..ClientsFrom(o)
  <2>1. k - (1 + f) \in 1..f /\ k = AccountantsFrom(o) + (k - (1 + f))
    BY <1>1, <1>4
  <2> QED
    BY <2>1, ItemPlaces DEF KindOf, FirmsInPlace
<1>5. CASE k \in (ClientsFrom(o) + 1)..ThreadsFrom(o)
  <2>1. k - ClientsFrom(o) \in 1..(f * c)
    BY <1>1, <1>5
  <2>2. PICK i \in 1..f, m \in 0..(c - 1) : k - ClientsFrom(o) = (i - 1) * c + m + 1
    BY <1>1, <2>1, Numbered
  <2>3. k = ClientPlace(o, i, m)
    <3>1. PICK q \in 1..(f * c) : q = (i - 1) * c + m + 1
      BY <2>1, <2>2
    <3> QED
      BY <1>1, <1>5, <2>2, <3>1 DEF ClientPlace
  <2> QED
    BY <2>3, ItemPlaces DEF KindOf, ClientsInPlace
<1>6. CASE k \in (ThreadsFrom(o) + 1)..ItemCount(o)
  <2>1. k - ThreadsFrom(o) \in 1..(n * t)
    BY <1>1, <1>6
  <2>2. PICK p \in 1..n, m \in 0..(t - 1) : k - ThreadsFrom(o) = (p - 1) * t + m + 1
    BY <1>1, <2>1, Numbered
  <2>3. k = ThreadPlace(o, p, m)
    <3>1. PICK q \in 1..(n * t) : q = (p - 1) * t + m + 1
      BY <2>1, <2>2
    <3> QED
      BY <1>1, <1>6, <2>2, <3>1 DEF ThreadPlace
  <2> QED
    BY <2>3, ItemPlaces DEF KindOf, ThreadsInPlace
<1> QED
  BY <1>1, <1>2, <1>3, <1>4, <1>5, <1>6

IsFirm(o, k, item) ==
  \E i \in 1..o.size.firms : k = FirmsFrom + i /\ item = FirmItem(o, i)
IsAccountants(o, k, item) ==
  \E i \in 1..o.size.firms : k = AccountantsFrom(o) + i /\ item = AccountantsItem(o, i)
IsClient(o, k, item) ==
  \E i \in 1..o.size.firms, m \in 0..(o.size.clients_per_firm - 1) :
    k = ClientPlace(o, i, m) /\ item = ClientItem(o, i, m)
IsThread(o, k, item) ==
  \E p \in 1..Places(o), t \in 0..(o.size.threads_per_firm - 1) :
    k = ThreadPlace(o, p, t) /\ item = ThreadItem(o, p, t)

LEMMA KindByTable ==
  ASSUME NEW o, NEW k, KindOf(o, k), NEW item, item = ItemsOf(o)[k]
  PROVE  /\ item.table = "firm" => IsFirm(o, k, item)
         /\ item.table = "accountants" => IsAccountants(o, k, item)
         /\ item.table = "client" => IsClient(o, k, item)
         /\ item.table = "thread" => IsThread(o, k, item)
<1>1. \/ item = Item("superuser", <<>>, "", <<>>)
      \/ IsFirm(o, k, item) \/ IsAccountants(o, k, item)
      \/ IsClient(o, k, item) \/ IsThread(o, k, item)
  BY DEF KindOf, IsFirm, IsAccountants, IsClient, IsThread
<1>2. item = Item("superuser", <<>>, "", <<>>) => item.table = "superuser"
  BY TableOfItem
<1>3. IsFirm(o, k, item) => item.table = "firm"
  BY TableOfItem DEF IsFirm
<1>4. IsAccountants(o, k, item) => item.table = "accountants"
  BY TableOfItem DEF IsAccountants
<1>5. IsClient(o, k, item) => item.table = "client"
  BY TableOfItem DEF IsClient
<1>6. IsThread(o, k, item) => item.table = "thread"
  BY TableOfItem DEF IsThread
<1> QED
  BY <1>1, <1>2, <1>3, <1>4, <1>5, <1>6

LEMMA BlocksInOrder ==
  ASSUME NEW o, Options(o)
  PROVE  /\ AccountantsFrom(o) \in Nat /\ ClientsFrom(o) \in Nat /\ ThreadsFrom(o) \in Nat
         /\ ItemCount(o) \in Nat /\ 1 <= AccountantsFrom(o)
         /\ AccountantsFrom(o) <= ClientsFrom(o) /\ ClientsFrom(o) <= ThreadsFrom(o)
         /\ ThreadsFrom(o) <= ItemCount(o)
BY SizesAreNumbers DEF FirmsFrom, AccountantsFrom, ClientsFrom, ThreadsFrom, ItemCount

-----------------------------------------------------------------------------
(***************************************************************************)
(* Reruns.                                                                 *)
(***************************************************************************)
OInv == TInv /\ InOrder /\ Complete

LEMMA SameIsTransitive ==
  ASSUME NEW a, NEW b, NEW c, Same(a, b), Same(c, b)
  PROVE  Same(a, c) /\ Same(c, a)
BY DEF Same

\* With the same names and no larger sizes, a run asks for the same items.
LEMMA CoveredItems ==
  ASSUME NEW o, NEW p, Options(o), Options(p), o.names = p.names,
         p.size.firms <= o.size.firms,
         p.size.clients_per_firm <= o.size.clients_per_firm,
         p.size.threads_per_firm <= o.size.threads_per_firm,
         NEW k \in 1..ItemCount(p)
  PROVE  \E j \in 1..ItemCount(o) : Same(ItemsOf(o)[j], ItemsOf(p)[k])
<1>1. /\ o.size.firms \in Nat /\ o.size.clients_per_firm \in Nat
      /\ o.size.threads_per_firm \in Nat /\ Places(o) \in Nat
      /\ p.size.firms \in Nat /\ p.size.clients_per_firm \in Nat
      /\ p.size.threads_per_firm \in Nat /\ Places(p) \in Nat
  BY SizesAreNumbers DEF Places
<1>2. FirmsInPlace(o) /\ ClientsInPlace(o) /\ ThreadsInPlace(o) /\ KindOf(p, k)
  BY ItemPlaces, EachItem
<1>3. Places(p) <= Places(o)
  <2>1. FirstIndexes(p) \subseteq FirstIndexes(o)
    BY <1>1 DEF FirstIndexes
  <2> QED
    BY <2>1, FirstIndexesAreCounted, FS_Subset DEF Places
<1>4. /\ AccountantsFrom(o) \in Nat /\ ClientsFrom(o) \in Nat /\ ThreadsFrom(o) \in Nat
      /\ ItemCount(o) \in Nat /\ 1 <= AccountantsFrom(o)
      /\ AccountantsFrom(o) <= ClientsFrom(o) /\ ClientsFrom(o) <= ThreadsFrom(o)
      /\ ThreadsFrom(o) <= ItemCount(o)
  BY BlocksInOrder
<1>5. CASE k = 1 /\ ItemsOf(p)[k] = Item("superuser", <<>>, "", <<>>)
  <2>1. ItemsOf(o)[1] = Item("superuser", <<>>, "", <<>>)
    BY ItemsInBlocks DEF _seed_superuser
  <2>2. 1 \in 1..ItemCount(o)
    BY <1>4
  <2> QED
    BY <1>5, <2>1, <2>2 DEF Same
<1>6. ASSUME NEW i \in 1..p.size.firms, ItemsOf(p)[k] = FirmItem(p, i)
      PROVE  \E j \in 1..ItemCount(o) : Same(ItemsOf(o)[j], ItemsOf(p)[k])
  <2>1. i \in 1..o.size.firms
    BY <1>1
  <2>2. FirmsFrom + i \in 1..ItemCount(o) /\ ItemsOf(o)[FirmsFrom + i] = FirmItem(o, i)
    BY <1>2, <1>4, <2>1 DEF FirmsInPlace, FirmsFrom
  <2>3. FirmItem(o, i) = FirmItem(p, i)
    BY DEF FirmItem
  <2> QED
    BY <1>6, <2>2, <2>3 DEF Same
<1>7. ASSUME NEW i \in 1..p.size.firms, ItemsOf(p)[k] = AccountantsItem(p, i)
      PROVE  \E j \in 1..ItemCount(o) : Same(ItemsOf(o)[j], ItemsOf(p)[k])
  <2>1. i \in 1..o.size.firms
    BY <1>1
  <2>2. /\ AccountantsFrom(o) + i \in 1..ItemCount(o)
        /\ ItemsOf(o)[AccountantsFrom(o) + i] = AccountantsItem(o, i)
    BY <1>1, <1>2, <1>4, <2>1 DEF FirmsInPlace
  <2>3. AccountantsItem(o, i) = AccountantsItem(p, i)
    BY DEF AccountantsItem
  <2> QED
    BY <1>7, <2>2, <2>3 DEF Same
<1>8. ASSUME NEW i \in 1..p.size.firms, NEW m \in 0..(p.size.clients_per_firm - 1),
             ItemsOf(p)[k] = ClientItem(p, i, m)
      PROVE  \E j \in 1..ItemCount(o) : Same(ItemsOf(o)[j], ItemsOf(p)[k])
  <2>1. i \in 1..o.size.firms /\ m \in 0..(o.size.clients_per_firm - 1)
    BY <1>1
  <2>2. PICK j : j = ClientPlace(o, i, m)
    OBVIOUS
  <2>3. j \in (ClientsFrom(o) + 1)..ThreadsFrom(o) /\ ItemsOf(o)[j] = ClientItem(o, i, m)
    BY <1>2, <2>1, <2>2 DEF ClientsInPlace
  <2>4. j \in 1..ItemCount(o)
    BY <1>4, <2>3
  <2>5. ClientItem(o, i, m) = ClientItem(p, i, m)
    BY DEF ClientItem
  <2> QED
    BY <1>8, <2>3, <2>4, <2>5 DEF Same
<1>9. ASSUME NEW i \in 1..Places(p), NEW t \in 0..(p.size.threads_per_firm - 1),
             ItemsOf(p)[k] = ThreadItem(p, i, t)
      PROVE  \E j \in 1..ItemCount(o) : Same(ItemsOf(o)[j], ItemsOf(p)[k])
  <2>1. i \in 1..Places(o) /\ t \in 0..(o.size.threads_per_firm - 1)
    BY <1>1, <1>3
  <2>2. PICK j : j = ThreadPlace(o, i, t)
    OBVIOUS
  <2>3. j \in (ThreadsFrom(o) + 1)..ItemCount(o) /\ ItemsOf(o)[j] = ThreadItem(o, i, t)
    BY <1>2, <2>1, <2>2 DEF ThreadsInPlace
  <2>4. j \in 1..ItemCount(o)
    BY <1>4, <2>3
  <2>5. Same(ThreadItem(o, i, t), ThreadItem(p, i, t))
    BY DEF ThreadItem, ThreadOf, Item, Same
  <2> QED
    BY <1>9, <2>3, <2>4, <2>5
<1> QED
  BY <1>2, <1>5, <1>6, <1>7, <1>8, <1>9 DEF KindOf

\* r asks for no more than a run that had committed when it began.
Rerun(r) == \E a \in before[r] : phase[a] = "committed" /\ Covers(a, r)

EndedBefore == \A r \in Runs : \A a \in before[r] : phase[a] \in Ended

SomeTwice == \E a, b \in db : Twice(a, b)

RerunsAddNothing ==
  \A r \in Runs : Rerun(r) =>
    /\ pending[r] = {} /\ phase[r] # "creating"
    /\ phase[r] = "failed" => NoClients(r) \/ SomeTwice

LEMMA NextItemIsOne ==
  ASSUME TInv, InOrder, NEW r \in Runs, Running(r), todo[r] # <<>>
  PROVE  /\ r \in DOMAIN opts /\ Options(opts[r])
         /\ \E k \in 1..ItemCount(opts[r]) : /\ Now(r) = ItemsOf(opts[r])[k]
                                             /\ KindOf(opts[r], k)
                                             /\ AtItem(r, k - 1)
<1>1. r \in DOMAIN opts
  BY DEF TInv, StartedInTurn, Running
<1>2. PICK n \in Nat : AtItem(r, n)
  BY DEF InOrder
<1>3. /\ Options(opts[r]) /\ Items(r) = ItemsOf(opts[r])
      /\ Len(Items(r)) = ItemCount(opts[r])
  BY <1>1, ItemsAreItems
<1>4. n + 1 \in 1..Len(Items(r)) /\ Now(r) = Items(r)[n + 1]
  BY <1>1, <1>2, NextItem DEF Now
<1>5. (n + 1) - 1 = n /\ n + 1 \in 1..ItemCount(opts[r])
  BY <1>3, <1>4
<1>6. KindOf(opts[r], n + 1)
  BY <1>3, <1>5, EachItem
<1> QED
  BY <1>1, <1>2, <1>3, <1>4, <1>5, <1>6

\* Whatever a rerun comes to is there.
LEMMA RerunFinds ==
  ASSUME OInv, NEW r \in Runs, Running(r), todo[r] # <<>>, Rerun(r)
  PROVE  Found(r, Now(r)) # {}
<1> USE DEF OInv
<1>1. PICK a \in before[r] : phase[a] = "committed" /\ Covers(a, r)
  BY DEF Rerun
<1>2. a \in Runs /\ a \in DOMAIN opts
  BY <1>1 DEF TInv, Typed, StartedInTurn
<1>3. /\ Options(opts[a]) /\ Items(a) = ItemsOf(opts[a])
      /\ Len(Items(a)) = ItemCount(opts[a])
  BY <1>2, ItemsAreItems
<1>4. PICK k \in 1..ItemCount(opts[r]) : Options(opts[r]) /\ Now(r) = ItemsOf(opts[r])[k]
  BY NextItemIsOne
<1>5. /\ opts[a].names = opts[r].names
      /\ opts[r].size.firms <= opts[a].size.firms
      /\ opts[r].size.clients_per_firm <= opts[a].size.clients_per_firm
      /\ opts[r].size.threads_per_firm <= opts[a].size.threads_per_firm
  BY <1>1, <1>4 DEF Covers, Options
<1>6. PICK j \in 1..ItemCount(opts[a]) : Same(ItemsOf(opts[a])[j], ItemsOf(opts[r])[k])
  BY <1>3, <1>4, <1>5, CoveredItems
<1>7. PICK row \in db : Same(row.item, Items(a)[j])
  BY <1>1, <1>2, <1>3, <1>6 DEF Complete
<1>8. Same(row.item, Now(r))
  BY <1>3, <1>4, <1>6, <1>7 DEF Same
<1> QED
  BY <1>8 DEF Found, Visible

\* The two exceptions that are not about another run.
LEMMA SeveralAreTwice ==
  ASSUME TInv, NEW r \in Runs, Several(r)
  PROVE  \E a, b \in Visible(r) : Twice(a, b)
<1>1. PICK a \in Found(r, Now(r)), b \in Found(r, Now(r)) : a # b
  BY DEF Several
<1>2. a \in Visible(r) /\ b \in Visible(r) /\ Same(a.item, b.item)
  BY SameIsTransitive DEF Found
<1>3. a \in AllRows /\ b \in AllRows
  BY <1>2 DEF Visible, AllRows
<1> QED
  BY <1>1, <1>2, <1>3 DEF TInv, Unique, Twice

LEMMA NoClientToTake ==
  ASSUME TInv, InOrder, NEW r \in Runs, NoClient(r)
  PROVE  NoClients(r)
<1>1. Running(r) /\ todo[r] # <<>> /\ Now(r).table = "thread" /\ Now(r).client = <<>>
  BY DEF NoClient, At, Running, Now
<1> DEFINE o == opts[r]
<1>2. PICK k \in 1..ItemCount(o) : Options(o) /\ Now(r) = ItemsOf(o)[k] /\ KindOf(o, k)
  BY <1>1, NextItemIsOne
<1>3. PICK p \in 1..Places(o), t \in 0..(o.size.threads_per_firm - 1) : Now(r) = ThreadItem(o, p, t)
  <2>1. IsThread(o, k, Now(r))
    BY <1>1, <1>2, KindByTable
  <2> QED
    BY <2>1 DEF IsThread
<1>4. o.size.threads_per_firm \in Nat /\ o.size.threads_per_firm > 0
  BY <1>2, <1>3, SizesAreNumbers
<1>5. o.size.clients_per_firm = 0
  <2> SUFFICES ASSUME o.size.clients_per_firm # 0 PROVE FALSE
    OBVIOUS
  <2>1. PICK x, y : Now(r).client = <<x, y>>
    BY <1>3 DEF ThreadItem, ThreadOf, Item
  <2>2. <<x, y>> # <<>>
    OBVIOUS
  <2> QED
    BY <1>1, <2>1, <2>2
<1> QED
  BY <1>4, <1>5 DEF NoClients

LEMMA StepKeepsReruns ==
  ASSUME OInv, EndedBefore, RerunsAddNothing, NEW r \in Runs, Step(r) \/ Kill(r)
  PROVE  EndedBefore' /\ RerunsAddNothing'
<1> USE DEF OInv
<1>1. /\ Running(r)
      /\ Skips(r) \/ Creates(r) \/ Inserts(r) \/ Commits(r) \/ Fails(r) \/ Kill(r)
  BY StepComesTo DEF Kill
<1>2. /\ UNCHANGED <<engine, opts, before>> /\ db \subseteq db'
      /\ \A q \in Runs \ {r} : phase'[q] = phase[q] /\ pending'[q] = pending[q]
  BY <1>1, StepsOfOne
<1>3. \A q \in Runs : \A a \in before[q] : a \in Runs /\ a # r /\ phase'[a] = phase[a]
  BY <1>1, <1>2 DEF TInv, Typed, EndedBefore, Running, Ended
<1>4. EndedBefore'
  BY <1>2, <1>3 DEF EndedBefore
<1>5. ASSUME NEW q \in Runs, Rerun(q)'
      PROVE  Rerun(q)
  BY <1>2, <1>3, <1>5 DEF Rerun, Covers
<1>6. SomeTwice => SomeTwice'
  BY <1>2 DEF SomeTwice, Twice
<1>7. ASSUME NEW q \in Runs, q # r, Rerun(q)'
      PROVE  /\ pending'[q] = {} /\ phase'[q] # "creating"
             /\ phase'[q] = "failed" => NoClients(q)' \/ SomeTwice'
  BY <1>2, <1>5, <1>6, <1>7 DEF RerunsAddNothing, NoClients
<1>8. ASSUME Rerun(r)'
      PROVE  /\ pending'[r] = {} /\ phase'[r] # "creating"
             /\ phase'[r] = "failed" => NoClients(r)' \/ SomeTwice'
  <2>1. Rerun(r) /\ pending[r] = {} /\ phase[r] = "running"
    BY <1>1, <1>5, <1>8 DEF RerunsAddNothing, Running
  <2>2. todo[r] # <<>> => Found(r, Now(r)) # {}
    BY <1>1, <2>1, RerunFinds
  <2>3. CASE Skips(r)
    BY <2>1, <2>3 DEF Skips, Skip
  <2>4. ~Creates(r) /\ ~Inserts(r)
    BY <2>2 DEF Creates, Inserts, At
  <2>5. CASE Commits(r) \/ Kill(r)
    BY <2>5 DEF Commits, Kill, TInv, Typed
  <2>6. CASE Fails(r)
    <3>1. pending'[r] = {} /\ phase'[r] = "failed"
      BY <2>6 DEF Fails, Fail, TInv, Typed
    <3>2. ~LateThread(r) /\ ~LockedOut(r)
      BY <2>1, <2>2 DEF LateThread, LockedOut
    <3>3. CASE Several(r)
      <4>1. SomeTwice
        BY <2>1, <3>3, SeveralAreTwice DEF SomeTwice, Visible
      <4> QED
        BY <1>6, <3>1, <4>1
    <3>4. CASE NoClient(r)
      BY <1>2, <3>1, <3>4, NoClientToTake DEF NoClients
    <3> QED
      BY <2>6, <3>2, <3>3, <3>4 DEF Fails
  <2> QED
    BY <1>1, <2>3, <2>4, <2>5, <2>6
<1> QED
  BY <1>4, <1>7, <1>8 DEF RerunsAddNothing

LEMMA StartKeepsReruns ==
  ASSUME OInv, EndedBefore, RerunsAddNothing, NEW r \in Runs, Start(r)
  PROVE  EndedBefore' /\ RerunsAddNothing'
<1> USE DEF OInv
<1>1. /\ phase[r] = "idle" /\ UNCHANGED <<engine, db, pending, opts>>
      /\ \A q \in Runs : /\ phase'[q] = IF q = r THEN "running" ELSE phase[q]
                         /\ before'[q] = IF q = r THEN {o \in Runs : phase[o] \in Ended}
                                         ELSE before[q]
  BY DEF Start, TInv, Typed
<1>2. EndedBefore'
  <2> SUFFICES ASSUME NEW q \in Runs, NEW a \in before'[q]
               PROVE  phase'[a] \in Ended
    BY DEF EndedBefore
  <2>1. a \in Runs /\ phase[a] \in Ended
    BY <1>1 DEF EndedBefore, TInv, Typed
  <2>2. a # r
    BY <1>1, <2>1 DEF Ended
  <2> QED
    BY <1>1, <2>1, <2>2
<1>3. pending[r] = {}
  BY <1>1 DEF TInv, OwnRows, Running
<1>4. ASSUME NEW q \in Runs, q # r, Rerun(q)'
      PROVE  Rerun(q)
  <2>1. PICK a \in before[q] : phase'[a] = "committed" /\ Covers(a, q)'
    BY <1>1, <1>4 DEF Rerun
  <2>2. a \in Runs /\ phase[a] = "committed" /\ Covers(a, q)
    BY <1>1, <2>1 DEF EndedBefore, TInv, Typed, Covers
  <2> QED
    BY <2>2 DEF Rerun
<1>5. SomeTwice' = SomeTwice
  BY <1>1 DEF SomeTwice, Twice
<1>6. RerunsAddNothing'
  BY <1>1, <1>3, <1>4, <1>5 DEF RerunsAddNothing, NoClients
<1> QED
  BY <1>2, <1>6

LEMMA RerunInvariant == Spec => [](OInv /\ EndedBefore /\ RerunsAddNothing)
<1>1. Init => EndedBefore /\ RerunsAddNothing
  BY DEF Init, EndedBefore, RerunsAddNothing, Rerun
<1>2. ASSUME OInv, EndedBefore, RerunsAddNothing, UNCHANGED vars
      PROVE  EndedBefore' /\ RerunsAddNothing'
  BY <1>2 DEF vars, EndedBefore, RerunsAddNothing, Rerun, Covers, NoClients, SomeTwice, Twice
<1>3. OInv /\ EndedBefore /\ RerunsAddNothing /\ [Next]_vars => EndedBefore' /\ RerunsAddNothing'
  BY <1>2, StartKeepsReruns, StepKeepsReruns DEF Next
<1> QED
  BY <1>1, <1>3, OrderInvariant, PTL DEF Spec, OInv

(***************************************************************************)
(* Running seed_data again with the same names and no larger sizes, after  *)
(* a run that committed, adds nothing, and fails only for want of clients  *)
(* or over a client that is there twice, whatever runs beside it.          *)
(***************************************************************************)
THEOREM RerunsAreHarmless == Spec => []RerunAddsNothing
<1>1. RerunsAddNothing => RerunAddsNothing
  BY DEF RerunsAddNothing, RerunAddsNothing, Rerun, SomeTwice
<1> QED
  BY <1>1, RerunInvariant, PTL

-----------------------------------------------------------------------------
(***************************************************************************)
(* Overlaps.                                                               *)
(***************************************************************************)
NInv == OInv /\ EndedBefore

LEMMA NInvariant == Spec => []NInv
BY RerunInvariant, PTL DEF NInv

\* What is in the database was made by runs that committed.
ByCommitted == \A row \in db : row.by \in Runs /\ phase[row.by] = "committed"

\* Every row is an item of the run that made it.
IsItemOf(row, options) ==
  /\ row.by \in DOMAIN options
  /\ \E k \in 1..ItemCount(options[row.by]) : row.item = ItemsOf(options[row.by])[k]
RowsAreItems == \A row \in AllRows : IsItemOf(row, opts)

\* Who has made a client can see the client's firm.
SeesFirm(r, firm) ==
  \E row \in Visible(r) : row.item.table = "firm" /\ row.item.key = <<firm>>
FirmsFirst ==
  \A r \in Runs : \A row \in pending[r] :
    row.item.table = "client" => SeesFirm(r, row.item.firm)

TwiceApart ==
  \A a, b \in AllRows : Twice(a, b) =>
    /\ engine = "postgres" /\ Overlap(a.by, b.by)
    /\ \A f \in AllRows : f.item.table = "firm" /\ f.item.firm = a.item.firm
                            => f.by # a.by /\ f.by # b.by

SomeOverlap == \E a, b \in Runs : Overlap(a, b)

\* A thread that turns up after the test is another run's.
LateByOverlap ==
  \A r \in Runs : phase[r] = "creating" /\ Found(r, Now(r)) # {} => SomeOverlap

FailedForReason ==
  \A r \in Runs : phase[r] = "failed" => NoClients(r) \/ SomeOverlap

Apart == ByCommitted /\ RowsAreItems /\ FirmsFirst /\ TwiceApart /\ LateByOverlap /\ FailedForReason

LEMMA BothUnderWay ==
  ASSUME NInv, NEW q \in Runs, NEW r \in Runs, q # r, Running(q), Running(r)
  PROVE  Overlap(q, r) /\ Overlap(r, q)
BY DEF NInv, EndedBefore, Ended, Running, Overlap, Started

LEMMA RowsHaveRuns ==
  ASSUME NInv, ByCommitted, NEW row \in AllRows
  PROVE  /\ row.by \in Runs /\ phase[row.by] # "idle"
         /\ row \in db \/ row \in pending[row.by]
         /\ Running(row.by) => row \in pending[row.by]
<1>1. CASE row \in db
  BY <1>1 DEF ByCommitted, Running
<1>2. CASE row \notin db
  <2>1. PICK r \in Runs : row \in pending[r]
    BY <1>2 DEF AllRows
  <2>2. row.by = r /\ Running(r)
    BY <2>1 DEF NInv, OInv, TInv, OwnRows
  <2> QED
    BY <2>1, <2>2 DEF Running
<1> QED
  BY <1>1, <1>2

\* Everything before the next item has been seen to.
LEMMA SeenBefore ==
  ASSUME NInv, NEW r \in Runs, Running(r), todo[r] # <<>>
  PROVE  \E k \in 1..ItemCount(opts[r]) :
           /\ Options(opts[r]) /\ Now(r) = ItemsOf(opts[r])[k] /\ KindOf(opts[r], k)
           /\ \A j \in 1..(k - 1) : \E row \in Visible(r) : Same(row.item, ItemsOf(opts[r])[j])
<1>1. PICK k \in 1..ItemCount(opts[r]) :
        /\ r \in DOMAIN opts /\ Options(opts[r]) /\ Now(r) = ItemsOf(opts[r])[k]
        /\ KindOf(opts[r], k) /\ AtItem(r, k - 1)
  BY NextItemIsOne DEF NInv, OInv
<1>2. Items(r) = ItemsOf(opts[r])
  BY <1>1, ItemsAreItems DEF NInv, OInv
<1> QED
  BY <1>1, <1>2 DEF AtItem, Sees

LEMMA ClientAfterFirm ==
  ASSUME NInv, NEW r \in Runs, Running(r), todo[r] # <<>>, Now(r).table = "client"
  PROVE  SeesFirm(r, Now(r).firm)
<1> DEFINE o == opts[r]
<1>1. PICK k \in 1..ItemCount(o) :
        /\ Options(o) /\ Now(r) = ItemsOf(o)[k] /\ KindOf(o, k)
        /\ \A j \in 1..(k - 1) : \E row \in Visible(r) : Same(row.item, ItemsOf(o)[j])
  BY SeenBefore
<1>2. PICK i \in 1..o.size.firms, m \in 0..(o.size.clients_per_firm - 1) :
        k = ClientPlace(o, i, m) /\ Now(r) = ClientItem(o, i, m)
  <2>1. IsClient(o, k, Now(r))
    BY <1>1, KindByTable
  <2> QED
    BY <2>1 DEF IsClient
<1>3. FirmsFrom + i \in 1..(k - 1) /\ ItemsOf(o)[FirmsFrom + i] = FirmItem(o, i)
  <2>1. /\ FirmsFrom + i \in 2..AccountantsFrom(o) /\ ItemsOf(o)[FirmsFrom + i] = FirmItem(o, i)
        /\ k \in (ClientsFrom(o) + 1)..ThreadsFrom(o)
    BY <1>1, <1>2, ItemPlaces DEF FirmsInPlace, ClientsInPlace
  <2>2. /\ AccountantsFrom(o) \in Nat /\ ClientsFrom(o) \in Nat /\ ThreadsFrom(o) \in Nat
        /\ AccountantsFrom(o) <= ClientsFrom(o)
    BY <1>1, BlocksInOrder
  <2> QED
    BY <2>1, <2>2
<1>4. PICK row \in Visible(r) : Same(row.item, FirmItem(o, i))
  BY <1>1, <1>3
<1> QED
  BY <1>2, <1>4 DEF SeesFirm, Same, FirmItem, ClientItem, Item

\* Two runs that make one client make no firm of it: each has seen the firm.
LEMMA FirmOfNeither ==
  ASSUME NInv, ByCommitted, RowsAreItems, NEW q \in Runs, NEW r \in Runs, q # r,
         Running(r), NEW firm, SeesFirm(q, firm),
         NEW f \in AllRows, f.item.table = "firm", f.item.firm = firm
  PROVE  f.by # r
<1> SUFFICES ASSUME f.by = r PROVE FALSE
  OBVIOUS
<1>1. PICK g \in Visible(q) : g.item.table = "firm" /\ g.item.key = <<firm>>
  BY DEF SeesFirm
<1>2. g \in AllRows /\ g.by # r
  <2>1. CASE g \in db
    BY <2>1 DEF ByCommitted, Running, AllRows
  <2>2. CASE g \in pending[q]
    BY <2>2 DEF NInv, OInv, TInv, OwnRows, AllRows
  <2> QED
    BY <1>1, <2>1, <2>2 DEF Visible
<1>3. f.item.key = <<firm>>
  <2>1. PICK k \in 1..ItemCount(opts[f.by]) :
          f.by \in DOMAIN opts /\ f.item = ItemsOf(opts[f.by])[k]
    BY DEF RowsAreItems, IsItemOf
  <2>2. Options(opts[f.by])
    BY <2>1, ItemsAreItems DEF NInv, OInv
  <2>3. IsFirm(opts[f.by], k, f.item)
    BY <2>1, <2>2, EachItem, KindByTable
  <2> QED
    BY <2>3 DEF IsFirm, FirmItem, Item
<1>4. Same(f.item, g.item) /\ f # g
  BY <1>1, <1>2, <1>3 DEF Same
<1> QED
  BY <1>2, <1>4 DEF NInv, OInv, TInv, Unique

Moves(r) ==
  \/ Start(r)
  \/ Skips(r) \/ Creates(r) \/ Inserts(r) \/ Commits(r) \/ Fails(r) \/ Kill(r)

LEMMA OverlapLasts ==
  ASSUME NInv, NEW r \in Runs, Moves(r),
         NEW a \in Runs, NEW b \in Runs, Overlap(a, b)
  PROVE  Overlap(a, b)'
<1>1. CASE Start(r)
  BY <1>1 DEF Start, Overlap, Started, NInv, OInv, TInv, Typed
<1>2. CASE Skips(r) \/ Creates(r) \/ Inserts(r) \/ Commits(r) \/ Fails(r) \/ Kill(r)
  <2>1. before' = before /\ \A q \in Runs \ {r} : phase'[q] = phase[q]
    BY <1>2, StepsOfOne DEF NInv, OInv
  <2>2. phase[r] # "idle" /\ phase'[r] # "idle"
    BY <1>2 DEF Skips, Skip, Creates, At, Inserts, Running, Commits, Fails, Fail, Several,
       NoClient, LateThread, LockedOut, Kill, NInv, OInv, TInv, Typed
  <2> QED
    BY <2>1, <2>2 DEF Overlap, Started
<1> QED
  BY <1>1, <1>2 DEF Moves

LEMMA SomeOverlapLasts ==
  ASSUME NInv, NEW r \in Runs, Moves(r),
         SomeOverlap
  PROVE  SomeOverlap'
BY OverlapLasts DEF SomeOverlap

\* What a move of r does to the rows and to the phases.
LEMMA RowsOfMove ==
  ASSUME NInv, NEW r \in Runs, Moves(r)
  PROVE  /\ UNCHANGED <<engine, opts>> /\ db \subseteq db'
         /\ phase[r] = "idle" \/ Running(r)
         /\ \A q \in Runs \ {r} : phase'[q] = phase[q] /\ todo'[q] = todo[q]
                                  /\ pending'[q] = pending[q]
         /\ ~Commits(r) => db' = db
         /\ ~Inserts(r) => AllRows' \subseteq AllRows /\ pending'[r] \subseteq pending[r]
<1> USE DEF NInv, OInv, TInv, Typed
<1>1. CASE Start(r)
  BY <1>1 DEF Start, AllRows, Commits
<1>2. ASSUME Skips(r) \/ Creates(r) \/ Inserts(r) \/ Commits(r) \/ Fails(r) \/ Kill(r)
      PROVE  /\ Running(r)
             /\ ~Commits(r) => db' = db
             /\ ~Inserts(r) => AllRows' \subseteq AllRows /\ pending'[r] \subseteq pending[r]
  <2>1. CASE Skips(r)
    BY <2>1 DEF Skips, Skip, Running, AllRows
  <2>2. CASE Creates(r)
    BY <2>2 DEF Creates, At, Running, AllRows
  <2>3. CASE Inserts(r)
    BY <2>3 DEF Inserts
  <2>4. CASE Commits(r)
    <3>1. \A q \in Runs : pending'[q] = IF q = r THEN {} ELSE pending[q]
      BY <2>4 DEF Commits
    <3>2. AllRows' \subseteq AllRows
      BY <2>4, <3>1 DEF Commits, AllRows
    <3> QED
      BY <2>4, <3>1, <3>2 DEF Commits, Running
  <2>5. CASE Fails(r) \/ Kill(r)
    <3>1. Running(r) /\ db' = db
      BY <2>5 DEF Fails, Fail, Several, NoClient, LateThread, LockedOut, At, Kill, Running
    <3>2. \A q \in Runs : pending'[q] = IF q = r THEN {} ELSE pending[q]
      BY <2>5 DEF Fails, Fail, Kill
    <3>3. AllRows' \subseteq AllRows
      BY <3>1, <3>2 DEF AllRows
    <3> QED
      BY <3>1, <3>2, <3>3
  <2> QED
    BY <1>2, <2>1, <2>2, <2>3, <2>4, <2>5
<1>3. CASE ~Start(r)
  <2>1. Skips(r) \/ Creates(r) \/ Inserts(r) \/ Commits(r) \/ Fails(r) \/ Kill(r)
    BY <1>3 DEF Moves
  <2> QED
    BY <1>2, <2>1, StepsOfOne
<1> QED
  BY <1>1, <1>3

LEMMA CommittedStays ==
  ASSUME NInv, ByCommitted, NEW r \in Runs, Moves(r)
  PROVE  ByCommitted'
<1> USE DEF NInv, OInv, TInv, Typed
<1>1. \A row \in db : row.by \in Runs /\ phase'[row.by] = "committed"
  BY RowsOfMove DEF ByCommitted, Running
<1>2. CASE Commits(r)
  <2>1. db' = db \cup pending[r] /\ phase'[r] = "committed"
    BY <1>2 DEF Commits
  <2>2. \A row \in pending[r] : row.by = r
    BY DEF OwnRows
  <2> QED
    BY <1>1, <2>1, <2>2 DEF ByCommitted
<1>3. CASE ~Commits(r)
  BY <1>1, <1>3, RowsOfMove DEF ByCommitted
<1> QED
  BY <1>2, <1>3

\* The row that an insert adds.
New(r) == [item |-> Now(r), by |-> r]

LEMMA InsertAdds ==
  ASSUME NInv, NEW r \in Runs, Inserts(r)
  PROVE  /\ Running(r) /\ todo[r] # <<>> /\ Found(r, Now(r)) = {} /\ ~Waits(r, Now(r))
         /\ AllRows' = AllRows \cup {New(r)} /\ db' = db
         /\ \A q \in Runs : pending'[q] = IF q = r THEN pending[r] \cup {New(r)} ELSE pending[q]
         /\ New(r).item = Now(r) /\ New(r).by = r
<1>1. /\ Running(r) /\ todo[r] # <<>> /\ Found(r, Now(r)) = {} /\ ~Waits(r, Now(r))
      /\ db' = db /\ New(r).item = Now(r) /\ New(r).by = r
  BY DEF Inserts, New
<1>2. \A q \in Runs : pending'[q] = IF q = r THEN pending[r] \cup {New(r)} ELSE pending[q]
  BY DEF Inserts, New, NInv, OInv, TInv, Typed
<1>3. AllRows' = AllRows \cup {New(r)}
  <2> HIDE DEF New
  <2> QED
    BY <1>1, <1>2 DEF AllRows
<1> QED
  BY <1>1, <1>2, <1>3

LEMMA ItemsStay ==
  ASSUME NInv, RowsAreItems, NEW r \in Runs, Moves(r)
  PROVE  RowsAreItems'
<1>1. opts' = opts
  BY RowsOfMove
<1>2. \A row \in AllRows : IsItemOf(row, opts')
  BY <1>1 DEF RowsAreItems
<1>3. CASE Inserts(r)
  <2>1. /\ r \in DOMAIN opts
        /\ \E k \in 1..ItemCount(opts[r]) : Now(r) = ItemsOf(opts[r])[k]
    <3>1. Running(r) /\ todo[r] # <<>> /\ TInv /\ InOrder
      BY <1>3, InsertAdds DEF NInv, OInv
    <3> QED
      BY <3>1, NextItemIsOne
  <2>2. PICK new : new = New(r)
    OBVIOUS
  <2>3. new.by = r /\ new.item = Now(r) /\ AllRows' = AllRows \cup {new}
    BY <1>3, <2>2, InsertAdds
  <2>4. IsItemOf(new, opts)
    BY <2>1, <2>3 DEF IsItemOf
  <2>5. IsItemOf(new, opts')
    BY <1>1, <2>4
  <2> QED
    BY <1>2, <2>3, <2>5 DEF RowsAreItems
<1>4. CASE ~Inserts(r)
  <2>1. AllRows' \subseteq AllRows
    BY <1>4, RowsOfMove
  <2> QED
    BY <1>2, <2>1 DEF RowsAreItems
<1> QED
  BY <1>3, <1>4

\* A firm in sight stays in sight of a run that goes on.
LEMMA FirmStays ==
  ASSUME NEW q, NEW firm, SeesFirm(q, firm), db \subseteq db', pending[q] \subseteq pending'[q]
  PROVE  SeesFirm(q, firm)'
BY DEF SeesFirm, Visible

LEMMA FirmsStayFirst ==
  ASSUME NInv, FirmsFirst, NEW r \in Runs, Moves(r)
  PROVE  FirmsFirst'
<1>1. ASSUME NEW q \in Runs, q # r, NEW row \in pending'[q], row.item.table = "client"
      PROVE  SeesFirm(q, row.item.firm)'
  BY <1>1, RowsOfMove, FirmStays DEF FirmsFirst
<1>2. ASSUME NEW row \in pending'[r], row.item.table = "client"
      PROVE  SeesFirm(r, row.item.firm)'
  <2>1. CASE Inserts(r)
    <3>1. pending[r] \subseteq pending'[r] /\ db \subseteq db'
      <4>1. pending'[r] = pending[r] \cup {New(r)} /\ db' = db
        BY <2>1, InsertAdds
      <4> QED
        BY <4>1
    <3>2. CASE row \in pending[r]
      <4>1. SeesFirm(r, row.item.firm)
        BY <1>2, <3>2 DEF FirmsFirst
      <4> QED
        BY <3>1, <4>1, FirmStays
    <3>3. CASE row = New(r)
      <4>1. row.item = Now(r) /\ Running(r) /\ todo[r] # <<>>
        BY <2>1, <3>3, InsertAdds
      <4>2. SeesFirm(r, Now(r).firm)
        BY <1>2, <4>1, ClientAfterFirm
      <4>3. SeesFirm(r, row.item.firm)
        BY <4>1, <4>2
      <4> QED
        BY <3>1, <4>3, FirmStays
    <3>4. pending'[r] = pending[r] \cup {New(r)}
      BY <2>1, InsertAdds
    <3> QED
      BY <1>2, <3>2, <3>3, <3>4
  <2>2. CASE ~Inserts(r)
    <3>1. pending'[r] \subseteq pending[r] /\ db \subseteq db'
      BY <2>2, RowsOfMove
    <3>2. row \in pending[r] /\ pending'[r] # {}
      BY <1>2, <3>1
    <3>3. pending[r] = pending'[r]
      BY <2>2, <3>2
         DEF Moves, Start, Skips, Skip, Creates, Commits, Fails, Fail, Kill, NInv, OInv, TInv, Typed
    <3> QED
      <4>1. SeesFirm(r, row.item.firm)
        BY <1>2, <3>2 DEF FirmsFirst
      <4> QED
        BY <3>1, <3>3, <4>1, FirmStays
  <2> QED
    BY <2>1, <2>2
<1> QED
  BY <1>1, <1>2 DEF FirmsFirst

\* A new client row and its twin are of runs that overlap, and neither of
\* them makes the firm.
LEMMA NewClientApart ==
  ASSUME NInv, ByCommitted, RowsAreItems, FirmsFirst, NEW r \in Runs, Inserts(r),
         Now(r).table = "client", NEW b \in AllRows, Same(b.item, Now(r))
  PROVE  /\ engine = "postgres" /\ b.by \in Runs /\ b.by # r /\ Running(b.by) /\ Running(r)
         /\ \A f \in AllRows : f.item.table = "firm" /\ f.item.firm = Now(r).firm
                                 => f.by # r /\ f.by # b.by
<1>1. /\ Running(r) /\ todo[r] # <<>> /\ Found(r, Now(r)) = {} /\ ~Waits(r, Now(r))
  BY InsertAdds
<1>2. b.by \in Runs /\ (b \in db \/ b \in pending[b.by])
  BY RowsHaveRuns
<1>3. b \in pending[b.by] /\ b.by # r
  BY <1>1, <1>2 DEF Found, Visible
<1>4. Running(b.by)
  BY <1>2, <1>3 DEF NInv, OInv, TInv, OwnRows
<1>5. engine = "postgres"
  <2>1. engine # "sqlite"
    BY <1>1, <1>2, <1>3 DEF Waits
  <2> QED
    BY <2>1, EnginesAssumption DEF NInv, OInv, TInv, Typed
<1>6. b.item.table = "client" /\ b.item.firm = Now(r).firm
  BY DEF Same
<1>7. SeesFirm(b.by, Now(r).firm) /\ SeesFirm(r, Now(r).firm)
  BY <1>1, <1>2, <1>3, <1>6, ClientAfterFirm DEF FirmsFirst
<1>8. ASSUME NEW f \in AllRows, f.item.table = "firm", f.item.firm = Now(r).firm
      PROVE  f.by # r /\ f.by # b.by
  BY <1>1, <1>2, <1>3, <1>4, <1>7, <1>8, FirmOfNeither
<1> QED
  BY <1>1, <1>2, <1>3, <1>4, <1>5, <1>8

\* A run that is about to make a firm has no client of it.
LEMMA NewFirmApart ==
  ASSUME NInv, ByCommitted, RowsAreItems, FirmsFirst, NEW r \in Runs, Inserts(r),
         Now(r).table = "firm", NEW a \in AllRows,
         a.item.table = "client", a.item.firm = Now(r).firm
  PROVE  a.by # r
<1> SUFFICES ASSUME a.by = r PROVE FALSE
  OBVIOUS
<1>1. Running(r) /\ todo[r] # <<>> /\ Found(r, Now(r)) = {}
  BY InsertAdds
<1>2. a \in pending[r]
  BY <1>1, RowsHaveRuns
<1>3. PICK g \in Visible(r) : g.item.table = "firm" /\ g.item.key = <<Now(r).firm>>
  BY <1>2 DEF FirmsFirst, SeesFirm
<1>4. Now(r).key = <<Now(r).firm>>
  <2>1. PICK k \in 1..ItemCount(opts[r]) :
          Now(r) = ItemsOf(opts[r])[k] /\ KindOf(opts[r], k)
    BY <1>1, SeenBefore
  <2>2. IsFirm(opts[r], k, Now(r))
    BY <2>1, KindByTable
  <2> QED
    BY <2>2 DEF IsFirm, FirmItem, Item
<1>5. Same(g.item, Now(r))
  BY <1>3, <1>4 DEF Same
<1> QED
  BY <1>1, <1>3, <1>5 DEF Found

TwiceIsApart(a, b) ==
  /\ engine = "postgres" /\ Overlap(a.by, b.by)
  /\ \A f \in AllRows : f.item.table = "firm" /\ f.item.firm = a.item.firm
                          => f.by # a.by /\ f.by # b.by

LEMMA TwiceIsSymmetric ==
  ASSUME NEW a, NEW b, Twice(a, b)
  PROVE  /\ Twice(b, a) /\ a.item.table = "client" /\ b.item.table = "client"
         /\ a.item.firm = b.item.firm /\ Same(a.item, b.item) /\ Same(b.item, a.item)
BY DEF Twice, Same

LEMMA TwiceStaysApart ==
  ASSUME NInv, ByCommitted, RowsAreItems, FirmsFirst, TwiceApart, NEW r \in Runs, Moves(r)
  PROVE  TwiceApart'
<1>1. \A a, b \in AllRows : Twice(a, b) => TwiceIsApart(a, b)
  BY DEF TwiceApart, TwiceIsApart
<1>2. engine' = engine
  BY RowsOfMove
<1>3. ASSUME NEW a \in AllRows, NEW b \in AllRows, TwiceIsApart(a, b)
      PROVE  engine' = "postgres" /\ Overlap(a.by, b.by)'
  BY <1>2, <1>3, RowsHaveRuns, OverlapLasts DEF TwiceIsApart
<1>4. CASE ~Inserts(r)
  <2>1. AllRows' \subseteq AllRows
    BY <1>4, RowsOfMove
  <2>2. ASSUME NEW a \in AllRows', NEW b \in AllRows', Twice(a, b)
        PROVE  /\ engine' = "postgres" /\ Overlap(a.by, b.by)'
               /\ \A f \in AllRows' : f.item.table = "firm" /\ f.item.firm = a.item.firm
                                        => f.by # a.by /\ f.by # b.by
    <3>1. a \in AllRows /\ b \in AllRows /\ TwiceIsApart(a, b)
      BY <1>1, <2>1, <2>2
    <3>2. engine' = "postgres" /\ Overlap(a.by, b.by)'
      BY <1>3, <3>1
    <3> QED
      BY <2>1, <3>1, <3>2 DEF TwiceIsApart
  <2> QED
    BY <2>2 DEF TwiceApart, Twice
<1>5. CASE Inserts(r)
  <2>1. PICK new : new = New(r)
    OBVIOUS
  <2>2. AllRows' = AllRows \cup {new} /\ new.item = Now(r) /\ new.by = r
    BY <1>5, <2>1, InsertAdds
  \* The new row and another.
  <2>3. ASSUME NEW b \in AllRows, Twice(new, b)
        PROVE  /\ engine' = "postgres" /\ Overlap(r, b.by)' /\ Overlap(b.by, r)'
               /\ \A f \in AllRows' : f.item.table = "firm" /\ f.item.firm = Now(r).firm
                                        => f.by # r /\ f.by # b.by
    <3>1. Now(r).table = "client" /\ Same(b.item, Now(r))
      BY <2>2, <2>3, TwiceIsSymmetric
    <3>2. /\ engine = "postgres" /\ b.by \in Runs /\ b.by # r /\ Running(b.by) /\ Running(r)
          /\ \A f \in AllRows : f.item.table = "firm" /\ f.item.firm = Now(r).firm
                                  => f.by # r /\ f.by # b.by
      BY <1>5, <3>1, NewClientApart
    <3>3. Overlap(r, b.by)' /\ Overlap(b.by, r)'
      BY <3>2, BothUnderWay, OverlapLasts
    <3>4. new.item.table # "firm"
      BY <2>2, <3>1
    <3> QED
      BY <1>2, <2>2, <3>2, <3>3, <3>4
  \* Two rows that were there.
  <2>4. ASSUME NEW a \in AllRows, NEW b \in AllRows, Twice(a, b)
        PROVE  /\ engine' = "postgres" /\ Overlap(a.by, b.by)'
               /\ \A f \in AllRows' : f.item.table = "firm" /\ f.item.firm = a.item.firm
                                        => f.by # a.by /\ f.by # b.by
    <3>1. TwiceIsApart(a, b) /\ engine' = "postgres" /\ Overlap(a.by, b.by)'
      BY <1>1, <1>3, <2>4
    <3>2. /\ a.item.table = "client" /\ b.item.table = "client"
          /\ a.item.firm = b.item.firm
      BY <2>4, TwiceIsSymmetric
    <3>3. ASSUME new.item.table = "firm", new.item.firm = a.item.firm
          PROVE  a.by # r /\ b.by # r
      BY <1>5, <2>2, <3>2, <3>3, NewFirmApart
    <3>4. ASSUME NEW f \in AllRows', f.item.table = "firm", f.item.firm = a.item.firm
          PROVE  f.by # a.by /\ f.by # b.by
      <4>1. CASE f \in AllRows
        BY <3>1, <3>4, <4>1 DEF TwiceIsApart
      <4>2. CASE f = new
        BY <2>2, <3>3, <3>4, <4>2
      <4> QED
        BY <2>2, <4>1, <4>2
    <3> QED
      BY <3>1, <3>4
  <2>5. ASSUME NEW a \in AllRows', NEW b \in AllRows', Twice(a, b)
        PROVE  /\ engine' = "postgres" /\ Overlap(a.by, b.by)'
               /\ \A f \in AllRows' : f.item.table = "firm" /\ f.item.firm = a.item.firm
                                        => f.by # a.by /\ f.by # b.by
    <3>1. a # b /\ Twice(b, a) /\ a.item.firm = b.item.firm
      BY <2>5, TwiceIsSymmetric DEF Twice
    <3>2. CASE a \in AllRows /\ b \in AllRows
      BY <2>4, <2>5, <3>2
    <3>3. CASE a = new /\ b \in AllRows
      BY <2>2, <2>3, <2>5, <3>3
    <3>4. CASE b = new /\ a \in AllRows
      BY <2>2, <2>3, <3>1, <3>4
    <3> QED
      BY <2>2, <3>1, <3>2, <3>3, <3>4
  <2> QED
    BY <2>5 DEF TwiceApart, Twice
<1> QED
  BY <1>4, <1>5

LEMMA LateStays ==
  ASSUME NInv, LateByOverlap, NEW r \in Runs, Moves(r)
  PROVE  LateByOverlap'
<1> SUFFICES ASSUME NEW q \in Runs, (phase[q] = "creating" /\ Found(q, Now(q)) # {})'
             PROVE  SomeOverlap'
  BY DEF LateByOverlap
<1> USE DEF NInv, OInv, TInv, Typed
<1>1. CASE q = r
  <2>1. Creates(r)
    BY <1>1 DEF Moves, Start, Skips, Skip, Inserts, Commits, Fails, Fail, Kill
  <2>2. Found(r, Now(r))' = Found(r, Now(r)) /\ Found(r, Now(r)) = {}
    BY <2>1 DEF Creates, Found, Visible, Now
  <2> QED
    BY <1>1, <2>2
<1>2. CASE q # r
  <2>1. phase[q] = "creating" /\ todo'[q] = todo[q] /\ pending'[q] = pending[q]
    BY <1>2, RowsOfMove
  <2>2. CASE Start(r)
    <3>1. Found(q, Now(q))' = Found(q, Now(q))
      BY <2>1, <2>2 DEF Start, Found, Visible, Now
    <3> QED
      BY <2>1, <3>1, SomeOverlapLasts DEF LateByOverlap
  <2>3. CASE ~Start(r)
    <3>1. Running(r) /\ Running(q)
      BY <2>1, <2>3 DEF Moves, Skips, Creates, Inserts, Commits, Fails, Several, NoClient,
         LateThread, LockedOut, Kill, At, Running
    <3> QED
      BY <1>2, <3>1, BothUnderWay, SomeOverlapLasts DEF SomeOverlap
  <2> QED
    BY <2>2, <2>3
<1> QED
  BY <1>1, <1>2

LEMMA FailuresStay ==
  ASSUME NInv, ByCommitted, TwiceApart, LateByOverlap, FailedForReason, NEW r \in Runs, Moves(r)
  PROVE  FailedForReason'
<1> SUFFICES ASSUME NEW q \in Runs, phase'[q] = "failed"
             PROVE  NoClients(q)' \/ SomeOverlap'
  BY DEF FailedForReason
<1> USE DEF NInv, OInv, TInv, Typed
<1>1. NoClients(q)' = NoClients(q)
  BY RowsOfMove DEF NoClients
<1>2. CASE q # r
  <2>1. phase[q] = "failed"
    BY <1>2, RowsOfMove
  <2> QED
    BY <1>1, <2>1, SomeOverlapLasts DEF FailedForReason
<1>3. CASE q = r
  <2>1. Fails(r)
    <3>1. phase[r] # "failed"
      BY RowsOfMove DEF Running
    <3> QED
      BY <1>3, <3>1 DEF Moves, Start, Skips, Skip, Creates, Inserts, Commits, Kill
  <2>2. CASE Several(r)
    <3>1. PICK a \in Visible(r), b \in Visible(r) : Twice(a, b)
      BY <2>2, SeveralAreTwice
    <3>2. a \in AllRows /\ b \in AllRows
      BY <3>1 DEF Visible, AllRows
    <3>3. Overlap(a.by, b.by) /\ a.by \in Runs /\ b.by \in Runs
      BY <3>1, <3>2, RowsHaveRuns DEF TwiceApart
    <3> QED
      BY <3>3, SomeOverlapLasts DEF SomeOverlap
  <2>3. CASE NoClient(r)
    BY <1>1, <1>3, <2>3, NoClientToTake
  <2>4. CASE LateThread(r)
    BY <2>4, SomeOverlapLasts DEF LateThread, LateByOverlap
  <2>5. CASE LockedOut(r)
    <3>1. PICK other \in Runs \ {r} : Running(other)
      BY <2>5 DEF LockedOut, Waits, OwnRows
    <3> QED
      BY <2>5, <3>1, BothUnderWay, SomeOverlapLasts DEF SomeOverlap, LockedOut
  <2> QED
    BY <2>1, <2>2, <2>3, <2>4, <2>5 DEF Fails
<1> QED
  BY <1>2, <1>3

LEMMA ApartInit == Init => Apart
<1> SUFFICES ASSUME Init PROVE Apart
  OBVIOUS
<1>1. AllRows = {}
  BY DEF Init, AllRows
<1> QED
  BY <1>1 DEF Init, Apart, ByCommitted, RowsAreItems, FirmsFirst, TwiceApart, LateByOverlap,
     FailedForReason

LEMMA ApartStays ==
  ASSUME NInv, Apart, [Next]_vars
  PROVE  Apart'
<1>1. CASE UNCHANGED vars
  <2> USE <1>1 DEF vars
  <2>1. AllRows' = AllRows /\ ByCommitted'
    BY DEF AllRows, Apart, ByCommitted
  <2>2. RowsAreItems'
    BY <2>1 DEF Apart, RowsAreItems
  <2>3. FirmsFirst'
    BY DEF Apart, FirmsFirst, SeesFirm, Visible
  <2>4. \A a, b : Overlap(a, b)' = Overlap(a, b) /\ Twice(a, b)' = Twice(a, b)
    BY DEF Overlap, Started, Twice
  <2>5. TwiceApart'
    BY <2>1, <2>4 DEF Apart, TwiceApart
  <2>6. SomeOverlap' = SomeOverlap /\ \A r : NoClients(r)' = NoClients(r)
    BY <2>4 DEF SomeOverlap, NoClients
  <2>7. LateByOverlap' /\ FailedForReason'
    BY <2>6 DEF Apart, LateByOverlap, FailedForReason, Found, Visible, Now
  <2> QED
    BY <2>1, <2>2, <2>3, <2>5, <2>7 DEF Apart
<1>2. CASE Next
  <2>1. PICK r \in Runs : Start(r) \/ Step(r) \/ Kill(r)
    BY <1>2 DEF Next
  <2>2. Moves(r)
    BY <2>1, StepComesTo DEF Moves, NInv, OInv
  <2> QED
    BY <2>2, CommittedStays, ItemsStay, FirmsStayFirst, TwiceStaysApart, LateStays, FailuresStay
       DEF Apart
<1> QED
  BY <1>1, <1>2

LEMMA ApartInvariant == Spec => [](NInv /\ Apart)
BY ApartInit, ApartStays, NInvariant, PTL DEF Spec

(***************************************************************************)
(* get_or_create leaves a client there twice only where two runs overlap,  *)
(* on PostgreSQL, and where neither of them makes the firm.                *)
(***************************************************************************)
THEOREM TwinsAreOfOverlaps == Spec => []TwiceOnlyByOverlap
<1>1. Apart => TwiceOnlyByOverlap
  BY DEF Apart, TwiceApart, AllRows, TwiceOnlyByOverlap
<1> QED
  BY <1>1, ApartInvariant, PTL

(***************************************************************************)
(* Runs that keep out of each other's way do not fail, but for threads     *)
(* without clients: no unique key, lock or second row is in their way.     *)
(***************************************************************************)
THEOREM RunsAloneSucceed == Spec => []AloneSucceeds
<1>1. Apart => AloneSucceeds
  BY DEF Apart, FailedForReason, SomeOverlap, AloneSucceeds
<1> QED
  BY <1>1, ApartInvariant, PTL

-----------------------------------------------------------------------------
(***************************************************************************)
(* Threads and their clients.  The firm of a thread is one of the run's    *)
(* names, and its client's firm is the last firm of that name.             *)
(***************************************************************************)
LEMMA LeastNat ==
  ASSUME NEW T \in SUBSET Nat, T # {}
  PROVE  \E n \in T : \A m \in T : n <= m
<1>1. PICK n \in T : \A m \in T : ~(<<m, n>> \in OpToRel(<, Nat))
  BY NatLessThanWellFounded, WFMin
<1>2. ASSUME NEW m \in T PROVE n <= m
  <2>1. <<m, n>> \notin OpToRel(<, Nat)
    BY <1>1
  <2>2. ~(m < n)
    BY <2>1 DEF OpToRel
  <2> QED
    BY <2>2
<1> QED
  BY <1>2

LEMMA MaxIsOneOf ==
  ASSUME NEW n \in Nat, NEW S \in SUBSET (1..n), S # {}
  PROVE  Max(S) \in S
<1> DEFINE T == {n - i : i \in S}
<1>1. T \in SUBSET Nat /\ T # {}
  <2>1. \A i \in S : i \in 1..n /\ n - i \in Nat
    OBVIOUS
  <2>2. PICK i : i \in S
    OBVIOUS
  <2>3. n - i \in T
    BY <2>2
  <2> QED
    BY <2>1, <2>3
<1>2. PICK d \in T : \A e \in T : d <= e
  <2> HIDE DEF T
  <2> QED
    BY <1>1, LeastNat
<1>3. PICK i \in S : d = n - i
  BY <1>2
<1>4. ASSUME NEW j \in S PROVE i >= j
  <2>1. n - j \in T
    OBVIOUS
  <2>2. n - i <= n - j
    BY <1>2, <1>3, <2>1
  <2> QED
    BY <2>2
<1> HIDE DEF T
<1>5. \E x \in S : \A y \in S : x >= y
  BY <1>4
<1> QED
  BY <1>5 DEF Max

LEMMA LastIndexIsOfName ==
  ASSUME NEW o, Options(o), NEW i \in 1..o.size.firms
  PROVE  /\ LastIndex(o.names[i], o) \in 1..o.size.firms
         /\ o.names[LastIndex(o.names[i], o)] = o.names[i]
<1> DEFINE S == {j \in 1..o.size.firms : o.names[j] = o.names[i]}
<1>1. S \in SUBSET (1..o.size.firms) /\ S # {} /\ o.size.firms \in Nat
  BY DEF Options
<1>2. Max(S) \in S
  <2> HIDE DEF S
  <2> QED
    BY <1>1, MaxIsOneOf
<1> QED
  BY <1>2 DEF LastIndex

\* Among the members of a set of numbers, counted from the least, there is one
\* at every place.
UpTo(S, i) == {j \in S : j <= i}

LEMMA PlacesAreTaken ==
  ASSUME NEW n \in Nat, NEW S \in SUBSET (1..n), NEW p \in 1..Cardinality(S)
  PROVE  \E i \in S : Cardinality(UpTo(S, i)) = p
<1> DEFINE c == Cardinality(S)
           place == [i \in S |-> Cardinality(UpTo(S, i))]
<1>1. IsFiniteSet(S) /\ c \in Nat
  <2>1. IsFiniteSet(1..n)
    BY FS_Interval
  <2>2. IsFiniteSet(S)
    BY <2>1, FS_Subset
  <2> QED
    BY <2>2, FS_CardinalityType
<1>2. ASSUME NEW i \in S
      PROVE  /\ IsFiniteSet(UpTo(S, i)) /\ Cardinality(UpTo(S, i)) \in Nat
             /\ UpTo(S, i) # {} /\ Cardinality(UpTo(S, i)) <= c
  <2>1. UpTo(S, i) \in SUBSET S /\ i \in UpTo(S, i)
    BY DEF UpTo
  <2> QED
    BY <1>1, <2>1, FS_Subset, FS_CardinalityType
<1>3. ASSUME NEW i \in S, NEW j \in S, i < j
      PROVE  Cardinality(UpTo(S, i)) < Cardinality(UpTo(S, j))
  <2>1. UpTo(S, i) \cup {j} \in SUBSET UpTo(S, j) /\ j \notin UpTo(S, i)
    <3>1. \A k \in S : k \in Int
      OBVIOUS
    <3>2. \A k \in UpTo(S, i) : k \in S /\ k <= j
      BY <1>3, <3>1 DEF UpTo
    <3>3. ~(j <= i) /\ j <= j
      BY <1>3, <3>1
    <3> QED
      BY <3>2, <3>3 DEF UpTo
  <2>2. Cardinality(UpTo(S, i) \cup {j}) = Cardinality(UpTo(S, i)) + 1
    BY <1>2, <2>1, FS_AddElement
  <2>3. Cardinality(UpTo(S, i) \cup {j}) <= Cardinality(UpTo(S, j))
    BY <1>2, <2>1, FS_Subset
  <2> QED
    BY <1>2, <2>2, <2>3
<1>4. place \in [S -> 1..c]
  <2>1. ASSUME NEW i \in S
        PROVE  Cardinality(UpTo(S, i)) \in 1..c
    <3>1. Cardinality(UpTo(S, i)) # 0
      BY <1>2, FS_EmptySet
    <3> HIDE DEF c
    <3> QED
      BY <1>1, <1>2, <3>1
  <2> HIDE DEF c
  <2> QED
    BY <2>1
<1>5. ASSUME NEW i \in S, NEW j \in S, place[i] = place[j]
      PROVE  i = j
  <2>1. Cardinality(UpTo(S, i)) = Cardinality(UpTo(S, j))
    BY <1>5
  <2>2. ~(i < j) /\ ~(j < i)
    BY <1>2, <1>3, <2>1
  <2> QED
    BY <2>2
<1>6. place \in Surjection(S, 1..c)
  <2>1. place \in Injection(S, 1..c)
    <3> HIDE DEF place, c
    <3> QED
      BY <1>4, <1>5, Fun_IsInj
  <2>2. IsFiniteSet(1..c) /\ Cardinality(1..c) = c
    <3> HIDE DEF c
    <3> QED
      BY <1>1, FS_Interval
  <2>3. Cardinality(S) = Cardinality(1..c)
    BY <2>2
  <2> HIDE DEF place, c
  <2> QED
    BY <1>1, <2>1, <2>2, <2>3, FS_Injection
<1>7. PICK i \in S : place[i] = p
  <2> HIDE DEF place
  <2> QED
    BY <1>6 DEF Surjection
<1> QED
  BY <1>7

LEMMA FirmAtIsOfName ==
  ASSUME NEW o, Options(o), NEW p \in 1..Places(o)
  PROVE  \E i \in 1..o.size.firms : FirmAt(p, o) = o.names[i]
<1>1. o.size.firms \in Nat /\ FirstIndexes(o) \in SUBSET (1..o.size.firms)
  BY DEF Options, FirstIndexes
<1>2. \E i \in FirstIndexes(o) : Cardinality(UpTo(FirstIndexes(o), i)) = p
  BY <1>1, PlacesAreTaken DEF Places
<1>3. \E i \in FirstIndexes(o) : Cardinality({j \in FirstIndexes(o) : j <= i}) = p
  BY <1>2 DEF UpTo
<1> DEFINE i == CHOOSE i \in FirstIndexes(o) : Cardinality({j \in FirstIndexes(o) : j <= i}) = p
<1>4. i \in FirstIndexes(o) /\ FirmAt(p, o) = o.names[i]
  BY <1>3 DEF FirmAt
<1> QED
  BY <1>1, <1>4

\* Among `rows` are the client of a thread, of its firm, and the accountants
\* of the firm that the client was made for; `names` are those of the run.
ClientAmong(item, rows) ==
  \E c \in rows : /\ c.item.table = "client"
                  /\ c.item.key = item.client /\ c.item.firm = item.firm
AccountantsAmong(item, rows) ==
  \E a \in rows : a.item.table = "accountants" /\ a.item.key = <<item.client[1]>>
WithRest(item, names, rows) ==
  /\ ClientAmong(item, rows) /\ AccountantsAmong(item, rows)
  /\ names[item.client[1]] = item.firm

LEMMA ThreadItemParts ==
  ASSUME NEW o, Options(o), NEW p \in 1..Places(o), NEW t \in 0..(o.size.threads_per_firm - 1),
         ThreadItem(o, p, t).client # <<>>
  PROVE  \E i \in 1..o.size.firms, m \in 0..(o.size.clients_per_firm - 1) :
           /\ ThreadItem(o, p, t).client = <<i, m>>
           /\ ThreadItem(o, p, t).firm = o.names[i]
<1> DEFINE c == o.size.clients_per_firm
           i == LastIndex(FirmAt(p, o), o)
<1>1. c # 0 /\ ThreadItem(o, p, t).client = <<i, t % c>> /\ ThreadItem(o, p, t).firm = FirmAt(p, o)
  BY DEF ThreadItem, ThreadOf, Item
<1>2. c \in Nat \ {0} /\ t \in Nat
  BY <1>1 DEF Options
<1>3. t % c \in 0..(c - 1)
  <2> HIDE DEF c
  <2> QED
    BY <1>2, Division
<1>4. PICK j \in 1..o.size.firms : FirmAt(p, o) = o.names[j]
  BY FirmAtIsOfName
<1>5. i \in 1..o.size.firms /\ o.names[i] = FirmAt(p, o)
  BY <1>4, LastIndexIsOfName
<1> HIDE DEF i, c
<1> QED
  BY <1>1, <1>3, <1>5 DEF c

LEMMA ThreadAfterRest ==
  ASSUME NInv, NEW r \in Runs, Running(r), todo[r] # <<>>, Now(r).table = "thread",
         Now(r).client # <<>>
  PROVE  WithRest(Now(r), opts[r].names, Visible(r))
<1> DEFINE o == opts[r]
<1>1. PICK k \in 1..ItemCount(o) :
        /\ Options(o) /\ Now(r) = ItemsOf(o)[k] /\ KindOf(o, k)
        /\ \A j \in 1..(k - 1) : \E row \in Visible(r) : Same(row.item, ItemsOf(o)[j])
  BY SeenBefore
<1>2. PICK p \in 1..Places(o), t \in 0..(o.size.threads_per_firm - 1) :
        k = ThreadPlace(o, p, t) /\ Now(r) = ThreadItem(o, p, t)
  <2>1. IsThread(o, k, Now(r))
    BY <1>1, KindByTable
  <2> QED
    BY <2>1 DEF IsThread
<1>3. PICK i \in 1..o.size.firms, m \in 0..(o.size.clients_per_firm - 1) :
        Now(r).client = <<i, m>> /\ Now(r).firm = o.names[i]
  <2>1. ThreadItem(o, p, t).client # <<>>
    BY <1>2
  <2>2. \E i \in 1..o.size.firms, m \in 0..(o.size.clients_per_firm - 1) :
          /\ ThreadItem(o, p, t).client = <<i, m>>
          /\ ThreadItem(o, p, t).firm = o.names[i]
    BY <1>1, <2>1, ThreadItemParts
  <2> QED
    BY <1>2, <2>2
<1>4. /\ AccountantsFrom(o) \in Nat /\ ClientsFrom(o) \in Nat /\ ThreadsFrom(o) \in Nat
      /\ 1 <= AccountantsFrom(o) /\ AccountantsFrom(o) <= ClientsFrom(o)
      /\ ClientsFrom(o) <= ThreadsFrom(o)
  BY <1>1, BlocksInOrder
<1>5. k \in (ThreadsFrom(o) + 1)..ItemCount(o)
  BY <1>1, <1>2, ItemPlaces DEF ThreadsInPlace
<1>6. ClientAmong(Now(r), Visible(r))
  <2>1. PICK j : j = ClientPlace(o, i, m)
    OBVIOUS
  <2>2. j \in (ClientsFrom(o) + 1)..ThreadsFrom(o) /\ ItemsOf(o)[j] = ClientItem(o, i, m)
    BY <1>1, <2>1, ItemPlaces DEF ClientsInPlace
  <2>3. j \in 1..(k - 1)
    BY <1>4, <1>5, <2>2
  <2>4. PICK c \in Visible(r) : Same(c.item, ClientItem(o, i, m))
    BY <1>1, <2>2, <2>3
  <2> QED
    BY <1>3, <2>4 DEF ClientAmong, Same, ClientItem, Item
<1>7. AccountantsAmong(Now(r), Visible(r))
  <2>1. PICK j : j = AccountantsFrom(o) + i
    OBVIOUS
  <2>2. j \in 2..ClientsFrom(o) /\ ItemsOf(o)[j] = AccountantsItem(o, i)
    BY <1>1, <2>1, ItemPlaces DEF FirmsInPlace
  <2>3. j \in 1..(k - 1)
    BY <1>4, <1>5, <2>2
  <2>4. PICK a \in Visible(r) : Same(a.item, AccountantsItem(o, i))
    BY <1>1, <2>2, <2>3
  <2>5. Now(r).client[1] = i
    BY <1>3
  <2> QED
    BY <2>4, <2>5 DEF AccountantsAmong, Same, AccountantsItem, Item
<1>8. o.names[Now(r).client[1]] = Now(r).firm
  BY <1>3
<1> QED
  BY <1>6, <1>7, <1>8 DEF WithRest

CreatingThread ==
  \A r \in Runs : phase[r] = "creating" => Now(r).table = "thread" /\ Now(r).client # <<>>

\* Every thread has the rest, where its transaction can see it.
ThreadsHaveRest ==
  /\ \A r \in Runs : \A row \in pending[r] :
       row.item.table = "thread" => WithRest(row.item, opts[r].names, Visible(r))
  /\ \A row \in db :
       row.item.table = "thread" => WithRest(row.item, opts[row.by].names, db)

Settled == CreatingThread /\ ThreadsHaveRest

LEMMA RestStays ==
  ASSUME NEW item, NEW names, NEW rows, NEW more, WithRest(item, names, rows), rows \subseteq more
  PROVE  WithRest(item, names, more)
BY DEF WithRest, ClientAmong, AccountantsAmong

LEMMA CreatingStays ==
  ASSUME NInv, CreatingThread, NEW r \in Runs, Moves(r)
  PROVE  CreatingThread'
<1> SUFFICES ASSUME NEW q \in Runs, phase'[q] = "creating"
             PROVE  (Now(q).table = "thread" /\ Now(q).client # <<>>)'
  BY DEF CreatingThread
<1> USE DEF NInv, OInv, TInv, Typed
<1>1. CASE q # r
  <2>1. phase[q] = "creating" /\ Now(q)' = Now(q)
    BY <1>1, RowsOfMove DEF Now
  <2> QED
    BY <2>1 DEF CreatingThread
<1>2. CASE q = r
  <2>1. Creates(r)
    BY <1>2 DEF Moves, Start, Skips, Skip, Inserts, Commits, Fails, Fail, Kill
  <2>2. Now(r).table = "thread" /\ Now(r).client # <<>> /\ Now(r)' = Now(r)
    BY <2>1 DEF Creates, At, Now
  <2> QED
    BY <1>2, <2>2
<1> QED
  BY <1>1, <1>2

LEMMA RestsStay ==
  ASSUME NInv, ByCommitted, CreatingThread, ThreadsHaveRest, NEW r \in Runs, Moves(r)
  PROVE  ThreadsHaveRest'
<1> USE DEF NInv, OInv, TInv, Typed
<1>1. opts' = opts /\ db \subseteq db'
  BY RowsOfMove
<1>2. ASSUME NEW row \in db, row.item.table = "thread"
      PROVE  WithRest(row.item, opts[row.by].names, db')
  BY <1>1, <1>2, RestStays DEF ThreadsHaveRest
<1>3. ASSUME NEW q \in Runs, NEW row \in pending[q], row.item.table = "thread",
             pending[q] \subseteq pending'[q]
      PROVE  WithRest(row.item, opts[q].names, db' \cup pending'[q])
  <2>1. WithRest(row.item, opts[q].names, Visible(q))
    BY <1>3 DEF ThreadsHaveRest
  <2>2. Visible(q) \subseteq db' \cup pending'[q]
    BY <1>1, <1>3 DEF Visible
  <2> QED
    BY <2>1, <2>2, RestStays
<1>4. ASSUME NEW q \in Runs, NEW row \in pending'[q], row.item.table = "thread"
      PROVE  WithRest(row.item, opts[q].names, db' \cup pending'[q])
  <2>1. CASE q # r
    <3>1. pending'[q] = pending[q]
      BY <2>1, RowsOfMove
    <3> QED
      BY <1>3, <1>4, <3>1
  <2>2. CASE q = r /\ Inserts(r)
    <3>1. pending'[r] = pending[r] \cup {New(r)}
      BY <2>2, InsertAdds
    <3>2. CASE row \in pending[r]
      BY <1>3, <1>4, <2>2, <3>1, <3>2
    <3>3. CASE row = New(r)
      <4>1. row.item = Now(r) /\ Running(r) /\ todo[r] # <<>>
        BY <2>2, <3>3, InsertAdds
      <4>2. phase[r] = "creating"
        BY <1>4, <2>2, <4>1 DEF Inserts, At, Now
      <4>3. WithRest(Now(r), opts[r].names, Visible(r))
        BY <1>4, <4>1, <4>2, ThreadAfterRest DEF CreatingThread
      <4>4. Visible(r) \subseteq db' \cup pending'[r]
        BY <1>1, <3>1 DEF Visible
      <4> QED
        BY <2>2, <4>1, <4>3, <4>4, RestStays
    <3> QED
      BY <2>2, <3>1, <3>2, <3>3
  <2>3. CASE q = r /\ ~Inserts(r)
    <3>1. row \in pending[r] /\ pending'[r] # {}
      BY <1>4, <2>3, RowsOfMove
    <3>2. pending[r] = pending'[r]
      BY <2>3, <3>1
         DEF Moves, Start, Skips, Skip, Creates, Commits, Fails, Fail, Kill
    <3> QED
      BY <1>3, <1>4, <2>3, <3>1, <3>2
  <2> QED
    BY <2>1, <2>2, <2>3
<1>5. ASSUME NEW row \in db', row.item.table = "thread"
      PROVE  WithRest(row.item, opts[row.by].names, db')
  <2>1. CASE row \in db
    BY <1>2, <1>5, <2>1
  <2>2. CASE row \notin db
    <3>1. Commits(r) /\ db' = db \cup pending[r]
      <4>1. Commits(r)
        BY <1>5, <2>2, RowsOfMove
      <4> QED
        BY <4>1 DEF Commits
    <3>2. row \in pending[r] /\ row.by = r
      BY <1>5, <2>2, <3>1 DEF OwnRows
    <3>3. WithRest(row.item, opts[r].names, Visible(r))
      BY <1>5, <3>2 DEF ThreadsHaveRest
    <3> QED
      BY <3>1, <3>2, <3>3 DEF Visible
  <2> QED
    BY <2>1, <2>2
<1> QED
  BY <1>1, <1>4, <1>5 DEF ThreadsHaveRest, Visible

LEMMA SettledInvariant == Spec => [](NInv /\ Apart /\ Settled)
<1>1. Init => Settled
  BY DEF Init, Settled, CreatingThread, ThreadsHaveRest
<1>2. ASSUME NInv, Apart, Settled, [Next]_vars
      PROVE  Settled'
  <2>1. CASE UNCHANGED vars
    BY <1>2, <2>1 DEF vars, Settled, CreatingThread, ThreadsHaveRest, Now, Visible
  <2>2. CASE Next
    <3>1. PICK r \in Runs : Start(r) \/ Step(r) \/ Kill(r)
      BY <2>2 DEF Next
    <3>2. Moves(r)
      BY <1>2, <3>1, StepComesTo DEF Moves, NInv, OInv
    <3> QED
      BY <1>2, <3>2, CreatingStays, RestsStay DEF Apart, Settled
  <2> QED
    BY <1>2, <2>1, <2>2
<1> QED
  BY <1>1, <1>2, ApartInvariant, PTL DEF Spec

(***************************************************************************)
(* A committed thread is of the firm of its client, whatever names came    *)
(* twice and whoever made the client; and the accountants its messages are *)
(* from are of that firm, as long as every run met the same names.         *)
(***************************************************************************)
THEOREM ThreadsAreOfTheirFirm == Spec => []ThreadsStayInFirm
<1>1. ASSUME NInv, Apart, Settled
      PROVE  ThreadsStayInFirm
  <2> SUFFICES ASSUME NEW row \in db, row.item.table = "thread"
               PROVE  /\ ClientAmong(row.item, db)
                      /\ (\A r \in Runs : Started(r) => opts[r].names = opts[row.by].names) =>
                           \E a \in db : /\ a.item.table = "accountants"
                                         /\ a.item.key = <<row.item.client[1]>>
                                         /\ a.item.firm = row.item.firm
    BY DEF ThreadsStayInFirm, ClientAmong
  <2>1. WithRest(row.item, opts[row.by].names, db)
    BY <1>1 DEF Settled, ThreadsHaveRest
  <2>2. PICK a \in db : a.item.table = "accountants" /\ a.item.key = <<row.item.client[1]>>
    BY <2>1 DEF WithRest, AccountantsAmong
  <2>3. a.by \in Runs /\ Started(a.by)
    BY <1>1 DEF Apart, ByCommitted, Started
  <2>4. a.item.firm = opts[a.by].names[row.item.client[1]]
    <3>1. PICK k \in 1..ItemCount(opts[a.by]) :
            a.by \in DOMAIN opts /\ a.item = ItemsOf(opts[a.by])[k]
      BY <1>1 DEF Apart, RowsAreItems, IsItemOf, AllRows
    <3>2. Options(opts[a.by])
      BY <1>1, <3>1, ItemsAreItems DEF NInv, OInv
    <3>3. IsAccountants(opts[a.by], k, a.item)
      BY <2>2, <3>1, <3>2, EachItem, KindByTable
    <3>4. PICK i : a.item = AccountantsItem(opts[a.by], i)
      BY <3>3 DEF IsAccountants
    <3>5. a.item.key = <<i>> /\ a.item.firm = opts[a.by].names[i]
      BY <3>4 DEF AccountantsItem, Item
    <3>6. i = row.item.client[1]
      BY <2>2, <3>5
    <3> QED
      BY <3>5, <3>6
  <2>5. opts[row.by].names[row.item.client[1]] = row.item.firm
    BY <2>1 DEF WithRest
  <2> QED
    BY <2>1, <2>2, <2>3, <2>4, <2>5 DEF WithRest
<1> QED
  BY <1>1, SettledInvariant, PTL
===============================================================================
