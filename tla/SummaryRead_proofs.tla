--------------------------- MODULE SummaryRead_proofs ---------------------------
(***************************************************************************)
(* Proofs about SummaryRead, for any readers, writers, send times and TTL, *)
(* and under any of the faults: no false alarm about new mail, and the     *)
(* only two ways in which the cache comes to disagree with the row.        *)
(***************************************************************************)
EXTENDS SummaryRead, TLAPS

-----------------------------------------------------------------------------
(***************************************************************************)
(* Maxima.  The provers know nothing of finite sets, so that each set of   *)
(* messages has a latest one is part of the invariant.                     *)
(***************************************************************************)
HasMax(S) == S = {} \/ \E m \in S : \A n \in S : n <= m

LEMMA MaxProperty ==
  ASSUME NEW S \in SUBSET Nat, S # {}, HasMax(S)
  PROVE  Max(S) \in S /\ \A n \in S : n <= Max(S)
BY DEF HasMax, Max

LEMMA MaxOfMore ==
  ASSUME NEW S \in SUBSET Nat, HasMax(S), NEW m \in Nat
  PROVE  HasMax(S \cup {m})
<1>1. CASE S = {}
  BY <1>1 DEF HasMax
<1>2. CASE S # {}
  <2>1. PICK x \in S : \A n \in S : n <= x
    BY <1>2 DEF HasMax
  <2>2. CASE m <= x
    BY <2>1, <2>2 DEF HasMax
  <2>3. CASE ~(m <= x)
    BY <2>1, <2>3 DEF HasMax
  <2> QED
    BY <2>2, <2>3
<1> QED
  BY <1>1, <1>2

(***************************************************************************)
(* The inductive invariant.                                                *)
(***************************************************************************)
Maxima ==
  /\ HasMax(messages) /\ HasMax(row)
  /\ \A w \in Writers : HasMax(snapshot[w])
  /\ \A r \in Readers : HasMax(fetched[r])

\* What a request is about to serialize or to cache is made from the row that
\* it read, and there was one.
BodyOfRow ==
  \A r \in Readers :
    /\ reader[r] \in {"fetched", "serialized"} => fetched[r] # {}
    /\ reader[r] = "serialized" => payload[r].row = fetched[r]

\* A body says is_stale only if a later message is missing from its row.
Honest(body) ==
  body.is_stale => \E m \in messages \ body.row : \A n \in body.row : n < m

RInv ==
  /\ TypeOK
  /\ Maxima
  /\ BodyOfRow
  /\ Honest(cached.body)
  /\ \A r \in Readers : Honest(payload[r])

-----------------------------------------------------------------------------
LEMMA NoEntryType == NoPayload \in Payloads /\ NoEntry \in [body : Payloads, left : 0..SUMMARY_TTL]
BY SummaryTTLAssumption DEF NoPayload, NoEntry, Payloads

LEMMA InitRInv == Init => RInv
<1> SUFFICES ASSUME Init PROVE RInv
  OBVIOUS
<1>1. TypeOK
  BY NoEntryType DEF Init, TypeOK, ReaderPhases, WriterPhases, NoEntry
<1>2. Maxima /\ BodyOfRow
  BY DEF Init, Maxima, HasMax, BodyOfRow
<1>3. Honest(cached.body) /\ \A r \in Readers : Honest(payload[r])
  BY DEF Init, Honest, NoEntry, NoPayload
<1> QED
  BY <1>1, <1>2, <1>3 DEF RInv

LEMMA CacheGetRInv ==
  ASSUME RInv, NEW z \in Readers, CacheGet(z)
  PROVE  RInv'
<1> USE DEF RInv, CacheGet, readVars, writeVars
<1>1. payload' \in [Readers -> Payloads] /\ reader' \in [Readers -> ReaderPhases]
  BY DEF TypeOK, ReaderPhases
<1>2. TypeOK'
  BY <1>1 DEF TypeOK
<1>3. Maxima'
  BY DEF Maxima
<1>4. BodyOfRow'
  BY DEF TypeOK, BodyOfRow
<1>5. ASSUME NEW r \in Readers PROVE Honest(payload[r])'
  <2>1. payload'[r] = payload[r] \/ payload'[r] = cached.body
    BY DEF TypeOK
  <2> QED
    BY <2>1 DEF Honest
<1>6. Honest(cached.body)'
  BY DEF Honest
<1> QED
  BY <1>2, <1>3, <1>4, <1>5, <1>6

LEMMA FetchRowRInv ==
  ASSUME RInv, NEW z \in Readers, FetchRow(z)
  PROVE  RInv'
<1> USE DEF RInv, FetchRow, readVars, writeVars
<1>1. TypeOK'
  BY DEF TypeOK, ReaderPhases
<1>2. Maxima'
  BY DEF Maxima, TypeOK
<1>3. BodyOfRow'
  BY DEF TypeOK, BodyOfRow
<1>4. Honest(cached.body)' /\ \A r \in Readers : Honest(payload[r])'
  BY DEF Honest
<1> QED
  BY <1>1, <1>2, <1>3, <1>4

\* The one step at which is_stale is computed: of the row that was read.
LEMMA SerializeRInv ==
  ASSUME RInv, NEW z \in Readers, Serialize(z)
  PROVE  RInv'
<1> USE DEF RInv, Serialize, readVars, writeVars
<1> DEFINE body == [row |-> fetched[z], is_stale |-> get_is_stale(fetched[z])]
<1>1. body \in Payloads
  <2>1. fetched[z] \in SUBSET SentAt
    BY DEF TypeOK
  <2>2. get_is_stale(fetched[z]) \in BOOLEAN
    BY DEF get_is_stale
  <2> QED
    BY <2>1, <2>2 DEF Payloads
<1>2. TypeOK'
  BY <1>1 DEF TypeOK, ReaderPhases
<1>3. Maxima'
  BY DEF Maxima
<1>4. BodyOfRow'
  BY DEF TypeOK, BodyOfRow
<1>5. Honest(body)
  <2>1. /\ fetched[z] # {} /\ fetched[z] \subseteq messages /\ messages \subseteq Nat
        /\ HasMax(fetched[z]) /\ HasMax(messages)
    BY SentAtAssumption DEF TypeOK, Maxima, BodyOfRow
  <2>2. Max(messages) \in messages /\ \A n \in messages : n <= Max(messages)
    BY <2>1, MaxProperty
  <2>3. Max(fetched[z]) \in fetched[z] /\ \A n \in fetched[z] : n <= Max(fetched[z])
    BY <2>1, MaxProperty
  <2>4. ASSUME Max(messages) > Max(fetched[z])
        PROVE  \E m \in messages \ fetched[z] : \A n \in fetched[z] : n < m
    <3>1. ASSUME NEW n \in fetched[z] PROVE n < Max(messages)
      <4>1. n \in Nat /\ Max(messages) \in Nat /\ Max(fetched[z]) \in Nat
        BY <2>1, <2>2, <2>3
      <4>2. n <= Max(fetched[z])
        BY <2>3
      <4> QED
        BY <2>4, <4>1, <4>2
    <3>2. Max(messages) \notin fetched[z]
      <4>1. Max(messages) \in Nat
        BY <2>1, <2>2
      <4>2. ~(Max(messages) < Max(messages))
        BY <4>1
      <4> QED
        BY <3>1, <4>2
    <3> QED
      BY <2>2, <3>1, <3>2
  <2> QED
    BY <2>4 DEF Honest, get_is_stale
<1>6. ASSUME NEW r \in Readers PROVE Honest(payload[r])'
  <2>1. payload'[r] = IF r = z THEN body ELSE payload[r]
    BY DEF TypeOK
  <2> QED
    BY <1>5, <2>1 DEF Honest
<1>7. Honest(cached.body)'
  BY DEF Honest
<1> QED
  BY <1>2, <1>3, <1>4, <1>6, <1>7

LEMMA FillRInv ==
  ASSUME RInv, NEW z \in Readers, Fill(z)
  PROVE  RInv'
<1> USE DEF RInv, Fill, readVars, writeVars
<1>1. SUMMARY_TTL \in 0..SUMMARY_TTL /\ SUMMARY_TTL # 0
  BY SummaryTTLAssumption
<1>2. (cached \in [body : Payloads, left : 0..SUMMARY_TTL] /\ (cached.left = 0 <=> cached = NoEntry))'
  BY <1>1 DEF TypeOK, NoEntry
<1>3. TypeOK'
  BY <1>2 DEF TypeOK, ReaderPhases
<1>4. Maxima'
  BY DEF Maxima
<1>5. BodyOfRow'
  BY DEF TypeOK, BodyOfRow
<1>6. Honest(cached.body)' /\ \A r \in Readers : Honest(payload[r])'
  BY DEF Honest
<1> QED
  BY <1>3, <1>4, <1>5, <1>6

LEMMA BeginRInv ==
  ASSUME RInv, NEW z \in Writers, Begin(z)
  PROVE  RInv'
<1> USE DEF RInv, Begin, readVars, writeVars
<1>1. TypeOK'
  BY DEF TypeOK, WriterPhases
<1>2. Maxima'
  BY DEF Maxima, TypeOK
<1>3. BodyOfRow' /\ Honest(cached.body)' /\ \A r \in Readers : Honest(payload[r])'
  BY DEF BodyOfRow, Honest
<1> QED
  BY <1>1, <1>2, <1>3

LEMMA CommitRInv ==
  ASSUME RInv, NEW z \in Writers, Commit(z)
  PROVE  RInv'
<1> USE DEF RInv, Commit, readVars, writeVars
<1>1. TypeOK'
  BY DEF TypeOK, WriterPhases
<1>2. Maxima'
  BY DEF Maxima
<1>3. BodyOfRow' /\ Honest(cached.body)' /\ \A r \in Readers : Honest(payload[r])'
  BY DEF BodyOfRow, Honest
<1> QED
  BY <1>1, <1>2, <1>3

\* A refresh that gives up, and the end of one that wrote: the entry stays or goes.
LEMMA WriterEndRInv ==
  ASSUME RInv, NEW z \in Writers, Fail(z) \/ Invalidate(z) \/ Crash(z)
  PROVE  RInv'
<1> USE DEF RInv, Fail, Invalidate, Crash, readVars, writeVars
<1>1. cached' \in {cached, NoEntry}
  OBVIOUS
<1>2. TypeOK'
  BY <1>1, NoEntryType DEF TypeOK, WriterPhases, NoEntry
<1>3. Maxima' /\ BodyOfRow'
  BY DEF Maxima, BodyOfRow
<1>4. Honest(cached.body)' /\ \A r \in Readers : Honest(payload[r])'
  BY <1>1 DEF Honest, NoEntry, NoPayload
<1> QED
  BY <1>2, <1>3, <1>4

LEMMA ArriveRInv ==
  ASSUME RInv, Arrive
  PROVE  RInv'
<1> USE DEF RInv, readVars, writeVars
<1>1. PICK m \in SentAt \ messages : messages' = messages \cup {m}
  BY DEF Arrive
<1>2. UNCHANGED <<row, cached, readVars, writeVars>>
  BY DEF Arrive
<1>3. TypeOK'
  BY <1>1, <1>2 DEF TypeOK
<1>4. HasMax(messages')
  BY <1>1, MaxOfMore, SentAtAssumption DEF TypeOK, Maxima
<1>5. Maxima'
  BY <1>2, <1>4 DEF Maxima
<1>6. BodyOfRow' /\ Honest(cached.body)' /\ \A r \in Readers : Honest(payload[r])'
  BY <1>1, <1>2 DEF BodyOfRow, Honest
<1> QED
  BY <1>3, <1>5, <1>6

LEMMA TickRInv ==
  ASSUME RInv, Tick
  PROVE  RInv'
<1> USE DEF RInv, Tick, readVars, writeVars
<1>1. cached' = NoEntry \/ (cached.left # 1 /\ cached' = [cached EXCEPT !.left = cached.left - 1])
  OBVIOUS
<1>2. (cached \in [body : Payloads, left : 0..SUMMARY_TTL] /\ (cached.left = 0 <=> cached = NoEntry))'
  <2>1. CASE cached' = NoEntry
    <3>1. NoEntry.left = 0
      BY DEF NoEntry
    <3> QED
      BY <2>1, <3>1, NoEntryType
  <2>2. CASE cached.left # 1 /\ cached' = [cached EXCEPT !.left = cached.left - 1]
    <3>1. cached.left \in Nat /\ cached.left <= SUMMARY_TTL /\ cached.left # 0
      BY SummaryTTLAssumption DEF TypeOK
    <3>2. cached.left - 1 \in 0..SUMMARY_TTL /\ cached.left - 1 # 0
      BY <2>2, <3>1, SummaryTTLAssumption
    <3>3. cached'.left = cached.left - 1 /\ cached'.body = cached.body
      BY <2>2 DEF TypeOK
    <3> QED
      BY <2>2, <3>2, <3>3 DEF TypeOK, NoEntry
  <2> QED
    BY <1>1, <2>1, <2>2
<1>3. TypeOK'
  BY <1>2 DEF TypeOK
<1>4. Maxima' /\ BodyOfRow'
  BY DEF Maxima, BodyOfRow
<1>5. cached'.body \in {cached.body, NoPayload}
  BY <1>1 DEF TypeOK, NoEntry
<1>6. Honest(cached.body)' /\ \A r \in Readers : Honest(payload[r])'
  BY <1>5 DEF Honest, NoPayload
<1> QED
  BY <1>3, <1>4, <1>6

LEMMA NextRInv == RInv /\ [Next]_vars => RInv'
<1> SUFFICES ASSUME RInv, [Next]_vars PROVE RInv'
  OBVIOUS
<1>1. CASE Next
  BY <1>1, CacheGetRInv, FetchRowRInv, SerializeRInv, FillRInv, BeginRInv, CommitRInv,
     WriterEndRInv, ArriveRInv, TickRInv DEF Next, Answer
<1>2. CASE UNCHANGED vars
  BY <1>2 DEF vars, readVars, writeVars, RInv, TypeOK, Maxima, BodyOfRow, Honest
<1> QED
  BY <1>1, <1>2

\* The inductive invariant holds in every reachable state.
THEOREM ReadInvariant == Spec => []RInv
BY InitRInv, NextRInv, PTL DEF Spec

\* Types: above all, the row and what requests and refreshes have read of the
\* thread are of messages that exist, and an entry has ticks left or is none.
THEOREM ReadTypes == Spec => []TypeOK
<1>1. RInv => TypeOK
  BY DEF RInv
<1> QED
  BY <1>1, ReadInvariant, PTL

\* SummaryRetrieveView, SummarySerializer.get_is_stale: a user is told of new
\* mail only if the answer's row leaves a later message out.
THEOREM NoUserIsAlarmedFalsely == Spec => []NoFalseAlarm
<1>1. RInv => NoFalseAlarm
  BY DEF RInv, Honest, NoFalseAlarm
<1> QED
  BY <1>1, ReadInvariant, PTL

-----------------------------------------------------------------------------
\* The steps that may take coherence away: a fill from a row that is no longer
\* the thread's, and a delete that does not happen.
LEMMA StepsKeepCoherence ==
  RInv /\ [Next]_vars =>
    (Coherent /\ ~Coherent' =>
       \/ \E r \in Readers :
            reader[r] = "serialized" /\ reader'[r] = "done" /\ fetched[r] # row
       \/ \E w \in Writers :
            writer[w] = "committed" /\ writer'[w] = "idle" /\ Faults # {})
<1> SUFFICES ASSUME RInv, [Next]_vars, Coherent, ~Coherent'
             PROVE  \/ \E r \in Readers :
                         reader[r] = "serialized" /\ reader'[r] = "done" /\ fetched[r] # row
                    \/ \E w \in Writers :
                         writer[w] = "committed" /\ writer'[w] = "idle" /\ Faults # {}
  OBVIOUS
<1> USE DEF RInv, readVars, writeVars
<1>1. CASE UNCHANGED <<row, cached, writer>>
  BY <1>1 DEF Coherent
<1>2. ASSUME NEW r \in Readers, Fill(r) PROVE fetched[r] # row
  <2>1. CASE UNCHANGED cached
    BY <2>1, <1>2, <1>1 DEF Fill
  <2>2. CASE cached' = [body |-> payload[r], left |-> SUMMARY_TTL]
    BY <2>2, <1>2 DEF Fill, BodyOfRow, Coherent
  <2> QED
    BY <2>1, <2>2, <1>2 DEF Fill
<1>3. ASSUME NEW r \in Readers, Fill(r) PROVE reader[r] = "serialized" /\ reader'[r] = "done"
  BY <1>3 DEF Fill, TypeOK
<1>4. ASSUME NEW w \in Writers, Begin(w) \/ Fail(w) \/ Commit(w) PROVE FALSE
  <2>1. \A v \in Writers : writer[v] = "committed" => writer'[v] = "committed"
    BY <1>4 DEF Begin, Fail, Commit, TypeOK
  <2>2. CASE Commit(w)
    BY <2>2 DEF Commit, TypeOK, Coherent
  <2>3. CASE Begin(w) \/ Fail(w)
    BY <2>1, <2>3 DEF Begin, Fail, Coherent
  <2> QED
    BY <1>4, <2>2, <2>3
<1>5. ASSUME NEW w \in Writers, Invalidate(w) \/ Crash(w)
      PROVE  writer[w] = "committed" /\ writer'[w] = "idle" /\ Faults # {}
  <2>1. writer[w] = "committed" /\ writer'[w] = "idle"
    BY <1>5 DEF Invalidate, Crash, TypeOK
  <2>2. cached' # NoEntry
    BY DEF Coherent
  <2>3. Faults # {}
    BY <1>5, <2>2 DEF Invalidate, Crash, Outage
  <2> QED
    BY <2>1, <2>3
<1>6. CASE Tick
  <2>1. cached' = NoEntry \/ cached'.body = cached.body
    BY <1>6 DEF Tick, TypeOK
  <2> QED
    BY <1>6, <2>1 DEF Tick, Coherent
<1>7. CASE Arrive
  BY <1>1, <1>7 DEF Arrive
<1>8. ASSUME NEW r \in Readers, CacheGet(r) \/ FetchRow(r) \/ Serialize(r) PROVE FALSE
  BY <1>8 DEF CacheGet, FetchRow, Serialize, Coherent
<1> QED
  BY <1>1, <1>2, <1>3, <1>4, <1>5, <1>6, <1>7, <1>8 DEF Next, Answer, vars

\* SummaryService.refresh and its on_commit hook against SummaryRetrieveView:
\* the cache comes to disagree with the row only through the fill of a request
\* that had read an older row, or through a delete that is lost.
THEOREM CacheGoesStaleInTwoWays == Spec => OnlyOutdatedFillsGoStale
<1>1. RInv /\ [Next]_vars =>
        [Coherent /\ ~Coherent'
          => \/ \E r \in Readers :
                  reader[r] = "serialized" /\ reader'[r] = "done" /\ fetched[r] # row
             \/ \E w \in Writers :
                  writer[w] = "committed" /\ writer'[w] = "idle" /\ Faults # {}]_vars
  BY StepsKeepCoherence
<1> QED
  BY <1>1, ReadInvariant, PTL DEF Spec, OnlyOutdatedFillsGoStale
==============================================================================
