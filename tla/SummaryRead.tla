------------------------------ MODULE SummaryRead ------------------------------
(***************************************************************************)
(* GET /api/threads/{id}/summary/ of one thread: the cached payload, the   *)
(* row behind it, and the refreshes that replace the row and then delete   *)
(* the payload (transaction.on_commit in SummaryService.refresh).          *)
(*                                                                         *)
(* A message is its sent_at; a row is the set of messages it was made      *)
(* from, whose maximum is up_to_message_at.  The writers are refreshes     *)
(* with or without the worker's lock: the management command takes none.   *)
(***************************************************************************)
EXTENDS Naturals, FiniteSetsExt

CONSTANTS
  Readers,        \* requests to SummaryRetrieveView
  Writers,        \* runs of SummaryService.refresh
  SentAt,         \* the times the thread's messages may carry
  SUMMARY_TTL,    \* SUMMARY_TTL_SECONDS, in ticks
  Faults          \* a subset of {"crash", "outage"}

ASSUME SentAtAssumption == SentAt \subseteq Nat
ASSUME SummaryTTLAssumption == SUMMARY_TTL \in Nat \ {0}
ASSUME ReadFaultsAssumption == Faults \subseteq {"crash", "outage"}

VARIABLES
  messages,   \* SUBSET SentAt: the EmailMessage rows
  row,        \* SUBSET SentAt: what the EmailSummary row was made from; {} = none
  cached,     \* the entry under summary_key, with the ticks it has left
  writer,     \* [Writers -> WriterPhases]
  snapshot,   \* [Writers -> SUBSET SentAt]: the messages the refresh read
  reader,     \* [Readers -> ReaderPhases]
  fetched,    \* [Readers -> SUBSET SentAt]: the row the request read
  payload     \* [Readers -> Payloads]: the body it serialized or answered

readVars == <<reader, fetched, payload>>
writeVars == <<writer, snapshot>>
vars == <<messages, row, cached, readVars, writeVars>>

ReaderPhases == {"idle", "missed", "fetched", "serialized", "done", "not_generated"}
WriterPhases == {"idle", "calling", "committed"}
Payloads == [row : SUBSET SentAt, is_stale : BOOLEAN]
NoPayload == [row |-> {}, is_stale |-> FALSE]
NoEntry == [body |-> NoPayload, left |-> 0]

Init ==
  /\ messages = {}
  /\ row = {}
  /\ cached = NoEntry
  /\ writer = [w \in Writers |-> "idle"]
  /\ snapshot = [w \in Writers |-> {}]
  /\ reader = [r \in Readers |-> "idle"]
  /\ fetched = [r \in Readers |-> {}]
  /\ payload = [r \in Readers |-> NoPayload]

Outage == "outage" \in Faults

-----------------------------------------------------------------------------
(***************************************************************************)
(* SummaryRetrieveView.get, past the access check.                         *)
(***************************************************************************)
Answered == {"idle", "done", "not_generated"}

CacheGet_touch(r) ==                \* variant: a hit renews the entry
  /\ reader[r] \in Answered
  /\ \/ /\ cached # NoEntry
        /\ reader' = [reader EXCEPT ![r] = "done"]
        /\ payload' = [payload EXCEPT ![r] = cached.body]
        /\ cached' = [cached EXCEPT !.left = SUMMARY_TTL]
     \/ /\ cached = NoEntry \/ Outage
        /\ reader' = [reader EXCEPT ![r] = "missed"]
        /\ UNCHANGED <<payload, cached>>
  /\ UNCHANGED <<messages, row, fetched, writeVars>>

\* A hit is answered as it is.
CacheGet(r) ==
  /\ reader[r] \in Answered
  /\ \/ /\ cached # NoEntry
        /\ reader' = [reader EXCEPT ![r] = "done"]
        /\ payload' = [payload EXCEPT ![r] = cached.body]
     \/ /\ cached = NoEntry \/ Outage
        /\ reader' = [reader EXCEPT ![r] = "missed"]
        /\ UNCHANGED payload
  /\ UNCHANGED <<messages, row, cached, fetched, writeVars>>

FetchRow(r) ==
  /\ reader[r] = "missed"
  /\ reader' = [reader EXCEPT ![r] = IF row = {} THEN "not_generated" ELSE "fetched"]
  /\ fetched' = [fetched EXCEPT ![r] = row]
  /\ UNCHANGED <<messages, row, cached, payload, writeVars>>

get_is_stale_inclusive(analysed) == \* variant: >= for >
  Max(messages) >= Max(analysed)

\* The latest sent_at of the thread against up_to_message_at.
get_is_stale(analysed) == Max(messages) > Max(analysed)

\* A query of its own, after the row was read.
Serialize(r) ==
  /\ reader[r] = "fetched"
  /\ reader' = [reader EXCEPT ![r] = "serialized"]
  /\ payload' = [payload EXCEPT ![r] =
       [row |-> fetched[r], is_stale |-> get_is_stale(fetched[r])]]
  /\ UNCHANGED <<messages, row, cached, fetched, writeVars>>

\* cache.set, whatever happened to the row since it was read, and the answer.
Fill(r) ==
  /\ reader[r] = "serialized"
  /\ reader' = [reader EXCEPT ![r] = "done"]
  /\ \/ cached' = [body |-> payload[r], left |-> SUMMARY_TTL]
     \/ Outage /\ UNCHANGED cached
  /\ UNCHANGED <<messages, row, fetched, payload, writeVars>>

-----------------------------------------------------------------------------
(***************************************************************************)
(* SummaryService.refresh, and what invalidates the entry.                 *)
(***************************************************************************)
Begin(w) ==
  /\ writer[w] = "idle"
  /\ messages # {}
  /\ writer' = [writer EXCEPT ![w] = "calling"]
  /\ snapshot' = [snapshot EXCEPT ![w] = messages]
  /\ UNCHANGED <<messages, row, cached, readVars>>

\* The model or the database fails: nothing was written, nothing is deleted.
Fail(w) ==
  /\ writer[w] = "calling"
  /\ writer' = [writer EXCEPT ![w] = "idle"]
  /\ UNCHANGED <<messages, row, cached, snapshot, readVars>>

Commit_no_hook(w) ==                \* variant: a row written past on_commit
  /\ writer[w] = "calling"
  /\ writer' = [writer EXCEPT ![w] = "idle"]
  /\ row' = snapshot[w]
  /\ UNCHANGED <<messages, cached, snapshot, readVars>>

Commit(w) ==
  /\ writer[w] = "calling"
  /\ writer' = [writer EXCEPT ![w] = "committed"]
  /\ row' = snapshot[w]
  /\ UNCHANGED <<messages, cached, snapshot, readVars>>

\* The on_commit hook.
Invalidate(w) ==
  /\ writer[w] = "committed"
  /\ writer' = [writer EXCEPT ![w] = "idle"]
  /\ \/ cached' = NoEntry
     \/ Outage /\ UNCHANGED cached
  /\ UNCHANGED <<messages, row, snapshot, readVars>>

\* The process dies before the hook runs.
Crash(w) ==
  /\ "crash" \in Faults
  /\ writer[w] = "committed"
  /\ writer' = [writer EXCEPT ![w] = "idle"]
  /\ UNCHANGED <<messages, row, cached, snapshot, readVars>>

-----------------------------------------------------------------------------
\* Mail may be delivered in another order than it was sent in.
Arrive ==
  /\ \E m \in SentAt \ messages : messages' = messages \cup {m}
  /\ UNCHANGED <<row, cached, readVars, writeVars>>

Tick_late ==                        \* variant: the entry outlives its last tick
  /\ cached # NoEntry
  /\ cached' = IF cached.left = 0 THEN NoEntry
               ELSE [cached EXCEPT !.left = @ - 1]
  /\ UNCHANGED <<messages, row, readVars, writeVars>>

Tick ==
  /\ cached # NoEntry
  /\ cached' = IF cached.left = 1 THEN NoEntry
               ELSE [cached EXCEPT !.left = @ - 1]
  /\ UNCHANGED <<messages, row, readVars, writeVars>>

Answer(r) == FetchRow(r) \/ Serialize(r) \/ Fill(r)

Next ==
  \/ \E r \in Readers : CacheGet(r) \/ Answer(r)
  \/ \E w \in Writers : Begin(w) \/ Fail(w) \/ Commit(w) \/ Invalidate(w) \/ Crash(w)
  \/ Arrive
  \/ Tick

Spec == Init /\ [][Next]_vars

\* Requests under way are answered, hooks run, and time passes.
Fairness ==
  /\ \A r \in Readers : WF_vars(Answer(r))
  /\ \A w \in Writers : WF_vars(Commit(w) \/ Fail(w)) /\ WF_vars(Invalidate(w))
  /\ WF_vars(Tick)

FairSpec == Spec /\ Fairness

-----------------------------------------------------------------------------
(***************************************************************************)
(* Properties.                                                             *)
(***************************************************************************)

\* The type of every variable.
TypeOK ==
  /\ messages \subseteq SentAt
  /\ row \subseteq messages
  /\ cached \in [body : Payloads, left : 0..SUMMARY_TTL]
  /\ cached.left = 0 <=> cached = NoEntry
  /\ writer \in [Writers -> WriterPhases]
  /\ snapshot \in [Writers -> SUBSET messages]
  /\ reader \in [Readers -> ReaderPhases]
  /\ fetched \in [Readers -> SUBSET messages]
  /\ payload \in [Readers -> Payloads]

\* "A concurrent reader can't repopulate from the old DB state"
\* (README.md:184, summarizer.py:51): the entry is made from the row, or the
\* refresh that replaced the row is still to delete it.
Coherent ==
  \/ cached = NoEntry
  \/ cached.body.row = row
  \/ \E w \in Writers : writer[w] = "committed"

\* Two things make the entry disagree with the row for good: a request that
\* read the row before it was replaced and fills the cache after the delete,
\* and a delete that is lost to an outage or with its process.
OnlyOutdatedFillsGoStale ==
  [][Coherent /\ ~Coherent'
       => \/ \E r \in Readers :
               reader[r] = "serialized" /\ reader'[r] = "done" /\ fetched[r] # row
          \/ \E w \in Writers :
               writer[w] = "committed" /\ writer'[w] = "idle" /\ Faults # {}]_vars

\* A user is told of new mail only if there is some: an answer with
\* is_stale set belongs to a row that leaves a later message out, however
\* long the payload was cached and whatever was refreshed meanwhile.
NoFalseAlarm ==
  \A r \in Readers :
    reader[r] = "done" /\ payload[r].is_stale
      => \E m \in messages \ payload[r].row : \A n \in payload[r].row : n < m

\* An entry that disagrees with the row does not stay, though nothing but
\* its age takes it away.
StaleEntriesExpire == ~Coherent ~> Coherent
==============================================================================
