---------------------------- MODULE SummaryRefresh ----------------------------
(***************************************************************************)
(* POST /api/threads/{id}/summary/refresh/ and the Celery task it queues.  *)
(*                                                                         *)
(* Two Redis keys per thread guard a refresh: the in-flight key, claimed   *)
(* by the view and naming the task that later triggers should poll, and    *)
(* the lock, taken by the worker around the LLM call and the upsert.       *)
(* Neither is owned: both are added if absent, deleted by whoever comes to *)
(* its `finally`, and expire.  Web processes, workers, Redis and the       *)
(* arrival of mail interleave at the granularity of one Redis command, one *)
(* broker message or one database transaction.                             *)
(*                                                                         *)
(* No code renews the lock or asks whether it is still there, so a refresh *)
(* that takes longer than the lock lives goes on without it.  `exposed`    *)
(* remembers whom that has happened to; the properties say what holds for  *)
(* everybody else.                                                         *)
(***************************************************************************)
EXTENDS Naturals, FiniteSets

CONSTANTS
  Threads,        \* the email threads
  Tasks,          \* the task ids; id k is the uuid4 drawn by one POST
  Messages,       \* the mail that may arrive in a thread
  NoTask,         \* Python's None where a task id is expected
  LOCK_TTL,       \* LOCK_TTL_SECONDS, in ticks
  INFLIGHT_TTL,   \* INFLIGHT_TTL_SECONDS, in ticks
  Faults          \* what may go wrong, a subset of FaultKinds

\* "crash":   a worker dies while it runs a task (acked early: not redelivered)
\* "outage":  a cache call fails and IGNORE_EXCEPTIONS swallows the exception
\* "publish": the view dies, or the broker refuses, before the task is queued
\* "loss":    Redis restarts empty (appendonly no), evicts keys or expires results
FaultKinds == {"crash", "outage", "publish", "loss"}

ASSUME NoTaskAssumption == NoTask \notin Tasks
ASSUME TTLAssumption == LOCK_TTL \in Nat \ {0} /\ INFLIGHT_TTL \in Nat \ {0}
ASSUME FaultsAssumption == Faults \subseteq FaultKinds

VARIABLES
  target,     \* [Tasks -> Threads]: the thread_id in the URL of POST k
  web,        \* [Tasks -> ...]: how far the view has come with POST k
  answer,     \* [Tasks -> Tasks or NoTask]: the task_id in its 202 response
  asked,      \* [Tasks -> SUBSET Messages]: the thread's mail at POST k
              \*   (history: no code reads it)
  phase,      \* [Tasks -> Phases]: where task k is
  outcome,    \* [Tasks -> Outcomes]: the "status" it returns or will return
  seen,       \* [Tasks -> SUBSET Messages]: the messages it read for its prompt,
              \*   while it is at work; else {}
  exposed,    \* SUBSET Tasks: those at work when the lock of their thread
              \*   expired or was lost, and those that began beside one of
              \*   them (history: no code reads it)
  lock,       \* [Threads -> 0..LOCK_TTL]: ticks the lock key has left, 0 = absent
  inflight,   \* [Threads -> ...]: the in-flight key, its value and ticks left
  messages,   \* [Threads -> SUBSET Messages]: EmailMessage rows of the thread
  summary     \* [Threads -> SUBSET Messages]: the messages the EmailSummary
              \*   row was made from (emails_analyzed, up_to_message_at);
              \*   {} = no row

webVars == <<target, web, answer, asked>>
taskVars == <<phase, outcome, seen, exposed>>
keyVars == <<lock, inflight>>
dbVars == <<messages, summary>>
vars == <<webVars, taskVars, keyVars, dbVars>>

WebStates == {"new", "sending", "looking", "answered", "error"}
Phases == {"unsent", "queued", "reading", "calling", "committing",
           "unlocking", "releasing", "returning", "done", "forgotten", "lost"}
Outcomes == {"none", "ok", "failed", "skipped"}
NoKey == [task |-> NoTask, left |-> 0]
Keys == [task : Tasks \cup {NoTask}, left : 0..INFLIGHT_TTL]

\* Inside the task's `try`, up to and including release_lock.
HoldingPhases == {"reading", "calling", "committing", "unlocking"}
Holding(k) == phase[k] \in HoldingPhases
Holders(t) == {k \in Tasks : Holding(k) /\ target[k] = t}

Init ==
  /\ target \in [Tasks -> Threads]
  /\ web = [k \in Tasks |-> "new"]
  /\ answer = [k \in Tasks |-> NoTask]
  /\ asked = [k \in Tasks |-> {}]
  /\ phase = [k \in Tasks |-> "unsent"]
  /\ outcome = [k \in Tasks |-> "none"]
  /\ seen = [k \in Tasks |-> {}]
  /\ exposed = {}
  /\ lock = [t \in Threads |-> 0]
  /\ inflight = [t \in Threads |-> NoKey]
  /\ messages = [t \in Threads |-> {}]
  /\ summary = [t \in Threads |-> {}]

-----------------------------------------------------------------------------
(***************************************************************************)
(* services/cache.py.  Each helper is one Redis command; `got` is what it  *)
(* returns.  In an outage the client returns None whether or not the       *)
(* server carried the command out.                                         *)
(***************************************************************************)
Outage == "outage" \in Faults

acquire_lock_by_set(t, got) ==      \* variant: cache.set instead of cache.add
  /\ got = TRUE
  /\ lock' = [lock EXCEPT ![t] = LOCK_TTL]

acquire_lock(t, got) ==
  \/ /\ got = (lock[t] = 0)
     /\ lock' = IF got THEN [lock EXCEPT ![t] = LOCK_TTL] ELSE lock
  \/ /\ Outage
     /\ got = FALSE
     /\ \/ UNCHANGED lock
        \/ lock[t] = 0 /\ lock' = [lock EXCEPT ![t] = LOCK_TTL]

release_lock(t) ==
  \/ lock' = [lock EXCEPT ![t] = 0]
  \/ Outage /\ UNCHANGED lock

try_claim_inflight(t, k, got) ==
  LET claim == [inflight EXCEPT ![t] = [task |-> k, left |-> INFLIGHT_TTL]]
      absent == inflight[t].left = 0
  IN \/ /\ got = absent
        /\ inflight' = IF got THEN claim ELSE inflight
     \/ /\ Outage
        /\ got = FALSE
        /\ \/ UNCHANGED inflight
           \/ absent /\ inflight' = claim

get_inflight(t, existing) ==
  \/ existing = inflight[t].task
  \/ Outage /\ existing = NoTask

release_inflight(t) ==
  \/ inflight' = [inflight EXCEPT ![t] = NoKey]
  \/ Outage /\ UNCHANGED inflight

-----------------------------------------------------------------------------
(***************************************************************************)
(* SummaryRefreshView.post.  A POST for a thread the user may not see ends *)
(* in a 404 before any of this and changes nothing.                        *)
(***************************************************************************)
Post(k) ==
  /\ web[k] = "new"
  /\ \E got \in BOOLEAN :
       /\ try_claim_inflight(target[k], k, got)
       /\ web' = [web EXCEPT ![k] = IF got THEN "sending" ELSE "looking"]
  /\ asked' = [asked EXCEPT ![k] = messages[target[k]]]
  /\ UNCHANGED <<target, answer, taskVars, lock, dbVars>>

LookUp_no_fallback(k) ==            \* variant: no apply_async when the key is gone
  /\ web[k] = "looking"
  /\ \E existing \in Tasks \cup {NoTask} :
       /\ get_inflight(target[k], existing)
       /\ web' = [web EXCEPT ![k] = "answered"]
       /\ answer' = [answer EXCEPT ![k] = IF existing = NoTask THEN k ELSE existing]
  /\ UNCHANGED <<target, asked, taskVars, keyVars, dbVars>>

\* The claim was lost: join the task the key names, or, if the key has gone
\* meanwhile, queue a task the key does not name.
LookUp(k) ==
  /\ web[k] = "looking"
  /\ \E existing \in Tasks \cup {NoTask} :
       /\ get_inflight(target[k], existing)
       /\ IF existing # NoTask
            THEN /\ web' = [web EXCEPT ![k] = "answered"]
                 /\ answer' = [answer EXCEPT ![k] = existing]
            ELSE /\ web' = [web EXCEPT ![k] = "sending"]
                 /\ UNCHANGED answer
  /\ UNCHANGED <<target, asked, taskVars, keyVars, dbVars>>

\* apply_async(task_id=k), then the 202.
Send(k) ==
  /\ web[k] = "sending"
  /\ web' = [web EXCEPT ![k] = "answered"]
  /\ answer' = [answer EXCEPT ![k] = k]
  /\ phase' = [phase EXCEPT ![k] = "queued"]
  /\ UNCHANGED <<target, asked, outcome, seen, exposed, keyVars, dbVars>>

\* apply_async raises, or the process dies first: nothing gives back the key.
SendFails(k) ==
  /\ "publish" \in Faults
  /\ web[k] = "sending"
  /\ web' = [web EXCEPT ![k] = "error"]
  /\ UNCHANGED <<target, answer, asked, taskVars, keyVars, dbVars>>

-----------------------------------------------------------------------------
(***************************************************************************)
(* refresh_summary_task, with SummaryService.refresh inside its `try`.     *)
(***************************************************************************)
Enter(k, p) == phase' = [phase EXCEPT ![k] = p]
Result(k, r) == outcome' = [outcome EXCEPT ![k] = r]

\* History: whoever gets the lock while an exposed task is at work on the
\* thread works beside it, and may lose the lock to that task's `finally`.
Join(k) == exposed' = IF Holders(target[k]) \cap exposed = {} THEN exposed
                                                             ELSE exposed \cup {k}

TaskStart_in_try(k) ==              \* variant: acquire_lock inside the `try`
  /\ phase[k] = "queued"
  /\ \E got \in BOOLEAN :
       /\ acquire_lock(target[k], got)
       /\ IF got THEN Enter(k, "reading") /\ Join(k) /\ UNCHANGED outcome
                 ELSE Enter(k, "unlocking") /\ Result(k, "skipped") /\ UNCHANGED exposed
  /\ UNCHANGED <<webVars, seen, inflight, dbVars>>

\* Workers take queued tasks in any order.  A task that finds the lock taken
\* returns at once, and leaves the in-flight key as it is.
TaskStart(k) ==
  /\ phase[k] = "queued"
  /\ \E got \in BOOLEAN :
       /\ acquire_lock(target[k], got)
       /\ IF got THEN Enter(k, "reading") /\ Join(k) /\ UNCHANGED outcome
                 ELSE Enter(k, "returning") /\ Result(k, "skipped") /\ UNCHANGED exposed
  /\ UNCHANGED <<webVars, seen, inflight, dbVars>>

\* An exception inside the `try`, the LLMClient that cannot be built, the
\* thread without messages, the model's error and the database's included.
Raise(k) ==
  /\ phase[k] \in {"reading", "calling", "committing"}
  /\ Enter(k, "unlocking")
  /\ Result(k, "failed")
  /\ UNCHANGED <<webVars, seen, exposed, keyVars, dbVars>>

ReadThread(k) ==
  /\ phase[k] = "reading"
  /\ messages[target[k]] # {}
  /\ seen' = [seen EXCEPT ![k] = messages[target[k]]]
  /\ Enter(k, "calling")
  /\ UNCHANGED <<webVars, outcome, exposed, keyVars, dbVars>>

CallLLM(k) ==
  /\ phase[k] = "calling"
  /\ Enter(k, "committing")
  /\ UNCHANGED <<webVars, outcome, seen, exposed, keyVars, dbVars>>

Commit_uncommitted(k) ==            \* variant: "ok" though the upsert was rolled back
  /\ phase[k] = "committing"
  /\ \/ summary' = [summary EXCEPT ![target[k]] = seen[k]]
     \/ UNCHANGED summary
  /\ Enter(k, "unlocking")
  /\ Result(k, "ok")
  /\ UNCHANGED <<webVars, seen, exposed, keyVars, messages>>

\* The upsert commits; deleting the cached payload is SummaryRead's subject.
Commit(k) ==
  /\ phase[k] = "committing"
  /\ summary' = [summary EXCEPT ![target[k]] = seen[k]]
  /\ Enter(k, "unlocking")
  /\ Result(k, "ok")
  /\ UNCHANGED <<webVars, seen, exposed, keyVars, messages>>

ReleaseLock_on_success(k) ==        \* variant: no `finally`
  /\ phase[k] = "unlocking"
  /\ IF outcome[k] = "ok" THEN release_lock(target[k]) ELSE UNCHANGED lock
  /\ Enter(k, "releasing")
  /\ seen' = [seen EXCEPT ![k] = {}]
  /\ UNCHANGED <<webVars, outcome, exposed, inflight, dbVars>>

\* The `finally`: whatever the keys hold by now, they are deleted.  What the
\* service call had read is gone with its frame.
ReleaseLock(k) ==
  /\ phase[k] = "unlocking"
  /\ release_lock(target[k])
  /\ Enter(k, "releasing")
  /\ seen' = [seen EXCEPT ![k] = {}]
  /\ UNCHANGED <<webVars, outcome, exposed, inflight, dbVars>>

ReleaseInflight(k) ==
  /\ phase[k] = "releasing"
  /\ release_inflight(target[k])
  /\ Enter(k, "returning")
  /\ UNCHANGED <<webVars, outcome, seen, exposed, lock, dbVars>>

\* Celery stores the result: TaskStatusView answers with it, and no longer
\* that the task is PENDING.
Return(k) ==
  /\ phase[k] = "returning"
  /\ Enter(k, "done")
  /\ UNCHANGED <<webVars, outcome, seen, exposed, keyVars, dbVars>>

Work(k) ==
  \/ TaskStart(k) \/ Raise(k) \/ ReadThread(k) \/ CallLLM(k) \/ Commit(k)
  \/ ReleaseLock(k) \/ ReleaseInflight(k) \/ Return(k)

-----------------------------------------------------------------------------
(***************************************************************************)
(* The environment.                                                        *)
(***************************************************************************)
Crash(k) ==
  /\ "crash" \in Faults
  /\ Holding(k) \/ phase[k] \in {"releasing", "returning"}
  /\ Enter(k, "lost")
  /\ seen' = [seen EXCEPT ![k] = {}]
  /\ UNCHANGED <<webVars, outcome, exposed, keyVars, dbVars>>

\* The locks of the threads in S are gone: whoever is at work there goes on
\* and does not notice.
Expose(S) == exposed' = exposed \cup UNION {Holders(t) : t \in S}

\* Some keys vanish or all of them, and with them any part of the queue and
\* of the results: broker and result backend are the same Redis unless
\* configured otherwise.  A result alone goes when it is an hour old
\* (CELERY_RESULT_EXPIRES).
LoseKeys ==
  /\ "loss" \in Faults
  /\ \E S \in SUBSET Threads :
       /\ lock' = [t \in Threads |-> IF t \in S THEN 0 ELSE lock[t]]
       /\ Expose(S)
  /\ \E S \in SUBSET Threads :
       inflight' = [t \in Threads |-> IF t \in S THEN NoKey ELSE inflight[t]]
  /\ \E gone \in SUBSET {k \in Tasks : phase[k] \in {"queued", "done"}} :
       phase' = [k \in Tasks |->
                  IF k \notin gone THEN phase[k]
                  ELSE IF phase[k] = "queued" THEN "lost" ELSE "forgotten"]
  /\ UNCHANGED <<webVars, outcome, seen, dbVars>>

Arrive(t) ==
  /\ \E m \in Messages \ messages[t] :
       messages' = [messages EXCEPT ![t] = @ \cup {m}]
  /\ UNCHANGED <<webVars, taskVars, keyVars, summary>>

expire_never(n) == n                \* variant: keys added without a timeout

expire(n) == IF n = 0 THEN 0 ELSE n - 1

\* A tick of Redis's clock.  It waits for nobody: a refresh may take any
\* number of ticks, and its lock expire under it.
Tick ==
  /\ lock' = [t \in Threads |-> expire(lock[t])]
  /\ Expose({t \in Threads : lock[t] > 0 /\ expire(lock[t]) = 0})
  /\ inflight' = [t \in Threads |->
       [task |-> IF expire(inflight[t].left) = 0 THEN NoTask ELSE inflight[t].task,
        left |-> expire(inflight[t].left)]]
  /\ UNCHANGED <<webVars, phase, outcome, seen, dbVars>>

Next ==
  \/ \E k \in Tasks :
       Post(k) \/ LookUp(k) \/ Send(k) \/ SendFails(k) \/ Work(k) \/ Crash(k)
  \/ \E t \in Threads : Arrive(t)
  \/ LoseKeys
  \/ Tick

Spec == Init /\ [][Next]_vars

\* Web processes and workers keep running, the queue is served, the model
\* and the database answer or fail, and time passes.  Nobody has to post,
\* no mail has to come, and no fault has to happen.
Fairness ==
  /\ \A k \in Tasks : WF_vars(LookUp(k) \/ Send(k)) /\ WF_vars(Work(k))
  /\ WF_vars(Tick)

FairSpec == Spec /\ Fairness

-----------------------------------------------------------------------------
(***************************************************************************)
(* Properties.                                                             *)
(***************************************************************************)

\* The type of every variable; a key is a record whose value and TTL agree.
TypeOK ==
  /\ target \in [Tasks -> Threads]
  /\ web \in [Tasks -> WebStates]
  /\ answer \in [Tasks -> Tasks \cup {NoTask}]
  /\ asked \in [Tasks -> SUBSET Messages]
  /\ phase \in [Tasks -> Phases]
  /\ outcome \in [Tasks -> Outcomes]
  /\ seen \in [Tasks -> SUBSET Messages]
  /\ exposed \subseteq Tasks
  /\ lock \in [Threads -> 0..LOCK_TTL]
  /\ inflight \in [Threads -> Keys]
  /\ messages \in [Threads -> SUBSET Messages]
  /\ summary \in [Threads -> SUBSET Messages]

\* "Concurrent triggers don't fan out to N LLM calls" (tasks.py:23): two
\* tasks of one thread are between acquire_lock and release_lock only after
\* the lock has expired, or was lost, under a task that is still at work or
\* under one whose work those at work now came to overlap.  Nothing else
\* lets a second one in, and the thread is safe again once all have ended.
OneRefreshPerThread ==
  \A j, k \in Tasks :
    Holding(j) /\ Holding(k) /\ target[j] = target[k] /\ j # k
      => {j, k} \subseteq exposed

\* A finished refresh whose trigger was not joined to another's task, and
\* which was not exposed, analysed every message its user could have seen
\* when asking for it: the row covers them, whatever refreshes, exposed ones
\* included, have written since.
OwnRefreshIsCurrent ==
  \A k \in Tasks \ exposed :
    answer[k] = k /\ outcome[k] = "ok" => asked[k] \subseteq summary[target[k]]

\* No upsert overwrites a row with one made from fewer messages, though the
\* upsert itself compares nothing: a summary goes back in time only while an
\* exposed task is at work on its thread.
NoRegression ==
  [][\A t \in Threads :
       Holders(t) \cap exposed = {} => summary[t] \subseteq summary'[t]]_vars

\* Another task of k's thread is at work, or was lost.
OthersAtWork(k) ==
  {j \in Tasks \ {k} :
     target[j] = target[k] /\ (Holding(j) \/ phase[j] = "lost")}

\* A task is skipped only while another task of the same thread is at work,
\* or after one was lost: short of a delete that an outage swallows, a skip
\* never leaves a thread with nobody refreshing it.
SkipJustified ==
  [][\A k \in Tasks :
       outcome'[k] = "skipped" /\ outcome[k] # "skipped"
         => OthersAtWork(k) # {}]_vars

\* Whatever task id a 202 names, its result arrives, although joiners hold
\* ids of tasks they did not queue; only the loss of that very task (with its
\* worker, with the queue, or before it was published) leaves it PENDING, or,
\* after it was done, the loss or the expiry of its result.
PollHangsOnlyIfLost ==
  \A r \in Tasks :
    LET k == answer[r]
    IN k # NoTask ~> /\ k # NoTask
                     /\ \/ phase[k] \in {"done", "forgotten", "lost"}
                        \/ web[k] = "error"

\* A worker that dies at work, or a view that dies between the claim and
\* apply_async, blocks its thread no longer than the keys live.
KeysSelfClear ==
  \A t \in Threads : []<>(lock[t] = 0 /\ inflight[t].left = 0)

\* What the abstract specification calls the thread's stage.
stage == [t \in Threads |->
  LET holders == Holders(t)
  IN  IF holders = {} THEN "idle"
      ELSE IF holders \cap exposed # {} THEN "open"
      ELSE IF \E k \in holders : phase[k] # "unlocking" THEN "working" ELSE "closing"]

Serial == INSTANCE SerialRefresh WITH
  Threads <- Threads, Messages <- Messages,
  stage <- stage, messages <- messages, summary <- summary

\* Locks, keys, queue and clock together do what SerialRefresh says.
ImplementsSerialRefresh == Serial!Spec

-----------------------------------------------------------------------------
(***************************************************************************)
(* The inductive invariant behind OneRefreshPerThread and NoRegression.    *)
(***************************************************************************)

\* Nobody takes its lock away from a task at work but the clock and the
\* loss of the keys: no skipped task, no `finally` of another, no command
\* that an outage swallows.
LockGuards ==
  \A k \in Tasks \ exposed : Holding(k) => lock[target[k]] > 0

\* What a task read is mail of its thread; while nobody else moves the row,
\* it still covers what the row was made from.
SnapshotCovers ==
  \A k \in Tasks :
    phase[k] \in {"calling", "committing"}
      => /\ seen[k] \subseteq messages[target[k]]
         /\ seen[k] # {}
         /\ k \notin exposed => summary[target[k]] \subseteq seen[k]

\* The row is made from messages the thread has.
SummaryFromThread == \A t \in Threads : summary[t] \subseteq messages[t]

\* A task is queued by the one POST that drew its id, when it answers.
QueuedOnce == \A k \in Tasks : web[k] # "answered" => phase[k] = "unsent"

\* Only a task that has started is ever exposed.
ExposedStarted == \A k \in exposed : phase[k] \notin {"unsent", "queued"}

IInv ==
  /\ TypeOK
  /\ QueuedOnce
  /\ ExposedStarted
  /\ LockGuards
  /\ OneRefreshPerThread
  /\ SnapshotCovers
  /\ SummaryFromThread

\* A lock key has its holder, unless a task of the thread was lost with it.
LockHeld ==
  \A t \in Threads :
    lock[t] > 0 => \E k \in Tasks : target[k] = t /\ (Holding(k) \/ phase[k] = "lost")

-----------------------------------------------------------------------------
(***************************************************************************)
(* What the documentation says and the code does not do.                   *)
(***************************************************************************)

\* "N concurrent triggers all poll the same task_id" (README.md:191): two
\* triggers of one thread, answered with tasks that are still waiting or at
\* work, were given the same task.
FanIn ==
  \A r, s \in Tasks :
    LET j == answer[r]
        k == answer[s]
        Pending(i) == i # NoTask /\ (phase[i] = "queued" \/ Holding(i))
    IN Pending(j) /\ Pending(k) /\ target[r] = target[s] => j = k
==============================================================================
