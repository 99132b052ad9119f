------------------------ MODULE SummaryRefresh_proofs ------------------------
(***************************************************************************)
(* Theorems about SummaryRefresh, for every set of threads, tasks and      *)
(* messages, every pair of TTLs, all faults, and however long a refresh     *)
(* takes: what a lock that expires under its holder does is in `exposed`.  *)
(***************************************************************************)
EXTENDS SummaryRefresh, TLAPS

-----------------------------------------------------------------------------
(***************************************************************************)
(* Types.                                                                  *)
(***************************************************************************)

\* An expired key stays expired, a live one gets closer to expiry.
LEMMA ExpireType ==
  ASSUME NEW n \in Nat, NEW b \in Nat, n \in 0..b
  PROVE  /\ expire(n) \in 0..b
         /\ expire(n) = 0 \/ expire(n) = n - 1
BY DEF expire

\* The initial state is well typed.
LEMMA TypeInit == Init => TypeOK
BY TTLAssumption
   DEF Init, TypeOK, WebStates, Phases, Outcomes, NoKey, Keys

\* Every step keeps the types, whatever the faults.
LEMMA TypeStep == TypeOK /\ [Next]_vars => TypeOK'
<1> SUFFICES ASSUME TypeOK, [Next]_vars PROVE TypeOK'
  OBVIOUS
<1> USE TTLAssumption
<1> USE DEF TypeOK, vars, webVars, taskVars, keyVars, dbVars
<1>0. NoKey \in Keys
  BY DEF NoKey, Keys
<1>1. ASSUME NEW k \in Tasks, Post(k) PROVE TypeOK'
  BY <1>1 DEF Post, try_claim_inflight, Keys, WebStates
<1>2. ASSUME NEW k \in Tasks, LookUp(k) PROVE TypeOK'
  BY <1>2 DEF LookUp, WebStates
<1>3. ASSUME NEW k \in Tasks, Send(k) PROVE TypeOK'
  BY <1>3 DEF Send, WebStates, Phases
<1>4. ASSUME NEW k \in Tasks, SendFails(k) PROVE TypeOK'
  BY <1>4 DEF SendFails, WebStates
<1>5. ASSUME NEW k \in Tasks, TaskStart(k) PROVE TypeOK'
  BY <1>5 DEF TaskStart, acquire_lock, Enter, Result, Join, Phases, Outcomes
<1>6. ASSUME NEW k \in Tasks, Raise(k) PROVE TypeOK'
  BY <1>6 DEF Raise, Enter, Result, Phases, Outcomes
<1>7. ASSUME NEW k \in Tasks, ReadThread(k) PROVE TypeOK'
  BY <1>7 DEF ReadThread, Enter, Phases
<1>8. ASSUME NEW k \in Tasks, CallLLM(k) PROVE TypeOK'
  BY <1>8 DEF CallLLM, Enter, Phases
<1>9. ASSUME NEW k \in Tasks, Commit(k) PROVE TypeOK'
  BY <1>9 DEF Commit, Enter, Result, Phases, Outcomes
<1>10. ASSUME NEW k \in Tasks, ReleaseLock(k) PROVE TypeOK'
  BY <1>10 DEF ReleaseLock, release_lock, Enter, Phases
<1>11. ASSUME NEW k \in Tasks, ReleaseInflight(k) PROVE TypeOK'
  <2>1. inflight' \in [Threads -> Keys]
    BY <1>0, <1>11 DEF ReleaseInflight, release_inflight
  <2>2. phase' \in [Tasks -> Phases]
    BY <1>11 DEF ReleaseInflight, Enter, Phases
  <2> QED
    BY <1>11, <2>1, <2>2 DEF ReleaseInflight
<1>12. ASSUME NEW k \in Tasks, Return(k) PROVE TypeOK'
  BY <1>12 DEF Return, Enter, Phases
<1>13. ASSUME NEW k \in Tasks, Crash(k) PROVE TypeOK'
  BY <1>13 DEF Crash, Enter, Phases
<1>14. ASSUME LoseKeys PROVE TypeOK'
  <2>1. inflight' \in [Threads -> Keys] /\ lock' \in [Threads -> 0..LOCK_TTL]
    BY <1>0, <1>14 DEF LoseKeys
  <2>2. phase' \in [Tasks -> Phases]
    BY <1>14 DEF LoseKeys, Phases
  <2>3. exposed' \subseteq Tasks
    BY <1>14 DEF LoseKeys, Expose, Holders
  <2> QED
    BY <1>14, <2>1, <2>2, <2>3 DEF LoseKeys
<1>15. ASSUME NEW t \in Threads, Arrive(t) PROVE TypeOK'
  BY <1>15 DEF Arrive
<1>16. ASSUME Tick PROVE TypeOK'
  <2>1. exposed' \subseteq Tasks
    BY <1>16 DEF Tick, Expose, Holders
  <2>2. lock' \in [Threads -> 0..LOCK_TTL]
    BY <1>16, ExpireType DEF Tick
  <2>3. inflight' \in [Threads -> Keys]
    BY <1>16, ExpireType DEF Tick, Keys
  <2> QED
    BY <1>16, <2>1, <2>2, <2>3 DEF Tick
<1>17. CASE UNCHANGED vars
  BY <1>17
<1> QED
  BY <1>1, <1>2, <1>3, <1>4, <1>5, <1>6, <1>7, <1>8, <1>9, <1>10, <1>11,
     <1>12, <1>13, <1>14, <1>15, <1>16, <1>17 DEF Next, Work

\* Type correctness of the refresh path, under any faults.
THEOREM TypeCorrect == Spec => []TypeOK
BY TypeInit, TypeStep, PTL DEF Spec

-----------------------------------------------------------------------------
(***************************************************************************)
(* Mutual exclusion and the rows it protects.                              *)
(***************************************************************************)

\* What the clock or a loss does to locks: a task that is not exposed by it
\* keeps its key.
LEMMA ExposeStep ==
  ASSUME TypeOK, LockGuards, NEW S \in SUBSET Threads, Expose(S),
         phase' = [k \in Tasks |-> phase'[k]], target' = target,
         \A k \in Tasks : Holding(k)' <=> Holding(k),
         \A t \in Threads \ S : lock[t] > 0 => lock'[t] > 0
  PROVE  LockGuards'
<1> SUFFICES ASSUME NEW k \in Tasks, k \notin exposed', Holding(k)
             PROVE  lock'[target[k]] > 0
  BY DEF LockGuards
<1>1. k \notin exposed /\ target[k] \notin S
  BY DEF Expose, Holders
<1> QED
  BY <1>1 DEF LockGuards, TypeOK

\* The initial state satisfies the inductive invariant.
LEMMA IInvInit == Init => IInv
<1> SUFFICES ASSUME Init PROVE IInv
  OBVIOUS
<1>1. TypeOK
  BY TypeInit
<1> QED
  BY <1>1 DEF Init, IInv, QueuedOnce, ExposedStarted, LockGuards, OneRefreshPerThread,
     SnapshotCovers, SummaryFromThread, Holding, HoldingPhases

\* Every step preserves it: the hard cases take or give back the lock, move
\* the row, or take the lock from under its holder.
LEMMA IInvStep ==
  ASSUME IInv, [Next]_vars
  PROVE  IInv'
<1> USE DEF vars, webVars, taskVars, keyVars, dbVars
<1> DEFINE Safe == QueuedOnce /\ ExposedStarted /\ LockGuards /\ OneRefreshPerThread
                   /\ SnapshotCovers /\ SummaryFromThread
<1>0. TypeOK /\ Safe /\ TypeOK'
  BY TypeStep DEF IInv
<1>1. ASSUME NEW k \in Tasks, Post(k) \/ LookUp(k) \/ SendFails(k)
      PROVE  Safe'
  BY <1>0, <1>1 DEF Post, LookUp, SendFails, TypeOK, QueuedOnce, ExposedStarted, LockGuards,
     OneRefreshPerThread, SnapshotCovers, SummaryFromThread, Holding
<1>2. ASSUME NEW k \in Tasks, Send(k) PROVE Safe'
  <2>1. phase[k] = "unsent"
    BY <1>0, <1>2 DEF Send, QueuedOnce
  <2> QED
    BY <1>0, <1>2, <2>1 DEF Send, TypeOK, QueuedOnce, ExposedStarted, LockGuards,
       OneRefreshPerThread, SnapshotCovers, SummaryFromThread, Holding,
       HoldingPhases
<1>3. ASSUME NEW k \in Tasks, TaskStart(k) PROVE Safe'
  <2>1. PICK got \in BOOLEAN :
          /\ acquire_lock(target[k], got)
          /\ IF got THEN Enter(k, "reading") /\ Join(k) /\ UNCHANGED outcome
                    ELSE /\ Enter(k, "returning")
                         /\ Result(k, "skipped")
                         /\ UNCHANGED exposed
    BY <1>3 DEF TaskStart
  <2>2. phase[k] = "queued" /\ ~Holding(k)
    BY <1>3 DEF TaskStart, Holding, HoldingPhases
  <2>3. CASE got
    <3>1. lock[target[k]] = 0 /\ lock' = [lock EXCEPT ![target[k]] = LOCK_TTL]
      BY <2>1, <2>3 DEF acquire_lock
    <3>2. /\ phase' = [phase EXCEPT ![k] = "reading"]
          /\ Join(k)
          /\ UNCHANGED <<webVars, outcome, seen, inflight, dbVars>>
      BY <1>3, <2>1, <2>3 DEF TaskStart, Enter
    <3>3. \A j \in Tasks : Holding(j)' => Holding(j) \/ j = k
      BY <1>0, <3>2 DEF TypeOK, Holding
    <3>4. \A j \in Tasks : Holding(j) /\ target[j] = target[k] => j \in exposed
      BY <1>0, <3>1 DEF LockGuards
    <3>5. exposed \subseteq exposed'
      BY <3>2 DEF Join
    <3>6. \A j \in Tasks : Holding(j) /\ target[j] = target[k] => k \in exposed'
      BY <3>2, <3>4 DEF Join, Holders
    <3>7. LockGuards'
      BY <1>0, <3>1, <3>2, <3>3, <3>5, TTLAssumption DEF LockGuards, TypeOK
    <3>8. OneRefreshPerThread'
      BY <1>0, <3>2, <3>3, <3>4, <3>5, <3>6 DEF OneRefreshPerThread
    <3>9. SnapshotCovers'
      BY <1>0, <3>2, <3>5 DEF SnapshotCovers, TypeOK
    <3>10. ExposedStarted'
      BY <1>0, <3>2 DEF Join, ExposedStarted, TypeOK
    <3> QED
      BY <1>0, <2>2, <3>2, <3>7, <3>8, <3>9, <3>10
         DEF QueuedOnce, SummaryFromThread, TypeOK
  <2>4. CASE ~got
    <3>1. \A t \in Threads : lock[t] > 0 => lock'[t] > 0
      BY <1>0, <2>1, <2>4, TTLAssumption DEF acquire_lock, TypeOK
    <3>2. /\ phase' = [phase EXCEPT ![k] = "returning"]
          /\ UNCHANGED <<webVars, seen, exposed, dbVars>>
      BY <1>3, <2>1, <2>4 DEF TaskStart, Enter
    <3>3. \A j \in Tasks : Holding(j)' <=> Holding(j)
      BY <1>0, <2>2, <3>2 DEF TypeOK, Holding, HoldingPhases
    <3>4. QueuedOnce' /\ ExposedStarted' /\ SummaryFromThread'
      BY <1>0, <2>2, <3>2 DEF TypeOK, QueuedOnce, ExposedStarted, SummaryFromThread
    <3>5. LockGuards' /\ OneRefreshPerThread'
      BY <1>0, <3>1, <3>2, <3>3 DEF LockGuards, OneRefreshPerThread, TypeOK
    <3>6. SnapshotCovers'
      BY <1>0, <3>2 DEF TypeOK, SnapshotCovers
    <3> QED
      BY <3>4, <3>5, <3>6
  <2> QED
    BY <2>3, <2>4
<1>4. ASSUME NEW k \in Tasks, Raise(k) \/ ReadThread(k) \/ CallLLM(k)
      PROVE  Safe'
  BY <1>0, <1>4 DEF Raise, ReadThread, CallLLM, Enter, TypeOK, QueuedOnce, ExposedStarted,
     LockGuards, OneRefreshPerThread, SnapshotCovers, SummaryFromThread, Holding,
     HoldingPhases
<1>5. ASSUME NEW k \in Tasks, Commit(k) PROVE Safe'
  <2>1. Holding(k) /\ ~(phase'[k] \in {"calling", "committing"})
    BY <1>0, <1>5 DEF Commit, Enter, TypeOK, Holding, HoldingPhases
  <2>2. \A j \in Tasks : Holding(j)' <=> Holding(j)
    BY <1>0, <1>5 DEF Commit, Enter, TypeOK, Holding, HoldingPhases
  <2>3. seen[k] \subseteq messages[target[k]]
    BY <1>0, <1>5 DEF Commit, SnapshotCovers
  <2>4. SnapshotCovers'
    \* Another task of the thread, at work beside this one, is exposed.
    <3> SUFFICES ASSUME NEW j \in Tasks, phase'[j] \in {"calling", "committing"}
                 PROVE  /\ seen'[j] \subseteq messages'[target'[j]]
                        /\ seen'[j] # {}
                        /\ j \notin exposed' => summary'[target'[j]] \subseteq seen'[j]
      BY DEF SnapshotCovers
    <3>1. j # k /\ phase[j] = phase'[j] /\ Holding(j)
      BY <1>0, <1>5, <2>1 DEF Commit, Enter, TypeOK, Holding, HoldingPhases
    <3>2. target[j] = target[k] => j \in exposed
      BY <1>0, <2>1, <3>1 DEF OneRefreshPerThread
    <3> QED
      BY <1>0, <1>5, <3>1, <3>2 DEF Commit, TypeOK, SnapshotCovers
  <2> QED
    BY <1>0, <1>5, <2>2, <2>3, <2>4 DEF Commit, Enter, TypeOK, QueuedOnce, ExposedStarted,
       LockGuards, OneRefreshPerThread, SummaryFromThread
<1>6. ASSUME NEW k \in Tasks, ReleaseLock(k) PROVE Safe'
  <2>1. Holding(k)
    BY <1>6 DEF ReleaseLock, Holding, HoldingPhases
  <2>2. \A j \in Tasks : Holding(j)' => Holding(j) /\ j # k
    BY <1>0, <1>6 DEF ReleaseLock, Enter, TypeOK, Holding, HoldingPhases
  <2>3. \A j \in Tasks \ exposed :
          Holding(j)' => lock'[target[j]] = lock[target[j]]
    BY <1>0, <1>6, <2>1, <2>2
       DEF ReleaseLock, release_lock, TypeOK, OneRefreshPerThread
  <2>4. /\ phase' = [phase EXCEPT ![k] = "releasing"]
        /\ seen' = [seen EXCEPT ![k] = {}]
        /\ phase[k] = "unlocking"
        /\ UNCHANGED <<webVars, exposed, dbVars>>
    BY <1>6 DEF ReleaseLock, Enter
  <2>5. LockGuards' /\ OneRefreshPerThread'
    BY <1>0, <2>2, <2>3, <2>4 DEF LockGuards, OneRefreshPerThread
  <2>6. QueuedOnce' /\ ExposedStarted' /\ SnapshotCovers' /\ SummaryFromThread'
    BY <1>0, <2>4 DEF TypeOK, QueuedOnce, ExposedStarted, SnapshotCovers, SummaryFromThread
  <2> QED
    BY <2>5, <2>6
<1>7. ASSUME NEW k \in Tasks, ReleaseInflight(k) \/ Return(k) \/ Crash(k)
      PROVE  Safe'
  <2>1. CASE ReleaseInflight(k)
    BY <1>0, <2>1 DEF ReleaseInflight, Enter, TypeOK, QueuedOnce, ExposedStarted, LockGuards,
       OneRefreshPerThread, SnapshotCovers, SummaryFromThread, Holding, HoldingPhases
  <2>2. CASE Return(k)
    BY <1>0, <2>2 DEF Return, Enter, TypeOK, QueuedOnce, ExposedStarted, LockGuards,
       OneRefreshPerThread, SnapshotCovers, SummaryFromThread, Holding, HoldingPhases
  <2>3. CASE Crash(k)
    BY <1>0, <2>3 DEF Crash, Enter, TypeOK, QueuedOnce, ExposedStarted, LockGuards,
       OneRefreshPerThread, SnapshotCovers, SummaryFromThread, Holding, HoldingPhases
  <2> QED
    BY <1>7, <2>1, <2>2, <2>3
<1>8. ASSUME LoseKeys PROVE Safe'
  <2>1. PICK S \in SUBSET Threads :
          /\ lock' = [t \in Threads |-> IF t \in S THEN 0 ELSE lock[t]]
          /\ Expose(S)
    BY <1>8 DEF LoseKeys
  <2>2. /\ UNCHANGED <<webVars, seen, dbVars>>
        /\ phase' = [k \in Tasks |-> phase'[k]]
        /\ exposed \subseteq exposed'
    BY <1>8, <2>1 DEF LoseKeys, Expose
  <2>3. \A k \in Tasks :
          \/ phase'[k] = phase[k]
          \/ /\ phase[k] \in {"queued", "done"}
             /\ phase'[k] \in {"lost", "forgotten"}
    BY <1>8 DEF LoseKeys
  <2>4. \A k \in Tasks : Holding(k)' <=> Holding(k)
    BY <2>3 DEF Holding, HoldingPhases
  <2>5. LockGuards'
    BY <1>0, <2>1, <2>2, <2>4, ExposeStep
  <2>6. OneRefreshPerThread'
    BY <1>0, <2>2, <2>4 DEF OneRefreshPerThread
  <2>7. QueuedOnce' /\ SnapshotCovers' /\ SummaryFromThread'
    BY <1>0, <2>2, <2>3 DEF QueuedOnce, SnapshotCovers, SummaryFromThread
  <2>8. \A k \in exposed' : k \in exposed \/ Holding(k)
    BY <2>1 DEF Expose, Holders
  <2>9. ExposedStarted'
    BY <1>0, <2>3, <2>8 DEF ExposedStarted, Holding, HoldingPhases, TypeOK
  <2> QED
    BY <2>5, <2>6, <2>7, <2>9
<1>9. ASSUME NEW t \in Threads, Arrive(t) PROVE Safe'
  BY <1>0, <1>9 DEF Arrive, TypeOK, QueuedOnce, ExposedStarted, LockGuards,
     OneRefreshPerThread, SnapshotCovers, SummaryFromThread, Holding
<1>10. ASSUME Tick PROVE Safe'
  <2> DEFINE S == {t \in Threads : lock[t] > 0 /\ expire(lock[t]) = 0}
  <2>1. /\ lock' = [t \in Threads |-> expire(lock[t])]
        /\ Expose(S)
        /\ UNCHANGED <<webVars, phase, outcome, seen, dbVars>>
    BY <1>10 DEF Tick
  <2>2. \A k \in Tasks : Holding(k)' <=> Holding(k)
    BY <2>1 DEF Holding
  <2>3. \A t \in Threads \ S : lock[t] > 0 => lock'[t] > 0
    BY <1>0, <2>1, ExpireType, TTLAssumption DEF TypeOK
  <2>4. phase' = [k \in Tasks |-> phase'[k]]
    BY <1>0, <2>1 DEF TypeOK
  <2>5. LockGuards'
    BY <1>0, <2>1, <2>2, <2>3, <2>4, ExposeStep
  <2>6. exposed \subseteq exposed'
    BY <2>1 DEF Expose
  <2>7. OneRefreshPerThread'
    BY <1>0, <2>1, <2>2, <2>6 DEF OneRefreshPerThread
  <2>8. QueuedOnce' /\ SnapshotCovers' /\ SummaryFromThread'
    BY <1>0, <2>1, <2>6 DEF QueuedOnce, SnapshotCovers, SummaryFromThread
  <2>9. \A k \in exposed' : k \in exposed \/ Holding(k)
    BY <2>1 DEF Expose, Holders
  <2>10. ExposedStarted'
    BY <1>0, <2>1, <2>9 DEF ExposedStarted, Holding, HoldingPhases
  <2> QED
    BY <2>5, <2>7, <2>8, <2>10
<1>11. ASSUME UNCHANGED vars PROVE Safe'
  BY <1>0, <1>11 DEF QueuedOnce, ExposedStarted, LockGuards, OneRefreshPerThread, SnapshotCovers,
     SummaryFromThread, Holding
<1>12. Safe'
  BY <1>1, <1>2, <1>3, <1>4, <1>5, <1>6, <1>7, <1>8, <1>9, <1>10, <1>11
     DEF Next, Work
<1> QED
  BY <1>0, <1>12 DEF IInv

\* The inductive invariant holds, whatever the faults and however long a
\* refresh takes.
THEOREM Invariant == Spec => []IInv
BY IInvInit, IInvStep, PTL DEF Spec

\* No two tasks of one thread call the model or write the row at the same
\* time (OneRefreshPerThread), whatever crashes, outages and failed sends
\* there are, until a lock is gone under its holder.
THEOREM MutualExclusion == Spec => []OneRefreshPerThread
BY Invariant, PTL DEF IInv

\* Nobody but the clock and the loss of the keys takes its lock away from a
\* task at work (LockGuards).
THEOREM LocksStayWithHolders == Spec => []LockGuards
BY Invariant, PTL DEF IInv

\* An upsert takes the row back in time only while an exposed task is at
\* work on the thread (NoRegression), although the upsert compares nothing.
THEOREM RowsOnlyGrow == Spec => NoRegression
<1> DEFINE Grows == \A t \in Threads :
             Holders(t) \cap exposed = {} => summary[t] \subseteq summary'[t]
<1>1. IInv /\ [Next]_vars => [Grows]_vars
  <2> SUFFICES ASSUME IInv, Next PROVE Grows
    OBVIOUS
  <2>1. ASSUME NEW k \in Tasks, Commit(k) PROVE Grows
    <3>1. k \in Holders(target[k])
      BY <2>1 DEF Commit, Holders, Holding, HoldingPhases
    <3>2. k \notin exposed => summary[target[k]] \subseteq seen[k]
      BY <2>1 DEF IInv, SnapshotCovers, Commit
    <3>3. summary' = [summary EXCEPT ![target[k]] = seen[k]]
      BY <2>1 DEF Commit
    <3> QED
      BY <3>1, <3>2, <3>3 DEF IInv, TypeOK
  <2>2. (\E k \in Tasks : Commit(k)) \/ UNCHANGED summary
    BY DEF Next, Work, Post, LookUp, Send, SendFails, TaskStart, Raise,
       ReadThread, CallLLM, ReleaseLock, ReleaseInflight, Return, Crash,
       LoseKeys, Arrive, Tick, dbVars
  <2> QED
    BY <2>1, <2>2
<1> QED
  BY <1>1, Invariant, PTL DEF Spec, NoRegression

-----------------------------------------------------------------------------
(***************************************************************************)
(* What a user's own refresh covers.                                       *)
(***************************************************************************)

\* Task j, between its read and its commit, has read what k was asked for.
Reader(j) == phase[j] \in {"calling", "committing"}

\* From the POST to the commit, the mail the user could see is in the
\* thread, then in what the task read, then in the row.  An exposed task that
\* is about to write the row over did not begin before k had ended, or k
\* would be exposed as well: it has read what k was asked for.
RequestCovered ==
  \A k \in Tasks :
    /\ asked[k] \subseteq messages[target[k]]
    /\ Reader(k) => asked[k] \subseteq seen[k]
    /\ outcome[k] = "ok" /\ k \notin exposed
         => /\ asked[k] \subseteq summary[target[k]]
            /\ \A j \in Tasks :
                 Reader(j) /\ target[j] = target[k] => asked[k] \subseteq seen[j]
    /\ phase[k] = "unsent" => outcome[k] = "none"

LEMMA RequestStep ==
  ASSUME IInv, RequestCovered, [Next]_vars
  PROVE  RequestCovered'
<1> USE DEF vars, webVars, taskVars, keyVars, dbVars, IInv, TypeOK, RequestCovered,
        Reader
<1>1. ASSUME NEW k \in Tasks, Post(k) PROVE RequestCovered'
  BY <1>1 DEF Post, QueuedOnce
<1>2. ASSUME NEW k \in Tasks, LookUp(k) \/ Send(k) \/ SendFails(k)
      PROVE  RequestCovered'
  BY <1>2 DEF LookUp, Send, SendFails
<1>3. ASSUME NEW k \in Tasks, TaskStart(k) PROVE RequestCovered'
  <2>1. exposed \subseteq exposed'
    BY <1>3 DEF TaskStart, Join
  <2> QED
    BY <1>3, <2>1 DEF TaskStart, Enter, Result
<1>4. ASSUME NEW k \in Tasks, Raise(k) PROVE RequestCovered'
  BY <1>4 DEF Raise, Enter, Result
<1>5. ASSUME NEW k \in Tasks, ReadThread(k) PROVE RequestCovered'
  BY <1>5 DEF ReadThread, Enter
<1>6. ASSUME NEW k \in Tasks, Commit(k) PROVE RequestCovered'
  <2>1. /\ phase[k] = "committing" /\ Holding(k)
        /\ summary' = [summary EXCEPT ![target[k]] = seen[k]]
        /\ phase' = [phase EXCEPT ![k] = "unlocking"]
        /\ outcome' = [outcome EXCEPT ![k] = "ok"]
        /\ UNCHANGED <<webVars, seen, exposed, messages>>
    BY <1>6 DEF Commit, Enter, Result, Holding, HoldingPhases
  <2>2. \A j \in Tasks \ {k} :
          Reader(j) /\ target[j] = target[k] => k \in exposed
    BY <2>1 DEF OneRefreshPerThread, Holding, HoldingPhases
  <2>3. \A j \in Tasks : Reader(j)' => Reader(j) /\ j # k
    BY <2>1
  <2>4. ASSUME NEW i \in Tasks, outcome'[i] = "ok", i \notin exposed
        PROVE  /\ asked[i] \subseteq summary'[target[i]]
               /\ \A j \in Tasks :
                    Reader(j)' /\ target[j] = target[i] => asked[i] \subseteq seen[j]
    <3>1. CASE i = k
      BY <2>1, <2>2, <2>3, <2>4, <3>1
    <3>2. CASE i # k
      BY <2>1, <2>3, <2>4, <3>2
    <3> QED
      BY <3>1, <3>2
  <2> QED
    BY <2>1, <2>3, <2>4
<1>7. ASSUME NEW k \in Tasks,
             CallLLM(k) \/ ReleaseLock(k) \/ ReleaseInflight(k) \/ Return(k)
             \/ Crash(k)
      PROVE  RequestCovered'
  BY <1>7 DEF CallLLM, ReleaseLock, ReleaseInflight, Return, Crash, Enter
<1>8. ASSUME LoseKeys PROVE RequestCovered'
  <2>1. exposed \subseteq exposed' /\ UNCHANGED <<webVars, outcome, seen, dbVars>>
    BY <1>8 DEF LoseKeys, Expose
  <2>2. \A k \in Tasks :
          \/ phase'[k] = phase[k]
          \/ phase[k] \in {"queued", "done"} /\ phase'[k] \in {"lost", "forgotten"}
    BY <1>8 DEF LoseKeys
  <2> QED
    BY <2>1, <2>2
<1>9. ASSUME NEW t \in Threads, Arrive(t) PROVE RequestCovered'
  BY <1>9 DEF Arrive
<1>10. ASSUME Tick PROVE RequestCovered'
  <2>1. exposed \subseteq exposed'
    BY <1>10 DEF Tick, Expose
  <2> QED
    BY <1>10, <2>1 DEF Tick
<1>11. ASSUME UNCHANGED vars PROVE RequestCovered'
  BY <1>11
<1> QED
  BY <1>1, <1>2, <1>3, <1>4, <1>5, <1>6, <1>7, <1>8, <1>9, <1>10, <1>11
     DEF Next, Work

\* A refresh that ends "ok", not exposed, for the user who queued it leaves
\* a row that covers the mail there was at the POST, then and ever after,
\* whoever writes it next (OwnRefreshIsCurrent).
THEOREM OwnRefreshCurrent == Spec => []OwnRefreshIsCurrent
<1>1. Init => RequestCovered
  BY DEF Init, RequestCovered, Reader
<1>2. RequestCovered => OwnRefreshIsCurrent
  BY DEF RequestCovered, OwnRefreshIsCurrent
<1>3. IInv /\ RequestCovered /\ [Next]_vars => RequestCovered'
  BY RequestStep
<1> QED
  BY <1>1, <1>2, <1>3, Invariant, PTL DEF Spec

-----------------------------------------------------------------------------
(***************************************************************************)
(* Skips.                                                                  *)
(***************************************************************************)

\* A task is queued once, whatever the faults (QueuedOnce).
LEMMA QueuedOnceStep ==
  TypeOK /\ QueuedOnce /\ [Next]_vars => QueuedOnce'
<1> SUFFICES ASSUME TypeOK, QueuedOnce, [Next]_vars PROVE QueuedOnce'
  OBVIOUS
<1> USE DEF TypeOK, QueuedOnce, vars, webVars, taskVars, keyVars, dbVars
<1>1. ASSUME NEW k \in Tasks,
             Post(k) \/ LookUp(k) \/ Send(k) \/ SendFails(k)
      PROVE  QueuedOnce'
  BY <1>1 DEF Post, LookUp, Send, SendFails
<1>2. ASSUME NEW k \in Tasks, Work(k) \/ Crash(k) PROVE QueuedOnce'
  <2>1. phase[k] # "unsent" /\ UNCHANGED web
    BY <1>2 DEF Work, TaskStart, Raise, ReadThread, CallLLM, Commit, ReleaseLock,
                ReleaseInflight, Return, Crash, Holding, HoldingPhases
  <2>2. \A j \in Tasks \ {k} : phase'[j] = phase[j]
    BY <1>2 DEF Work, TaskStart, Raise, ReadThread, CallLLM, Commit, ReleaseLock,
                ReleaseInflight, Return, Crash, Enter
  <2> QED
    BY <2>1, <2>2
<1>3. ASSUME LoseKeys PROVE QueuedOnce'
  BY <1>3 DEF LoseKeys
<1>4. ASSUME NEW t \in Threads, Arrive(t) PROVE QueuedOnce'
  BY <1>4 DEF Arrive
<1>5. ASSUME Tick \/ UNCHANGED vars PROVE QueuedOnce'
  BY <1>5 DEF Tick
<1> QED
  BY <1>1, <1>2, <1>3, <1>4, <1>5 DEF Next

\* No step but a swallowed delete leaves a lock key without its holder.
LEMMA LockHeldStep ==
  ASSUME "outage" \notin Faults, TypeOK, QueuedOnce, LockHeld, [Next]_vars
  PROVE  LockHeld'
<1> USE DEF vars, webVars, taskVars, keyVars, dbVars, TypeOK, LockHeld,
        Holding, HoldingPhases
<1>1. ASSUME NEW k \in Tasks,
             Post(k) \/ LookUp(k) \/ SendFails(k)
      PROVE  LockHeld'
  BY <1>1 DEF Post, LookUp, SendFails
<1>2. ASSUME NEW k \in Tasks, Send(k) PROVE LockHeld'
  BY <1>2 DEF Send, QueuedOnce
<1>3. ASSUME NEW k \in Tasks, TaskStart(k) PROVE LockHeld'
  BY <1>3 DEF TaskStart, acquire_lock, Outage, Enter
<1>4. ASSUME NEW k \in Tasks,
             Raise(k) \/ ReadThread(k) \/ CallLLM(k) \/ Commit(k)
      PROVE  LockHeld'
  BY <1>4 DEF Raise, ReadThread, CallLLM, Commit, Enter
<1>5. ASSUME NEW k \in Tasks, ReleaseLock(k) PROVE LockHeld'
  BY <1>5 DEF ReleaseLock, release_lock, Outage, Enter
<1>6. ASSUME NEW k \in Tasks, ReleaseInflight(k) \/ Return(k) PROVE LockHeld'
  BY <1>6 DEF ReleaseInflight, Return, Enter
<1>7. ASSUME NEW k \in Tasks, Crash(k) PROVE LockHeld'
  BY <1>7 DEF Crash, Enter
<1>8. ASSUME NEW t \in Threads, Arrive(t) PROVE LockHeld'
  BY <1>8 DEF Arrive
<1>9. ASSUME Tick PROVE LockHeld'
  <2>1. \A t \in Threads : lock'[t] > 0 => lock[t] > 0
    BY <1>9, TTLAssumption DEF Tick, expire
  <2> QED
    BY <1>9, <2>1 DEF Tick
<1>10. ASSUME UNCHANGED vars PROVE LockHeld'
  BY <1>10
<1>11. ASSUME LoseKeys PROVE LockHeld'
  BY <1>11 DEF LoseKeys
<1> QED
  BY <1>1, <1>2, <1>3, <1>4, <1>5, <1>6, <1>7, <1>8, <1>9, <1>10, <1>11
     DEF Next, Work

\* Unless an outage swallows a delete, a lock key has its holder, or the
\* holder was lost with its worker (LockHeld).
THEOREM LocksHeld ==
  ASSUME "outage" \notin Faults PROVE Spec => []LockHeld
<1>1. Init => LockHeld /\ QueuedOnce
  BY DEF Init, LockHeld, QueuedOnce
<1>2. TypeOK /\ QueuedOnce /\ [Next]_vars => QueuedOnce'
  BY QueuedOnceStep
<1>3. TypeOK /\ QueuedOnce /\ LockHeld /\ [Next]_vars => LockHeld'
  BY LockHeldStep
<1> QED
  BY <1>1, <1>2, <1>3, TypeCorrect, PTL DEF Spec

\* Unless an outage swallows a delete, a task is skipped only while another
\* of its thread is at work, or after one was lost (SkipJustified).
THEOREM SkipsJustified ==
  ASSUME "outage" \notin Faults PROVE Spec => SkipJustified
<1> DEFINE Justified ==
      \A k \in Tasks :
        outcome'[k] = "skipped" /\ outcome[k] # "skipped"
          => OthersAtWork(k) # {}
<1>1. TypeOK /\ LockHeld /\ [Next]_vars => [Justified]_vars
  <2> SUFFICES ASSUME TypeOK, LockHeld, Next PROVE Justified
    OBVIOUS
  <2>1. ASSUME NEW k \in Tasks, TaskStart(k) PROVE Justified
    <3>1. lock[target[k]] = 0 => UNCHANGED outcome
      BY <2>1 DEF TaskStart, acquire_lock, Outage
    <3>2. lock[target[k]] # 0 => OthersAtWork(k) # {}
      <4>1. SUFFICES ASSUME lock[target[k]] # 0 PROVE OthersAtWork(k) # {}
        OBVIOUS
      <4>2. lock[target[k]] > 0 /\ target[k] \in Threads
        BY <4>1, TTLAssumption DEF TypeOK
      <4>3. PICK j \in Tasks :
              target[j] = target[k] /\ (Holding(j) \/ phase[j] = "lost")
        BY <4>2 DEF LockHeld
      <4>4. j # k
        BY <2>1, <4>3 DEF TaskStart, Holding, HoldingPhases
      <4> QED
        BY <4>3, <4>4 DEF OthersAtWork
    <3>3. \A j \in Tasks \ {k} : outcome'[j] = outcome[j]
      BY <2>1 DEF TaskStart, Result, TypeOK
    <3> QED
      BY <3>1, <3>2, <3>3
  <2>2. ASSUME NEW k \in Tasks, Raise(k) \/ Commit(k) PROVE Justified
    BY <2>2 DEF Raise, Commit, Result, TypeOK
  <2>3. \/ \E k \in Tasks : TaskStart(k) \/ Raise(k) \/ Commit(k)
        \/ UNCHANGED outcome
    BY DEF Next, Work, Post, LookUp, Send, SendFails, ReadThread, CallLLM,
       ReleaseLock, ReleaseInflight, Return, Crash, LoseKeys, Arrive, Tick,
       taskVars
  <2> QED
    BY <2>1, <2>2, <2>3
<1> QED
  BY <1>1, LocksHeld, TypeCorrect, PTL DEF Spec, SkipJustified

-----------------------------------------------------------------------------
(***************************************************************************)
(* Refinement of SerialRefresh.                                            *)
(***************************************************************************)

\* A thread is open from the moment one of its holders is exposed, else its
\* stage is that of its only holder.
LEMMA StageOfHolder ==
  ASSUME IInv, NEW k \in Tasks, Holding(k)
  PROVE  /\ stage[target[k]] =
              IF k \in exposed THEN "open"
              ELSE IF phase[k] = "unlocking" THEN "closing" ELSE "working"
         /\ k \notin exposed => Holders(target[k]) = {k}
<1>1. k \in Holders(target[k]) /\ target[k] \in Threads
  BY DEF Holders, IInv, TypeOK
<1>2. CASE k \in exposed
  BY <1>1, <1>2 DEF stage
<1>3. CASE k \notin exposed
  <2>1. Holders(target[k]) = {k}
    BY <1>1, <1>3 DEF Holders, IInv, OneRefreshPerThread
  <2> QED
    BY <1>1, <1>3, <2>1 DEF stage
<1> QED
  BY <1>2, <1>3

\* A thread without a holder is idle, one with a holder is not.
LEMMA StageWithoutHolder ==
  \A t \in Threads : Holders(t) = {} <=> stage[t] = "idle"
BY DEF stage

\* A step of task k leaves the stage of other threads as it is.
LEMMA OtherStages ==
  ASSUME TypeOK, NEW k \in Tasks, target' = target,
         \A j \in Tasks \ {k} : phase'[j] = phase[j],
         exposed' \in {exposed, exposed \cup {k}}
  PROVE  \A t \in Threads \ {target[k]} : stage'[t] = stage[t]
<1> SUFFICES ASSUME NEW t \in Threads, t # target[k]
             PROVE  stage'[t] = stage[t]
  OBVIOUS
<1>1. Holders(t)' = Holders(t)
  BY DEF Holders, Holding
<1>2. \A j \in Holders(t) : phase'[j] = phase[j] /\ (j \in exposed' <=> j \in exposed)
  BY DEF Holders
<1>3. (Holders(t) \cap exposed = {}) <=> (Holders(t)' \cap exposed' = {})
  BY <1>1, <1>2
<1>4. (\E j \in Holders(t) : phase[j] # "unlocking")
        <=> (\E j \in Holders(t)' : phase'[j] # "unlocking")
  BY <1>1, <1>2
<1> QED
  BY <1>1, <1>3, <1>4 DEF stage

\* A step that moves no task into, out of or along its `try`, and exposes
\* nobody, moves no stage.
LEMMA SameStages ==
  ASSUME target' = target, exposed' = exposed,
         \A k \in Tasks : /\ Holding(k)' <=> Holding(k)
                          /\ phase'[k] = "unlocking" <=> phase[k] = "unlocking"
  PROVE  stage' = stage
<1>1. \A t \in Threads : Holders(t)' = Holders(t)
  BY DEF Holders
<1>2. \A t \in Threads : stage'[t] = stage[t]
  BY <1>1 DEF stage, Holders
<1> QED
  BY <1>2 DEF stage

\* Exposing the holders of some threads opens those that have any.
LEMMA OpenedStages ==
  ASSUME NEW S \in SUBSET Threads, Expose(S), target' = target,
         \A k \in Tasks : /\ Holding(k)' <=> Holding(k)
                          /\ phase'[k] = "unlocking" <=> phase[k] = "unlocking"
  PROVE  stage' = [t \in Threads |->
                     IF t \in S /\ stage[t] # "idle" THEN "open" ELSE stage[t]]
<1>1. \A t \in Threads : Holders(t)' = Holders(t)
  BY DEF Holders
<1>2. ASSUME NEW t \in Threads
      PROVE  stage'[t] = IF t \in S /\ stage[t] # "idle" THEN "open" ELSE stage[t]
  <2>1. stage'[t] = IF Holders(t) = {} THEN "idle"
                    ELSE IF Holders(t) \cap exposed' # {} THEN "open"
                    ELSE IF \E k \in Holders(t) : phase'[k] # "unlocking"
                         THEN "working" ELSE "closing"
    BY <1>1 DEF stage
  <2>2. (\E k \in Holders(t) : phase'[k] # "unlocking")
          <=> (\E k \in Holders(t) : phase[k] # "unlocking")
    BY DEF Holders
  <2>3. CASE Holders(t) = {}
    BY <2>1, <2>3, StageWithoutHolder
  <2>4. CASE Holders(t) # {} /\ t \in S
    BY <2>1, <2>4, StageWithoutHolder DEF Expose
  <2>5. CASE Holders(t) # {} /\ t \notin S
    <3>1. Holders(t) \cap exposed' = Holders(t) \cap exposed
      BY <2>5 DEF Expose, Holders
    <3> QED
      BY <2>1, <2>2, <2>5, <3>1 DEF stage
  <2> QED
    BY <2>3, <2>4, <2>5
<1> QED
  BY <1>2 DEF stage

\* The initial states are those of SerialRefresh.
LEMMA SerialInit == Init => Serial!Init
BY DEF Init, Serial!Init, stage, Holders, Holding, HoldingPhases

\* A task that leaves the `try` ends the refresh of its thread, unless others
\* are at work beside it.
LEMMA LeaveStage ==
  ASSUME IInv, NEW k \in Tasks, Holding(k), NEW p \in {"releasing", "lost"},
         phase' = [phase EXCEPT ![k] = p], target' = target, exposed' = exposed
  PROVE  \/ stage[target[k]] # "idle" /\ stage' = [stage EXCEPT ![target[k]] = "idle"]
         \/ stage' = stage
<1> DEFINE T == target[k]
<1>1. /\ T \in Threads
      /\ \A t \in Threads \ {T} : stage'[t] = stage[t]
      /\ stage = [t \in Threads |-> stage[t]]
      /\ stage' = [t \in Threads |-> stage'[t]]
  <2>1. \A j \in Tasks \ {k} : phase'[j] = phase[j]
    BY DEF IInv, TypeOK
  <2> QED
    BY <2>1, OtherStages DEF IInv, TypeOK, stage
<1>2. \A j \in Tasks : Holding(j)' <=> Holding(j) /\ j # k
  BY DEF IInv, TypeOK, Holding, HoldingPhases
<1>3. Holders(T)' = Holders(T) \ {k}
  BY <1>2 DEF Holders
<1>4. stage[T] # "idle"
  BY <1>1, StageWithoutHolder DEF Holders
<1>5. CASE Holders(T)' = {}
  <2>1. stage'[T] = "idle"
    BY <1>1, <1>5 DEF stage
  <2> QED
    BY <1>1, <1>4, <2>1
<1>6. CASE Holders(T)' # {}
  <2>1. PICK j \in Tasks : Holding(j) /\ target[j] = T /\ j # k
    BY <1>3, <1>6 DEF Holders
  <2>2. {j, k} \subseteq exposed
    BY <2>1 DEF IInv, OneRefreshPerThread
  <2>3. stage[T] = "open"
    BY <2>2, StageOfHolder
  <2>4. j \in Holders(T)' /\ j \in exposed'
    BY <1>2, <2>1, <2>2 DEF Holders
  <2>5. stage'[T] = "open"
    BY <1>1, <2>4 DEF stage
  <2> QED
    BY <1>1, <2>3, <2>5
<1> QED
  BY <1>5, <1>6

\* A task that is done with the service, whether it wrote the row or raised,
\* closes the stage of its thread, unless the thread is open.
LEMMA CloseStage ==
  ASSUME IInv, NEW k \in Tasks, Holding(k), phase[k] # "unlocking",
         phase' = [phase EXCEPT ![k] = "unlocking"], target' = target,
         exposed' = exposed
  PROVE  IF k \in exposed
         THEN stage[target[k]] = "open" /\ stage' = stage
         ELSE /\ stage[target[k]] = "working"
              /\ stage' = [stage EXCEPT ![target[k]] = "closing"]
<1> DEFINE T == target[k]
<1>1. /\ T \in Threads
      /\ \A t \in Threads \ {T} : stage'[t] = stage[t]
      /\ stage = [t \in Threads |-> stage[t]]
      /\ stage' = [t \in Threads |-> stage'[t]]
  <2>1. \A j \in Tasks \ {k} : phase'[j] = phase[j]
    BY DEF IInv, TypeOK
  <2> QED
    BY <2>1, OtherStages DEF IInv, TypeOK, stage
<1>2. Holders(T)' = Holders(T) /\ k \in Holders(T) /\ phase'[k] = "unlocking"
  BY DEF IInv, TypeOK, Holders, Holding, HoldingPhases
<1>3. stage[T] = IF k \in exposed THEN "open" ELSE "working"
  BY StageOfHolder
<1>4. CASE k \in exposed
  <2>1. stage'[T] = "open"
    BY <1>1, <1>2, <1>4 DEF stage
  <2> QED
    BY <1>1, <1>3, <1>4, <2>1
<1>5. CASE k \notin exposed
  <2>1. Holders(T)' = {k}
    BY <1>2, <1>5, StageOfHolder
  <2>2. stage'[T] = "closing"
    BY <1>1, <1>2, <1>5, <2>1 DEF stage
  <2> QED
    BY <1>1, <1>3, <1>5, <2>2
<1> QED
  BY <1>4, <1>5

\* A task that gets the lock begins the refresh of its thread, or joins
\* exposed ones.
LEMMA BeginStage ==
  ASSUME IInv, NEW k \in Tasks, phase[k] = "queued", Join(k),
         lock[target[k]] = 0, phase' = [phase EXCEPT ![k] = "reading"],
         target' = target
  PROVE  \/ stage[target[k]] = "idle"
              /\ stage' = [stage EXCEPT ![target[k]] = "working"]
         \/ stage' = stage
<1> DEFINE T == target[k]
<1>1. /\ T \in Threads
      /\ \A t \in Threads \ {T} : stage'[t] = stage[t]
      /\ stage = [t \in Threads |-> stage[t]]
      /\ stage' = [t \in Threads |-> stage'[t]]
  <2>1. /\ \A j \in Tasks \ {k} : phase'[j] = phase[j]
        /\ exposed' \in {exposed, exposed \cup {k}}
    BY DEF IInv, TypeOK, Join
  <2> QED
    BY <2>1, OtherStages DEF IInv, TypeOK, stage
<1>2. Holders(T)' = Holders(T) \cup {k} /\ phase'[k] = "reading"
  BY DEF IInv, TypeOK, Holders, Holding, HoldingPhases
<1>3. Holders(T) \subseteq exposed
  BY DEF Holders, IInv, LockGuards, TypeOK
<1>4. CASE Holders(T) = {}
  <2>1. k \notin exposed' => stage'[T] = "working"
    BY <1>1, <1>2, <1>4 DEF stage
  <2>2. k \notin exposed'
    BY <1>4 DEF Join, IInv, ExposedStarted
  <2> QED
    BY <1>1, <1>4, <2>1, <2>2, StageWithoutHolder
<1>5. CASE Holders(T) # {}
  <2>1. stage[T] = "open"
    BY <1>1, <1>3, <1>5 DEF stage
  <2>2. Holders(T)' \cap exposed' # {}
    BY <1>2, <1>3, <1>5 DEF Join
  <2>3. stage'[T] = "open"
    BY <1>1, <1>2, <2>2 DEF stage
  <2> QED
    BY <1>1, <2>1, <2>3
<1> QED
  BY <1>4, <1>5

\* Every step does what one action of SerialRefresh does, or stutters.
LEMMA SerialStep ==
  ASSUME IInv, [Next]_vars
  PROVE  [Serial!Next]_(Serial!vars)
<1> USE DEF vars, webVars, taskVars, keyVars, dbVars
<1> DEFINE T(k) == target[k]
<1>0. TypeOK /\ \A k \in Tasks : T(k) \in Threads
  BY DEF IInv, TypeOK
<1>1. ASSUME NEW k \in Tasks, Post(k) \/ LookUp(k) \/ SendFails(k)
      PROVE  UNCHANGED Serial!vars
  BY <1>1, SameStages DEF Post, LookUp, SendFails, Serial!vars, Holding
<1>2. ASSUME NEW k \in Tasks, Send(k) PROVE UNCHANGED Serial!vars
  <2>1. phase[k] = "unsent"
    BY <1>2 DEF Send, IInv, QueuedOnce
  <2> QED
    BY <1>0, <1>2, <2>1, SameStages
       DEF Send, TypeOK, Serial!vars, Holding, HoldingPhases
<1>3. ASSUME NEW k \in Tasks, TaskStart(k)
      PROVE  Serial!Begin(T(k)) \/ UNCHANGED Serial!vars
  <2>1. PICK got \in BOOLEAN :
          /\ acquire_lock(target[k], got)
          /\ IF got THEN Enter(k, "reading") /\ Join(k) /\ UNCHANGED outcome
                    ELSE /\ Enter(k, "returning")
                         /\ Result(k, "skipped")
                         /\ UNCHANGED exposed
    BY <1>3 DEF TaskStart
  <2>2. phase[k] = "queued" /\ target' = target /\ UNCHANGED dbVars
    BY <1>3 DEF TaskStart
  <2>3. CASE got
    <3>1. /\ lock[target[k]] = 0 /\ Join(k)
          /\ phase' = [phase EXCEPT ![k] = "reading"]
      BY <2>1, <2>3 DEF acquire_lock, Enter
    <3>2. \/ stage[T(k)] = "idle" /\ stage' = [stage EXCEPT ![T(k)] = "working"]
          \/ stage' = stage
      BY <2>2, <3>1, BeginStage
    <3> QED
      BY <2>2, <3>2 DEF Serial!Begin, Serial!vars
  <2>4. CASE ~got
    <3>1. phase' = [phase EXCEPT ![k] = "returning"] /\ exposed' = exposed
      BY <2>1, <2>4 DEF Enter
    <3> QED
      BY <1>0, <2>2, <3>1, SameStages
         DEF TypeOK, Serial!vars, Holding, HoldingPhases
  <2> QED
    BY <2>3, <2>4
<1>4. ASSUME NEW k \in Tasks, Raise(k)
      PROVE  Serial!Abort(T(k)) \/ UNCHANGED Serial!vars
  <2>1. /\ Holding(k) /\ phase[k] # "unlocking"
        /\ phase' = [phase EXCEPT ![k] = "unlocking"]
        /\ target' = target /\ exposed' = exposed /\ UNCHANGED dbVars
    BY <1>4 DEF Raise, Enter, Holding, HoldingPhases
  <2> QED
    BY <2>1, CloseStage DEF Serial!Abort, Serial!vars
<1>5. ASSUME NEW k \in Tasks, ReadThread(k) \/ CallLLM(k)
      PROVE  UNCHANGED Serial!vars
  BY <1>0, <1>5, SameStages
     DEF ReadThread, CallLLM, Enter, TypeOK, Serial!vars, Holding, HoldingPhases
<1>6. ASSUME NEW k \in Tasks, Commit(k)
      PROVE  Serial!Publish(T(k)) \/ Serial!Overwrite(T(k))
  <2>1. /\ Holding(k) /\ phase[k] # "unlocking"
        /\ phase' = [phase EXCEPT ![k] = "unlocking"]
        /\ summary' = [summary EXCEPT ![T(k)] = seen[k]]
        /\ target' = target /\ exposed' = exposed /\ messages' = messages
    BY <1>6 DEF Commit, Enter, Holding, HoldingPhases
  <2>2. /\ seen[k] \subseteq messages[T(k)] /\ seen[k] # {}
        /\ k \notin exposed => summary[T(k)] \subseteq seen[k]
    BY <1>6 DEF Commit, IInv, SnapshotCovers
  <2>3. IF k \in exposed
        THEN stage[T(k)] = "open" /\ stage' = stage
        ELSE stage[T(k)] = "working" /\ stage' = [stage EXCEPT ![T(k)] = "closing"]
    BY <2>1, CloseStage
  <2> QED
    BY <2>1, <2>2, <2>3 DEF Serial!Publish, Serial!Overwrite
<1>7. ASSUME NEW k \in Tasks, ReleaseLock(k)
      PROVE  Serial!End(T(k)) \/ UNCHANGED Serial!vars
  <2>1. /\ Holding(k) /\ phase' = [phase EXCEPT ![k] = "releasing"]
        /\ target' = target /\ exposed' = exposed /\ UNCHANGED dbVars
    BY <1>7 DEF ReleaseLock, Enter, Holding, HoldingPhases
  <2> QED
    BY <2>1, LeaveStage DEF Serial!End, Serial!vars
<1>8. ASSUME NEW k \in Tasks, ReleaseInflight(k) \/ Return(k)
      PROVE  UNCHANGED Serial!vars
  BY <1>0, <1>8, SameStages DEF ReleaseInflight, Return, Enter, TypeOK,
     Serial!vars, Holding, HoldingPhases
<1>9. ASSUME NEW k \in Tasks, Crash(k)
      PROVE  Serial!End(T(k)) \/ UNCHANGED Serial!vars
  <2>1. /\ phase' = [phase EXCEPT ![k] = "lost"]
        /\ target' = target /\ exposed' = exposed /\ UNCHANGED dbVars
    BY <1>9 DEF Crash, Enter
  <2>2. CASE Holding(k)
    BY <2>1, <2>2, LeaveStage DEF Serial!End, Serial!vars
  <2>3. CASE ~Holding(k)
    BY <1>0, <1>9, <2>1, <2>3, SameStages
       DEF Crash, TypeOK, Serial!vars, Holding, HoldingPhases
  <2> QED
    BY <2>2, <2>3
<1>10. ASSUME NEW t \in Threads, Arrive(t) PROVE Serial!Arrive(t)
  BY <1>10, SameStages DEF Arrive, Serial!Arrive, Holding
<1>11. ASSUME LoseKeys PROVE \E S \in SUBSET Threads : Serial!RunOut(S)
  <2>1. PICK S \in SUBSET Threads : Expose(S)
    BY <1>11 DEF LoseKeys
  <2>2. \A k \in Tasks :
          \/ phase'[k] = phase[k]
          \/ phase[k] \in {"queued", "done"} /\ phase'[k] \in {"lost", "forgotten"}
    BY <1>11 DEF LoseKeys
  <2>3. /\ \A k \in Tasks : /\ Holding(k)' <=> Holding(k)
                            /\ phase'[k] = "unlocking" <=> phase[k] = "unlocking"
        /\ target' = target /\ UNCHANGED dbVars
    BY <1>11, <2>2 DEF LoseKeys, Holding, HoldingPhases
  <2>4. stage' = [t \in Threads |->
                    IF t \in S /\ stage[t] # "idle" THEN "open" ELSE stage[t]]
    BY <2>1, <2>3, OpenedStages
  <2> QED
    BY <2>3, <2>4 DEF Serial!RunOut
<1>12. ASSUME Tick PROVE \E S \in SUBSET Threads : Serial!RunOut(S)
  <2>1. PICK S \in SUBSET Threads : Expose(S)
    BY <1>12 DEF Tick
  <2>2. /\ \A k \in Tasks : /\ Holding(k)' <=> Holding(k)
                            /\ phase'[k] = "unlocking" <=> phase[k] = "unlocking"
        /\ target' = target /\ UNCHANGED dbVars
    BY <1>12 DEF Tick, Holding
  <2>3. stage' = [t \in Threads |->
                    IF t \in S /\ stage[t] # "idle" THEN "open" ELSE stage[t]]
    BY <2>1, <2>2, OpenedStages
  <2> QED
    BY <2>2, <2>3 DEF Serial!RunOut
<1>13. ASSUME UNCHANGED vars PROVE UNCHANGED Serial!vars
  BY <1>13, SameStages DEF Serial!vars, Holding
<1> QED
  BY <1>0, <1>1, <1>2, <1>3, <1>4, <1>5, <1>6, <1>7, <1>8, <1>9, <1>10, <1>11,
     <1>12, <1>13 DEF Next, Work, Serial!Next

\* The keys, the queue and the clock implement SerialRefresh
\* (ImplementsSerialRefresh): one refresh at a time, each covering what the
\* one before it covered, but while a lock has run out under its holder.
THEOREM Refinement == Spec => ImplementsSerialRefresh
<1>1. IInv /\ [Next]_vars => [Serial!Next]_(Serial!vars)
  BY SerialStep
<1> QED
  BY <1>1, SerialInit, Invariant, PTL DEF Spec, ImplementsSerialRefresh, Serial!Spec

==============================================================================
