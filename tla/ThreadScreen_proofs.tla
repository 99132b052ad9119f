-------------------------- MODULE ThreadScreen_proofs --------------------------
(***************************************************************************)
(* Proofs about ThreadScreen, for any number of threads, of overlapping    *)
(* loads and refreshes, and of polls before the cap.                       *)
(***************************************************************************)
EXTENDS ThreadScreen, TLAPS

(***************************************************************************)
(* The inductive invariant.  What makes the panel right in the end is that *)
(* a summary under way is of the thread on the screen, or has been marked  *)
(* as overtaken when another thread was rendered.                          *)
(***************************************************************************)
LoadStates == [pc : {"idle", "thread", "summary"}, id : Threads \cup {NoThread},
               overtaken : BOOLEAN]
RefreshStates == [pc : {"idle", "loading", "timer"} \cup Polling, id : Threads \cup {NoThread},
                  overtaken : BOOLEAN, another : BOOLEAN, waits : 0..PollCap]

NotOvertaken ==
  /\ \A l \in Loads : load[l].pc = "summary" /\ ~load[l].overtaken => load[l].id = shown
  /\ \A r \in Refreshes : refresh[r].pc = "loading" /\ ~refresh[r].overtaken => refresh[r].id = shown

SInv ==
  /\ TypeOK
  /\ OnePoll
  /\ currentThreadId = shown
  /\ NotOvertaken
  /\ PanelBelongsToThread

-----------------------------------------------------------------------------
LEMMA ScreenTypes ==
  TypeOK <=>
    /\ currentThreadId \in Threads \cup {NoThread} /\ shown \in Threads \cup {NoThread}
    /\ panelOf \in Threads \cup {NoThread}
    /\ body \in BOOLEAN /\ buttons \in BOOLEAN /\ hidden \in BOOLEAN /\ late \in BOOLEAN
    /\ load \in [Loads -> LoadStates] /\ refresh \in [Refreshes -> RefreshStates]
BY DEF TypeOK, LoadStates, RefreshStates

LEMMA IdleTypes == IdleLoad \in LoadStates /\ IdleRefresh \in RefreshStates
BY PollCapAssumption DEF IdleLoad, IdleRefresh, LoadStates, RefreshStates

LEMMA InitSInv == Init => SInv
<1> SUFFICES ASSUME Init PROVE SInv
  OBVIOUS
<1>1. TypeOK
  BY IdleTypes, ScreenTypes DEF Init
<1>2. OnePoll
  BY DEF Init, OnePoll, IdleRefresh, Polling
<1>3. NotOvertaken
  BY DEF Init, NotOvertaken, IdleLoad, IdleRefresh
<1>4. PanelBelongsToThread
  BY DEF Init, PanelBelongsToThread
<1> QED
  BY <1>1, <1>2, <1>3, <1>4 DEF SInv, Init

(***************************************************************************)
(* Loads.                                                                  *)
(***************************************************************************)
LEMMA ClickLoadSInv ==
  ASSUME SInv, NEW z \in Loads, ClickLoad(z)
  PROVE  SInv'
<1> USE DEF SInv, ClickLoad, screen
<1>1. PICK id \in Threads :
        load' = [load EXCEPT ![z] = [IdleLoad EXCEPT !.pc = "thread", !.id = id]]
  OBVIOUS
<1> DEFINE new == [IdleLoad EXCEPT !.pc = "thread", !.id = id]
<1>2. new \in LoadStates /\ new.pc = "thread"
  BY DEF IdleLoad, LoadStates
<1>3. TypeOK'
  <2>1. load' \in [Loads -> LoadStates]
    BY <1>1, <1>2, ScreenTypes
  <2> QED
    BY <2>1, ScreenTypes DEF TypeOK, LoadStates, RefreshStates
<1>4. OnePoll'
  BY DEF OnePoll
<1>5. \A l \in Loads : load'[l] = IF l = z THEN new ELSE load[l]
  BY <1>1, ScreenTypes
<1>6. NotOvertaken'
  BY <1>2, <1>5 DEF NotOvertaken
<1>7. PanelBelongsToThread'
  BY <1>5 DEF PanelBelongsToThread
<1> QED
  BY <1>3, <1>4, <1>6, <1>7

\* The one step that renders a thread: what was under way for another is
\* overtaken, and its own summary is under way.
LEMMA LoadedThreadSInv ==
  ASSUME SInv, NEW z \in Loads, LoadedThread(z)
  PROVE  SInv'
<1> USE DEF SInv
<1> DEFINE id == load[z].id
<1>1. /\ currentThreadId' = id /\ shown' = id /\ body' = TRUE /\ hidden' = TRUE
      /\ UNCHANGED <<panelOf, buttons, late>>
      /\ load' = [m \in Loads |-> IF m = z THEN [load[z] EXCEPT !.pc = "summary"]
                                  ELSE Overtake(load[m], "summary", id)]
      /\ refresh' = [r \in Refreshes |-> Overtake(refresh[r], "loading", id)]
  BY DEF LoadedThread
<1>2. load \in [Loads -> LoadStates] /\ refresh \in [Refreshes -> RefreshStates]
  BY ScreenTypes
<1>3. \A m \in Loads : /\ load'[m] \in LoadStates
                       /\ load'[m].pc = "summary" /\ ~load'[m].overtaken => load'[m].id = id
  BY <1>1, <1>2 DEF LoadStates, Overtake
<1>4. \A r \in Refreshes : /\ refresh'[r] \in RefreshStates /\ refresh'[r].pc = refresh[r].pc
                           /\ refresh'[r].pc = "loading" /\ ~refresh'[r].overtaken => refresh'[r].id = id
  BY <1>1, <1>2 DEF RefreshStates, Overtake
<1>5. id \in Threads \cup {NoThread}
  BY <1>2 DEF LoadStates
<1>6. load' \in [Loads -> LoadStates] /\ refresh' \in [Refreshes -> RefreshStates]
  BY <1>1, <1>3, <1>4
<1>7. TypeOK'
  BY <1>1, <1>5, <1>6, ScreenTypes DEF TypeOK, LoadStates, RefreshStates
<1>8. OnePoll'
  BY <1>1, <1>4 DEF OnePoll
<1>9. NotOvertaken'
  BY <1>1, <1>3, <1>4 DEF NotOvertaken
<1>10. PanelBelongsToThread'
  <2>1. load'[z].pc = "summary" /\ load'[z].id = id
    <3>1. load[z] \in LoadStates /\ load'[z] = [load[z] EXCEPT !.pc = "summary"]
      BY <1>1, <1>2
    <3> QED
      BY <3>1 DEF LoadStates
  <2> QED
    BY <1>1, <2>1 DEF PanelBelongsToThread
<1> QED
  BY <1>1, <1>7, <1>8, <1>9, <1>10

LEMMA LoadFailsSInv ==
  ASSUME SInv, NEW z \in Loads, LoadFails(z)
  PROVE  SInv'
<1> USE DEF SInv, LoadFails
<1>1. TypeOK'
  BY IdleTypes, ScreenTypes DEF TypeOK, LoadStates, RefreshStates
<1>2. OnePoll'
  BY DEF OnePoll
<1>3. \A l \in Loads : load'[l] = load[l] \/ load'[l].pc = "idle"
  BY ScreenTypes DEF IdleLoad
<1>4. NotOvertaken'
  BY <1>3 DEF NotOvertaken
<1>5. PanelBelongsToThread'
  BY DEF PanelBelongsToThread
<1> QED
  BY <1>1, <1>2, <1>4, <1>5

LEMMA LoadedSummarySInv ==
  ASSUME SInv, NEW z \in Loads, LoadedSummary(z)
  PROVE  SInv'
<1> USE DEF SInv
<1>1. PICK filled \in BOOLEAN :
        SummaryAnswer(load[z], filled) /\ hidden' = (hidden /\ filled)
  BY DEF LoadedSummary
<1>2. /\ load[z].pc = "summary" /\ load' = [load EXCEPT ![z] = IdleLoad]
      /\ UNCHANGED <<buttons, refresh, currentThreadId, body, shown>>
      /\ panelOf' = IF filled THEN load[z].id ELSE panelOf
      /\ late' = (~filled \/ load[z].overtaken)
  BY <1>1 DEF LoadedSummary, SummaryAnswer
<1>3. load[z] \in LoadStates
  BY ScreenTypes
<1>4. hidden' \in BOOLEAN /\ late' \in BOOLEAN /\ panelOf' \in Threads \cup {NoThread}
  BY <1>1, <1>2, <1>3, ScreenTypes DEF LoadStates
<1>5. TypeOK'
  BY <1>2, <1>4, IdleTypes, ScreenTypes DEF TypeOK, LoadStates, RefreshStates
<1>6. OnePoll'
  BY <1>2 DEF OnePoll
<1>7. \A l \in Loads : load'[l] = IF l = z THEN IdleLoad ELSE load[l]
  BY <1>2, ScreenTypes
<1>8. NotOvertaken'
  BY <1>2, <1>7 DEF NotOvertaken, IdleLoad
<1>9. PanelBelongsToThread'
  <2>1. CASE late'
    BY <1>2, <2>1 DEF PanelBelongsToThread
  <2>2. CASE ~late'
    <3>1. panelOf' = shown
      BY <1>2, <2>2 DEF NotOvertaken
    <3> QED
      BY <1>2, <3>1 DEF PanelBelongsToThread
  <2> QED
    BY <2>1, <2>2
<1> QED
  BY <1>2, <1>5, <1>6, <1>8, <1>9

(***************************************************************************)
(* Refreshes.                                                              *)
(***************************************************************************)
\* Most steps of a refresh leave the screen alone: what the panel shows is
\* as right as it was, if the step ends no load of the summary.
LEMMA ScreenKept ==
  ASSUME SInv, UNCHANGED <<screen, load, late>>,
         \A r \in Refreshes : refresh'[r] # refresh[r] =>
           /\ refresh[r].pc # "loading"
           /\ refresh'[r].pc = "loading" => refresh'[r].id = currentThreadId
  PROVE  (currentThreadId = shown)' /\ NotOvertaken' /\ PanelBelongsToThread'
<1> USE DEF SInv, screen
<1>1. NotOvertaken'
  BY DEF NotOvertaken
<1>2. PanelBelongsToThread'
  <2>1. SUFFICES ASSUME body, panelOf # shown, ~late,
                        NEW r \in Refreshes, refresh[r].pc = "loading", refresh[r].id = shown
                 PROVE  refresh'[r].pc = "loading" /\ refresh'[r].id = shown
    BY DEF PanelBelongsToThread
  <2> QED
    BY <2>1
<1> QED
  BY <1>1, <1>2

\* A refresh that goes on posting or polling.
LEMMA OnePollKept ==
  ASSUME SInv, UNCHANGED buttons,
         \A r \in Refreshes : refresh'[r].pc \in Polling <=> refresh[r].pc \in Polling
  PROVE  OnePoll'
BY DEF SInv, OnePoll

\* A refresh that stops, and enables the buttons.
LEMMA OnePollEnds ==
  ASSUME SInv, buttons' = TRUE, NEW z \in Refreshes, refresh[z].pc \in Polling,
         refresh'[z].pc \notin Polling,
         \A r \in Refreshes : r # z => refresh'[r] = refresh[r]
  PROVE  OnePoll'
BY DEF SInv, OnePoll

LEMMA ClickRefreshSInv ==
  ASSUME SInv, NEW z \in Refreshes, ClickRefresh(z)
  PROVE  SInv'
<1> USE DEF SInv, ClickRefresh
<1> DEFINE new == [IdleRefresh EXCEPT !.pc = "posting", !.id = currentThreadId]
<1>1. new \in RefreshStates /\ new.pc = "posting"
  BY IdleTypes, ScreenTypes DEF RefreshStates, Polling
<1>2. TypeOK'
  BY <1>1, ScreenTypes DEF TypeOK, LoadStates, RefreshStates, screen
<1>3. \A r \in Refreshes : refresh'[r] = IF r = z THEN new ELSE refresh[r]
  BY ScreenTypes
<1>4. OnePoll'
  <2>1. \A r \in Refreshes : refresh'[r].pc \in Polling <=> r = z
    <3>1. \A r \in Refreshes : refresh[r].pc \notin Polling
      BY DEF OnePoll
    <3> QED
      BY <1>1, <1>3, <3>1 DEF Polling
  <2> QED
    BY <2>1 DEF OnePoll
<1>5. (currentThreadId = shown)' /\ NotOvertaken' /\ PanelBelongsToThread'
  BY <1>1, <1>3, ScreenKept DEF screen
<1> QED
  BY <1>2, <1>4, <1>5

LEMMA AcceptedSInv ==
  ASSUME SInv, NEW z \in Refreshes, Accepted(z)
  PROVE  SInv'
<1> USE DEF SInv, Accepted
<1>1. PICK joined \in BOOLEAN :
        refresh' = [refresh EXCEPT ![z].pc = "polling", ![z].another = joined]
  OBVIOUS
<1> DEFINE new == [refresh[z] EXCEPT !.pc = "polling", !.another = joined]
<1>2. new \in RefreshStates /\ new.pc = "polling"
  BY ScreenTypes DEF RefreshStates, Polling
<1>3. \A r \in Refreshes : refresh'[r] = IF r = z THEN new ELSE refresh[r]
  BY <1>1, ScreenTypes
<1>4. TypeOK'
  BY <1>1, <1>2, <1>3, ScreenTypes DEF TypeOK, LoadStates, RefreshStates, screen
<1>5. OnePoll'
  BY <1>2, <1>3, OnePollKept DEF Polling
<1>6. (currentThreadId = shown)' /\ NotOvertaken' /\ PanelBelongsToThread'
  BY <1>2, <1>3, ScreenKept DEF screen
<1> QED
  BY <1>4, <1>5, <1>6

LEMMA PollSInv ==
  ASSUME SInv, NEW z \in Refreshes, Pending(z) \/ PollAgain(z)
  PROVE  SInv'
<1> USE DEF SInv
<1> DEFINE new == refresh'[z]
<1>1. /\ refresh[z].pc \in {"polling", "waiting"} /\ new.pc \in {"polling", "waiting"}
      /\ new \in RefreshStates
      /\ \A r \in Refreshes : r # z => refresh'[r] = refresh[r]
      /\ refresh' = [r \in Refreshes |-> IF r = z THEN new ELSE refresh[r]]
  <2>1. refresh[z] \in RefreshStates /\ refresh \in [Refreshes -> RefreshStates]
    BY ScreenTypes
  <2>2. CASE Pending(z)
    <3>1. new = [refresh[z] EXCEPT !.pc = "waiting", !.waits = @ + 1] /\ refresh[z].waits < PollCap
      BY <2>1, <2>2 DEF Pending
    <3> QED
      BY <2>1, <2>2, <3>1, PollCapAssumption DEF Pending, RefreshStates, Polling
  <2>3. CASE PollAgain(z)
    <3>1. new = [refresh[z] EXCEPT !.pc = "polling"]
      BY <2>1, <2>3 DEF PollAgain
    <3> QED
      BY <2>1, <2>3, <3>1 DEF PollAgain, RefreshStates, Polling
  <2> QED
    BY <2>2, <2>3
<1>2. UNCHANGED <<screen, buttons, hidden, load, late>>
  BY DEF Pending, PollAgain
<1>3. refresh' \in [Refreshes -> RefreshStates]
  BY <1>1, ScreenTypes
<1>4. TypeOK'
  BY <1>2, <1>3, ScreenTypes DEF TypeOK, LoadStates, RefreshStates, screen
<1>5. OnePoll'
  BY <1>1, <1>2, OnePollKept DEF Polling
<1>6. (currentThreadId = shown)' /\ NotOvertaken' /\ PanelBelongsToThread'
  BY <1>1, <1>2, ScreenKept DEF screen
<1> QED
  BY <1>4, <1>5, <1>6

LEMMA SuccessSInv ==
  ASSUME SInv, NEW z \in Refreshes, Success(z)
  PROVE  SInv'
<1> USE DEF SInv, Success
<1>1. PICK skipped \in BOOLEAN :
        refresh' = [refresh EXCEPT ![z].pc = "loading", ![z].id = currentThreadId,
                                   ![z].another = @ \/ skipped]
  OBVIOUS
<1> DEFINE new == [refresh[z] EXCEPT !.pc = "loading", !.id = currentThreadId,
                                     !.another = @ \/ skipped]
<1>2. new \in RefreshStates /\ new.pc = "loading" /\ new.id = currentThreadId
  <2>1. refresh[z] \in RefreshStates /\ currentThreadId \in Threads \cup {NoThread}
    BY ScreenTypes
  <2>2. (refresh[z].another \/ skipped) \in BOOLEAN
    OBVIOUS
  <2> QED
    BY <2>1, <2>2 DEF RefreshStates
<1>3. \A r \in Refreshes : refresh'[r] = IF r = z THEN new ELSE refresh[r]
  BY <1>1, ScreenTypes
<1>4. refresh' \in [Refreshes -> RefreshStates]
  BY <1>1, <1>2, <1>3, ScreenTypes
<1>5. TypeOK'
  BY <1>4, ScreenTypes DEF TypeOK, LoadStates, RefreshStates, screen
<1>6. OnePoll'
  BY <1>2, <1>3, OnePollEnds DEF Polling
<1>7. (currentThreadId = shown)' /\ NotOvertaken' /\ PanelBelongsToThread'
  BY <1>2, <1>3, ScreenKept DEF screen
<1> QED
  BY <1>5, <1>6, <1>7

LEMMA FailureSInv ==
  ASSUME SInv, NEW z \in Refreshes, Failure(z)
  PROVE  SInv'
<1> USE DEF SInv, Failure
<1>1. \A r \in Refreshes : refresh'[r] = IF r = z THEN IdleRefresh ELSE refresh[r]
  BY ScreenTypes
<1>2. IdleRefresh.pc = "idle"
  BY DEF IdleRefresh
<1>3. TypeOK'
  BY IdleTypes, ScreenTypes DEF TypeOK, LoadStates, RefreshStates, screen
<1>4. OnePoll'
  BY <1>1, <1>2, OnePollEnds DEF Polling
<1>5. (currentThreadId = shown)' /\ NotOvertaken' /\ PanelBelongsToThread'
  BY <1>1, <1>2, ScreenKept DEF screen
<1> QED
  BY <1>3, <1>4, <1>5

LEMMA RefreshedSInv ==
  ASSUME SInv, NEW z \in Refreshes, Refreshed(z)
  PROVE  SInv'
<1> USE DEF SInv
<1>1. PICK filled \in BOOLEAN :
        SummaryAnswer(refresh[z], filled) /\ hidden' = (hidden /\ filled)
  BY DEF Refreshed
<1> DEFINE new == [IdleRefresh EXCEPT !.pc = "timer", !.another = refresh[z].another]
<1>2. /\ refresh[z].pc = "loading" /\ refresh' = [refresh EXCEPT ![z] = new]
      /\ UNCHANGED <<buttons, load, currentThreadId, body, shown>>
      /\ panelOf' = IF filled THEN refresh[z].id ELSE panelOf
      /\ late' = (~filled \/ refresh[z].overtaken)
  BY <1>1 DEF Refreshed, SummaryAnswer
<1>3. refresh[z] \in RefreshStates
  BY ScreenTypes
<1>4. new \in RefreshStates /\ new.pc = "timer"
  BY <1>3, IdleTypes DEF RefreshStates
<1>5. \A r \in Refreshes : refresh'[r] = IF r = z THEN new ELSE refresh[r]
  BY <1>2, ScreenTypes
<1>6. hidden' \in BOOLEAN /\ late' \in BOOLEAN /\ panelOf' \in Threads \cup {NoThread}
  BY <1>1, <1>2, <1>3, ScreenTypes DEF RefreshStates
<1>7. TypeOK'
  BY <1>2, <1>4, <1>6, ScreenTypes DEF TypeOK, LoadStates, RefreshStates
<1>8. OnePoll'
  BY <1>2, <1>4, <1>5, OnePollKept DEF Polling
<1>9. NotOvertaken'
  BY <1>2, <1>4, <1>5 DEF NotOvertaken
<1>10. PanelBelongsToThread'
  <2>1. CASE late'
    BY <1>2, <2>1 DEF PanelBelongsToThread
  <2>2. CASE ~late'
    <3>1. panelOf' = shown
      BY <1>2, <2>2 DEF NotOvertaken
    <3> QED
      BY <1>2, <3>1 DEF PanelBelongsToThread
  <2> QED
    BY <2>1, <2>2
<1> QED
  BY <1>2, <1>7, <1>8, <1>9, <1>10

LEMMA HideLaterSInv ==
  ASSUME SInv, NEW z \in Refreshes, HideLater(z)
  PROVE  SInv'
<1> USE DEF SInv, HideLater
<1>1. \A r \in Refreshes : refresh'[r] = IF r = z THEN IdleRefresh ELSE refresh[r]
  BY ScreenTypes
<1>2. IdleRefresh.pc = "idle"
  BY DEF IdleRefresh
<1>3. TypeOK'
  BY IdleTypes, ScreenTypes DEF TypeOK, LoadStates, RefreshStates, screen
<1>4. OnePoll'
  BY <1>1, <1>2, OnePollKept DEF Polling
<1>5. (currentThreadId = shown)' /\ NotOvertaken' /\ PanelBelongsToThread'
  BY <1>1, <1>2, ScreenKept DEF screen
<1> QED
  BY <1>3, <1>4, <1>5

LEMMA NextSInv == SInv /\ [Next]_vars => SInv'
<1> SUFFICES ASSUME SInv, [Next]_vars PROVE SInv'
  OBVIOUS
<1>1. CASE UNCHANGED vars
  BY <1>1 DEF vars, screen, SInv, TypeOK, OnePoll, NotOvertaken, PanelBelongsToThread
<1>2. CASE Next
  BY <1>2, ClickLoadSInv, LoadedThreadSInv, LoadFailsSInv, LoadedSummarySInv, ClickRefreshSInv,
     AcceptedSInv, PollSInv, SuccessSInv, FailureSInv, RefreshedSInv, HideLaterSInv
     DEF Next, Loading, Refreshing
<1> QED
  BY <1>1, <1>2

\* The inductive invariant holds in every reachable state.
THEOREM ScreenInvariant == Spec => []SInv
BY InitSInv, NextSInv, PTL DEF Spec

\* The types of the page's globals and of the handlers' local variables.
THEOREM ScreenTypesHold == Spec => []TypeOK
<1>1. SInv => TypeOK
  BY DEF SInv
<1> QED
  BY <1>1, ScreenInvariant, PTL

\* app.js refreshSummary, pollTask: disabling the buttons is enough for a user
\* to have one poll at most, however many handlers overlap.
THEOREM OnePollAtATime == Spec => []OnePoll
<1>1. SInv => OnePoll
  BY DEF SInv
<1> QED
  BY <1>1, ScreenInvariant, PTL

\* app.js loadThread, loadSummary, onTerminal: the panel belongs to the thread
\* on the screen, or will, unless an answer failed or was overtaken.
THEOREM PanelIsOfTheThread == Spec => []PanelBelongsToThread
<1>1. SInv => PanelBelongsToThread
  BY DEF SInv
<1> QED
  BY <1>1, ScreenInvariant, PTL
==============================================================================
