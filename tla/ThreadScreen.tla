----------------------------- MODULE ThreadScreen -----------------------------
(***************************************************************************)
(* The thread screen of static/app.js: loading a thread and its summary,   *)
(* asking for a refresh and polling its task.                              *)
(*                                                                         *)
(* The page has one thread, but each `await` hands it back: a handler is a *)
(* chain of steps, one per answer, and the chains of overlapping clicks    *)
(* interleave in the order the answers come in.  A click on Load, a sample *)
(* or a report's link starts a chain of Loads; a click on Generate or      *)
(* Refresh starts one of Refreshes.  A chain that ended may start again.   *)
(***************************************************************************)
EXTENDS Naturals

CONSTANTS
  Threads,     \* the ids a user may enter
  NoThread,    \* null
  Loads,       \* activations of loadThread that may overlap
  Refreshes,   \* activations of refreshSummary that may overlap
  PollCap      \* waits of intervalMs that fit in capMs

ASSUME NoThreadAssumption == NoThread \notin Threads
ASSUME PollCapAssumption == PollCap \in Nat

VARIABLES
  currentThreadId,  \* the page's global
  body,       \* whether thread-body is shown, with the messages of ...
  shown,      \*   ... this thread (renderThread)
  panelOf,    \* the thread whose summary, or lack of one, the panel shows;
              \*   NoThread: neither summary-empty nor summary-loaded is shown
  buttons,    \* whether Generate and Refresh are enabled
  hidden,     \* whether the line summary-status is hidden
  load,       \* [Loads -> ...]: each activation of loadThread
  refresh,    \* [Refreshes -> ...]: each activation of refreshSummary
  late        \* history: the last answer for the panel was an error, or had
              \*   been overtaken by the rendering of another thread

screen == <<currentThreadId, body, shown, panelOf>>
vars == <<screen, buttons, hidden, load, refresh, late>>

\* id is the thread asked for; `overtaken` (history) that another has been
\* rendered while its summary was under way.
IdleLoad == [pc |-> "idle", id |-> NoThread, overtaken |-> FALSE]
IdleRefresh == [pc |-> "idle", id |-> NoThread, overtaken |-> FALSE,
                another |-> FALSE, waits |-> 0]

\* From the click to the terminal answer of the poll.
Polling == {"posting", "polling", "waiting"}

Init ==
  /\ currentThreadId = NoThread
  /\ body = FALSE
  /\ shown = NoThread
  /\ panelOf = NoThread
  /\ buttons = TRUE
  /\ hidden = TRUE
  /\ load = [l \in Loads |-> IdleLoad]
  /\ refresh = [r \in Refreshes |-> IdleRefresh]
  /\ late = FALSE

-----------------------------------------------------------------------------
(***************************************************************************)
(* loadSummary: called at the end of a load and of a refresh, it begins by *)
(* hiding the status line (in LoadedThread and Success).                   *)
(***************************************************************************)
\* The answer to GET summary of a chain: 200 or 404 fill the panel, anything
\* else goes to the status line.
SummaryAnswer(chain, filled) ==
  /\ panelOf' = IF filled THEN chain.id ELSE panelOf
  /\ late' = (~filled \/ chain.overtaken)
  /\ UNCHANGED <<currentThreadId, body, shown>>

-----------------------------------------------------------------------------
(***************************************************************************)
(* loadThread.                                                             *)
(***************************************************************************)
ClickLoad(l) ==
  /\ load[l].pc = "idle"
  /\ \E id \in Threads :
       load' = [load EXCEPT ![l] = [IdleLoad EXCEPT !.pc = "thread", !.id = id]]
  /\ UNCHANGED <<screen, buttons, hidden, refresh, late>>

Overtake(chain, pc, id) ==
  IF chain.pc = pc /\ chain.id # id THEN [chain EXCEPT !.overtaken = TRUE] ELSE chain

\* GET thread: the thread is rendered, and loadSummary begins.
LoadedThread(l) ==
  /\ load[l].pc = "thread"
  /\ LET id == load[l].id
     IN /\ currentThreadId' = id
        /\ shown' = id
        /\ load' = [m \in Loads |-> IF m = l THEN [load[l] EXCEPT !.pc = "summary"]
                                   ELSE Overtake(load[m], "summary", id)]
        /\ refresh' = [r \in Refreshes |-> Overtake(refresh[r], "loading", id)]
  /\ body' = TRUE
  /\ hidden' = TRUE
  /\ UNCHANGED <<panelOf, buttons, late>>

\* A thread of another firm, an expired session, no network.
LoadFails(l) ==
  /\ load[l].pc = "thread"
  /\ body' = FALSE
  /\ load' = [load EXCEPT ![l] = IdleLoad]
  /\ UNCHANGED <<currentThreadId, shown, panelOf, buttons, hidden, refresh, late>>

LoadedSummary(l) ==
  /\ load[l].pc = "summary"
  /\ \E filled \in BOOLEAN :
       /\ SummaryAnswer(load[l], filled)
       /\ hidden' = (hidden /\ filled)
  /\ load' = [load EXCEPT ![l] = IdleLoad]
  /\ UNCHANGED <<buttons, refresh>>

-----------------------------------------------------------------------------
(***************************************************************************)
(* refreshSummary and pollTask.                                            *)
(***************************************************************************)
\* Generate is in summary-empty, Refresh in summary-loaded: one of them must
\* be on the screen, and enabled.
ClickRefresh(r) ==
  /\ refresh[r].pc = "idle"
  /\ body /\ panelOf # NoThread /\ buttons
  /\ currentThreadId # NoThread
  /\ buttons' = FALSE
  /\ hidden' = FALSE
  /\ refresh' = [refresh EXCEPT ![r] = [IdleRefresh EXCEPT
                                     !.pc = "posting", !.id = currentThreadId]]
  /\ UNCHANGED <<screen, load, late>>

Accepted_enables(r) ==              \* variant: the buttons come back with the 202
  /\ refresh[r].pc = "posting"
  /\ \E joined \in BOOLEAN :
       refresh' = [refresh EXCEPT ![r].pc = "polling", ![r].another = joined]
  /\ buttons' = TRUE
  /\ UNCHANGED <<screen, hidden, load, late>>

\* The 202; the first poll goes out at once.
Accepted(r) ==
  /\ refresh[r].pc = "posting"
  /\ \E joined \in BOOLEAN :
       refresh' = [refresh EXCEPT ![r].pc = "polling", ![r].another = joined]
  /\ UNCHANGED <<screen, buttons, hidden, load, late>>

Pending_uncapped(r) ==              \* variant: no capMs
  /\ refresh[r].pc = "polling"
  /\ refresh' = [refresh EXCEPT ![r].pc = "waiting"]
  /\ UNCHANGED <<screen, buttons, hidden, load, late>>

Pending_late_cap(r) ==              \* variant: the cap checked a wait too late
  /\ refresh[r].pc = "polling"
  /\ refresh[r].waits <= PollCap
  /\ refresh' = [refresh EXCEPT ![r].pc = "waiting", ![r].waits = @ + 1]
  /\ UNCHANGED <<screen, buttons, hidden, load, late>>

\* The task has not ended, and the cap has not been reached.
Pending(r) ==
  /\ refresh[r].pc = "polling"
  /\ refresh[r].waits < PollCap
  /\ refresh' = [refresh EXCEPT ![r].pc = "waiting", ![r].waits = @ + 1]
  /\ UNCHANGED <<screen, buttons, hidden, load, late>>

\* The interval is over: the next poll goes out.
PollAgain(r) ==
  /\ refresh[r].pc = "waiting"
  /\ refresh' = [refresh EXCEPT ![r].pc = "polling"]
  /\ UNCHANGED <<screen, buttons, hidden, load, late>>

Success_of_click(r) ==              \* variant: reloads the thread of the click
  /\ refresh[r].pc = "polling"
  /\ \E skipped \in BOOLEAN :
       refresh' = [refresh EXCEPT ![r].pc = "loading", ![r].another = @ \/ skipped]
  /\ buttons' = TRUE
  /\ hidden' = TRUE
  /\ UNCHANGED <<screen, load, late>>

\* SUCCESS: the summary of the thread that is current by now is loaded.
Success(r) ==
  /\ refresh[r].pc = "polling"
  /\ \E skipped \in BOOLEAN :
       refresh' = [refresh EXCEPT ![r].pc = "loading", ![r].id = currentThreadId,
                                  ![r].another = @ \/ skipped]
  /\ buttons' = TRUE
  /\ hidden' = TRUE
  /\ UNCHANGED <<screen, load, late>>

\* FAILURE, REVOKED, TIMEOUT or an error of the poll; or the POST failed.
\* The line says so.
Failure(r) ==
  /\ refresh[r].pc \in {"posting", "polling"}
  /\ refresh' = [refresh EXCEPT ![r] = IdleRefresh]
  /\ buttons' = TRUE
  /\ UNCHANGED <<screen, hidden, load, late>>

\* The end of loadSummary, then the rest of onTerminal: it sets the line's
\* text and colour.
Refreshed(r) ==
  /\ refresh[r].pc = "loading"
  /\ \E filled \in BOOLEAN :
       /\ SummaryAnswer(refresh[r], filled)
       /\ hidden' = (hidden /\ filled)
  /\ refresh' = [refresh EXCEPT ![r] = [IdleRefresh EXCEPT !.pc = "timer",
                                                        !.another = refresh[r].another]]
  /\ UNCHANGED <<buttons, load>>

\* setTimeout(..., 3000), whatever the line says by now.
HideLater(r) ==
  /\ refresh[r].pc = "timer"
  /\ hidden' = TRUE
  /\ refresh' = [refresh EXCEPT ![r] = IdleRefresh]
  /\ UNCHANGED <<screen, buttons, load, late>>

-----------------------------------------------------------------------------
Loading(l) == LoadedThread(l) \/ LoadFails(l) \/ LoadedSummary(l)

Refreshing(r) ==
  \/ Accepted(r) \/ Pending(r) \/ PollAgain(r) \/ Success(r) \/ Failure(r)
  \/ Refreshed(r) \/ HideLater(r)

Next ==
  \/ \E l \in Loads : ClickLoad(l) \/ Loading(l)
  \/ \E r \in Refreshes : ClickRefresh(r) \/ Refreshing(r)

Spec == Init /\ [][Next]_vars

\* Every request is answered or fails, and timers fire.  Nobody has to click.
Fairness ==
  /\ \A l \in Loads : WF_vars(Loading(l))
  /\ \A r \in Refreshes : WF_vars(Refreshing(r))

FairSpec == Spec /\ Fairness

-----------------------------------------------------------------------------
(***************************************************************************)
(* Properties.                                                             *)
(***************************************************************************)

\* The type of every variable.
TypeOK ==
  /\ currentThreadId \in Threads \cup {NoThread}
  /\ body \in BOOLEAN
  /\ shown \in Threads \cup {NoThread}
  /\ panelOf \in Threads \cup {NoThread}
  /\ buttons \in BOOLEAN
  /\ hidden \in BOOLEAN
  /\ load \in [Loads ->
       [pc : {"idle", "thread", "summary"}, id : Threads \cup {NoThread},
        overtaken : BOOLEAN]]
  /\ refresh \in [Refreshes ->
       [pc : {"idle", "loading", "timer"} \cup Polling, id : Threads \cup {NoThread},
        overtaken : BOOLEAN, another : BOOLEAN, waits : 0..PollCap]]
  /\ late \in BOOLEAN

\* The buttons are off exactly while a refresh is posted or polled, so a
\* user has at most one poll running, although handlers overlap freely and
\* the end of one refresh may run into the next.
OnePoll ==
  /\ \A q, r \in Refreshes : refresh[q].pc \in Polling /\ refresh[r].pc \in Polling => q = r
  /\ buttons <=> \A r \in Refreshes : refresh[r].pc \notin Polling

\* What a click on Refresh refreshes is the thread the user looks at, in
\* whatever order loads were started and answered.  The panel shows the
\* summary of that thread, or will once an answer under way arrives, unless an
\* answer failed or was overtaken by another load: a refresh that ends after
\* the user has moved on is no reason for a mixture.
PanelBelongsToThread ==
  /\ body => currentThreadId = shown
  /\ body /\ panelOf # shown /\ ~late
       => \/ \E l \in Loads : load[l].pc = "summary" /\ load[l].id = shown
          \/ \E r \in Refreshes : refresh[r].pc = "loading" /\ refresh[r].id = shown

\* The buttons come back after every click, even if the task never ends.
ButtonsComeBack == []<>buttons
==============================================================================
