---------------------------- MODULE SerialRefresh ----------------------------
(***************************************************************************)
(* What the refresh path promises, with no lock, key, queue or clock: the  *)
(* summary of a thread is rewritten by one refresh at a time, and the row  *)
(* it leaves covers every message the row it replaces covered.  The        *)
(* promise is a lease: it may run out under a refresh, and the thread is   *)
(* then open to several, of which the last writer wins, until all of them  *)
(* have ended.                                                             *)
(*                                                                         *)
(* SummaryRefresh implements this (its ImplementsSerialRefresh).           *)
(***************************************************************************)

CONSTANTS
  Threads,    \* the email threads
  Messages    \* what may arrive in a thread

VARIABLES
  stage,      \* [Threads -> Stages]: what the refresh of the thread does
  messages,   \* [Threads -> SUBSET Messages]: the messages of the thread
  summary     \* [Threads -> SUBSET Messages]: those its summary row analysed

vars == <<stage, messages, summary>>

Stages == {"idle", "working", "closing", "open"}

Init ==
  /\ stage = [t \in Threads |-> "idle"]
  /\ messages = [t \in Threads |-> {}]
  /\ summary = [t \in Threads |-> {}]

Arrive(t) ==
  /\ \E m \in Messages \ messages[t] :
       messages' = [messages EXCEPT ![t] = @ \cup {m}]
  /\ UNCHANGED <<stage, summary>>

\* Only an idle thread starts a refresh: this is where "one at a time" is.
Begin(t) ==
  /\ stage[t] = "idle"
  /\ stage' = [stage EXCEPT ![t] = "working"]
  /\ UNCHANGED <<messages, summary>>

\* The new row covers the old one, and only messages the thread has.
Publish(t) ==
  /\ stage[t] = "working"
  /\ \E S \in SUBSET messages[t] :
       /\ S # {}
       /\ summary[t] \subseteq S
       /\ summary' = [summary EXCEPT ![t] = S]
  /\ stage' = [stage EXCEPT ![t] = "closing"]
  /\ UNCHANGED messages

Abort(t) ==
  /\ stage[t] = "working"
  /\ stage' = [stage EXCEPT ![t] = "closing"]
  /\ UNCHANGED <<messages, summary>>

\* The leases of some threads run out, at one instant of the clock.
RunOut(S) ==
  /\ UNCHANGED <<messages, summary>>
  /\ stage' = [t \in Threads |->
                IF t \in S /\ stage[t] # "idle" THEN "open" ELSE stage[t]]

\* The new row is made from messages of the thread, older ones perhaps.
Overwrite(t) ==
  /\ stage[t] = "open"
  /\ \E S \in SUBSET messages[t] : S # {} /\ summary' = [summary EXCEPT ![t] = S]
  /\ UNCHANGED <<stage, messages>>

\* The refresh, or the last of several, gives the thread up, done or killed.
End(t) ==
  /\ stage[t] # "idle"
  /\ stage' = [stage EXCEPT ![t] = "idle"]
  /\ UNCHANGED <<messages, summary>>

Next ==
  \/ \E S \in SUBSET Threads : RunOut(S)
  \/ \E t \in Threads :
       Arrive(t) \/ Begin(t) \/ Publish(t) \/ Abort(t) \/ Overwrite(t) \/ End(t)

Spec == Init /\ [][Next]_vars
==============================================================================
