---------------------------- MODULE LLMClient_proofs ----------------------------
(***************************************************************************)
(* Proofs about LLMClient, for any numbers of attempts and repeats: how    *)
(* many requests a call costs, why one is given up, and that junk in an    *)
(* answer never makes it fail.                                             *)
(***************************************************************************)
EXTENDS LLMClient, TLAPS

-----------------------------------------------------------------------------
(***************************************************************************)
(* The inductive invariant: where the call is, why it got there, and how   *)
(* many requests that took, exactly.                                       *)
(***************************************************************************)
Phases == {"requesting", "resending", "failing", "parsing", "returned", "raised"}

CTypeOK ==
  /\ pc \in Phases
  /\ attempt \in 1..LLM_MAX_RETRIES
  /\ resends \in 0..SDK_RETRIES
  /\ error \in Errors \cup {"none"}
  /\ reply = NoReply \/ reply \in Replies
  /\ requests \in Nat

\* The SDK repeats while it may; what tenacity sees, it has not repeated enough.
Reasons ==
  /\ pc = "resending" => resends < SDK_RETRIES
  /\ pc = "failing" => error \in Errors /\ (error # "fatal" => resends = SDK_RETRIES)
  /\ pc \in {"requesting", "resending", "failing"} => reply = NoReply
  /\ pc = "parsing" => error = "none"
  /\ RaisedForAReason
  /\ JunkNeverFails

\* The requests of the attempts before this one, those of this attempt that are
\* repeated, and the last one unless it is still to be sent.
Share == SDK_RETRIES + 1
Counted ==
  requests = (attempt - 1) * Share + resends + IF pc = "requesting" THEN 0 ELSE 1

CInv == CTypeOK /\ Reasons /\ Counted

-----------------------------------------------------------------------------
\* The SDK's share of n attempts, and of one more; a product of two unknowns is
\* reasoned about only here.
LEMMA Shares ==
  /\ Share \in Nat
  /\ \A n \in Nat : n * Share \in Nat /\ (n + 1) * Share = n * Share + Share
  /\ \A n \in 1..LLM_MAX_RETRIES : n * Share <= LLM_MAX_RETRIES * Share
BY RetryAssumption DEF Share

LEMMA SharesBefore ==
  ASSUME CTypeOK
  PROVE  /\ attempt \in Nat /\ attempt - 1 \in Nat /\ resends \in 0..SDK_RETRIES
         /\ (attempt - 1) * Share \in Nat /\ attempt * Share = (attempt - 1) * Share + Share
<1>1. attempt \in Nat /\ attempt - 1 \in Nat /\ attempt = (attempt - 1) + 1
  BY RetryAssumption DEF CTypeOK
<1> QED
  BY <1>1, Shares DEF CTypeOK

\* Sanitising leaves each list what it is, without the junk.
LEMMA ListShape ==
  ASSUME NEW kinds, NEW l \in NoList \cup Entries(kinds)
  PROVE  /\ l = [kind |-> l.kind, entries |-> l.entries] /\ l.entries \subseteq kinds
         /\ [l EXCEPT !.entries = @ \ {"junk"}] = [kind |-> l.kind, entries |-> l.entries \ {"junk"}]
         /\ [l EXCEPT !.entries = @ \ {"junk"}] \in NoList \cup Entries(kinds)
<1>1. CASE l \in NoList
  BY <1>1 DEF NoList
<1>2. CASE l \in Entries(kinds)
  <2>1. PICK S \in SUBSET kinds : l = [kind |-> "list", entries |-> S]
    BY <1>2 DEF Entries
  <2>2. [l EXCEPT !.entries = @ \ {"junk"}] = [kind |-> "list", entries |-> S \ {"junk"}]
    BY <2>1
  <2>3. [kind |-> "list", entries |-> S \ {"junk"}] \in Entries(kinds)
    BY DEF Entries
  <2> QED
    BY <2>1, <2>2, <2>3
<1> QED
  BY <1>1, <1>2

LEMMA Sanitised ==
  ASSUME NEW data \in Objects, ~model_validate(_sanitize_payload(data))
  PROVE  \E f \in Fields : data[f].kind = "not_list" \/ "bad" \in data[f].entries
<1>1. PICK f \in Fields :
        \/ _sanitize_payload(data)[f].kind = "not_list"
        \/ ~(_sanitize_payload(data)[f].entries \subseteq {"good"})
  BY DEF model_validate
<1>2. data[f] \in NoList \cup Entries({"good", "junk", "bad"})
  <2>1. Entries({"good", "junk"}) \subseteq Entries({"good", "junk", "bad"})
    BY DEF Entries
  <2> QED
    BY <2>1 DEF Objects, Fields
<1>3. data[f].entries \subseteq {"good", "junk", "bad"}
  BY <1>2, ListShape
<1>4. /\ _sanitize_payload(data)[f].kind = data[f].kind
      /\ _sanitize_payload(data)[f].entries = data[f].entries \ {"junk"}
  <2>1. _sanitize_payload(data)[f] = [data[f] EXCEPT !.entries = @ \ {"junk"}]
    BY DEF _sanitize_payload
  <2>2. [data[f] EXCEPT !.entries = @ \ {"junk"}] = [kind |-> data[f].kind, entries |-> data[f].entries \ {"junk"}]
    BY <1>2, ListShape
  <2> QED
    BY <2>1, <2>2
<1> QED
  BY <1>1, <1>3, <1>4

LEMMA InitCInv == Init => CInv
<1> SUFFICES ASSUME Init PROVE CInv
  OBVIOUS
<1>1. CTypeOK
  BY RetryAssumption DEF Init, CTypeOK, Phases
<1>2. Reasons
  BY DEF Init, Reasons, RaisedForAReason, JunkNeverFails
<1>3. Counted
  BY Shares DEF Init, Counted
<1> QED
  BY <1>1, <1>2, <1>3 DEF CInv

LEMMA AnsweredCInv == ASSUME CInv, Answered PROVE CInv'
<1> USE DEF CInv, Answered
<1>1. CTypeOK'
  BY DEF CTypeOK, Phases
<1>2. Reasons'
  BY DEF Reasons, RaisedForAReason, JunkNeverFails
<1>3. Counted'
  BY SharesBefore DEF CTypeOK, Counted
<1> QED
  BY <1>1, <1>2, <1>3

LEMMA FailedCInv == ASSUME CInv, Failed PROVE CInv'
<1> USE DEF CInv, Failed
<1>1. CTypeOK'
  BY DEF CTypeOK, Phases
<1>2. Reasons'
  BY RetryAssumption DEF CTypeOK, Reasons, RaisedForAReason, JunkNeverFails
<1>3. Counted'
  BY SharesBefore DEF CTypeOK, Counted
<1> QED
  BY <1>1, <1>2, <1>3

LEMMA ResendCInv == ASSUME CInv, Resend PROVE CInv'
<1> USE DEF CInv, Resend
<1>1. CTypeOK'
  BY RetryAssumption DEF CTypeOK, Phases, Reasons
<1>2. Reasons'
  BY DEF Reasons, RaisedForAReason, JunkNeverFails
<1>3. Counted'
  BY SharesBefore DEF CTypeOK, Counted
<1> QED
  BY <1>1, <1>2, <1>3

LEMMA RetryCInv == ASSUME CInv, Retry PROVE CInv'
<1> USE DEF CInv, Retry
<1>1. CASE error \in Transient /\ attempt < LLM_MAX_RETRIES
  <2>1. Again
    BY <1>1
  <2>2. CTypeOK'
    BY <1>1, <2>1, RetryAssumption DEF Again, CTypeOK, Phases
  <2>3. Reasons'
    BY <2>1 DEF Again, Reasons, RaisedForAReason, JunkNeverFails
  <2>4. Counted'
    <3>1. resends = SDK_RETRIES
      BY <1>1 DEF Reasons, Transient
    <3>2. requests = (attempt - 1) * Share + SDK_RETRIES + 1
      BY <3>1 DEF Counted
    <3>3. requests = attempt * Share
      BY <3>2, SharesBefore, RetryAssumption DEF Share
    <3> QED
      BY <2>1, <3>3, SharesBefore, Shares DEF Again, Counted
  <2> QED
    BY <2>2, <2>3, <2>4
<1>2. CASE ~(error \in Transient /\ attempt < LLM_MAX_RETRIES)
  <2>1. GiveUp
    BY <1>2
  <2>2. CTypeOK'
    BY <2>1 DEF GiveUp, CTypeOK, Phases
  <2>3. Reasons'
    BY <1>2, <2>1, RetryAssumption
       DEF GiveUp, CTypeOK, Reasons, RaisedForAReason, JunkNeverFails, NoReply, Reply, Transient
  <2>4. Counted'
    BY <2>1 DEF GiveUp, Counted
  <2> QED
    BY <2>2, <2>3, <2>4
<1> QED
  BY <1>1, <1>2

LEMMA ParseCInv == ASSUME CInv, Parse PROVE CInv'
<1> USE DEF CInv, Parse
<1>1. reply = NoReply \/ reply \in Replies
  BY DEF CTypeOK
<1>2. ASSUME reply.form = "object" PROVE reply.data \in Objects
  BY <1>1, <1>2 DEF NoReply, Replies, Reply
<1>3. CTypeOK'
  <2>1. ASSUME reply.form = "object" PROVE Reply("object", _sanitize_payload(reply.data)) \in Replies
    <3> DEFINE data == reply.data
               clean == _sanitize_payload(data)
    <3>1. data \in Objects
      BY <1>2, <2>1
    <3>2. ASSUME NEW f \in Fields, NEW kinds, data[f] \in NoList \cup Entries(kinds)
          PROVE  clean[f] \in NoList \cup Entries(kinds)
      <4>1. clean[f] = [data[f] EXCEPT !.entries = @ \ {"junk"}]
        BY DEF _sanitize_payload
      <4>2. [data[f] EXCEPT !.entries = @ \ {"junk"}] \in NoList \cup Entries(kinds)
        BY <3>2, ListShape
      <4> QED
        BY <4>1, <4>2
    <3>3. clean \in Objects
      BY <3>1, <3>2 DEF Objects, Fields, _sanitize_payload
    <3> QED
      BY <3>3 DEF Replies
  <2> QED
    BY <2>1 DEF CTypeOK, Phases
<1>4. Reasons'
  BY <1>2, Sanitised DEF Reasons, RaisedForAReason, JunkNeverFails
<1>5. Counted'
  BY DEF Counted
<1> QED
  BY <1>3, <1>4, <1>5

LEMMA NextCInv == CInv /\ [Next]_vars => CInv'
<1> SUFFICES ASSUME CInv, [Next]_vars PROVE CInv'
  OBVIOUS
<1>1. CASE Ended \/ UNCHANGED vars
  BY <1>1 DEF Ended, vars, CInv, CTypeOK, Reasons, RaisedForAReason, JunkNeverFails, Counted
<1> QED
  BY <1>1, AnsweredCInv, FailedCInv, ResendCInv, RetryCInv, ParseCInv DEF Next

\* The inductive invariant holds in every reachable state.
THEOREM CallInvariant == Spec => []CInv
BY InitCInv, NextCInv, PTL DEF Spec

\* LLMClient._call: tenacity and the SDK use up their repeats before an error
\* that may pass is raised, and a call that was answered raises no such error.
THEOREM NotGivenUpEarly == Spec => []RaisedForAReason
<1>1. CInv => RaisedForAReason
  BY DEF CInv, Reasons
<1> QED
  BY <1>1, CallInvariant, PTL

\* LLMClient._sanitize_payload: an answer that fails has a fault other than junk.
THEOREM JunkIsDiscarded == Spec => []JunkNeverFails
<1>1. CInv => JunkNeverFails
  BY DEF CInv, Reasons
<1> QED
  BY <1>1, CallInvariant, PTL

\* LLMClient._call: how many requests a call costs, for any numbers of attempts
\* and repeats, and how many a call that is given up has cost.
THEOREM RequestsAreBounded == Spec => []RequestBudget
<1>1. ASSUME CInv PROVE RequestBudget
  <2>1. CTypeOK /\ Reasons /\ Counted
    BY <1>1 DEF CInv
  <2>2. /\ requests <= (attempt - 1) * Share + SDK_RETRIES + 1
        /\ resends = SDK_RETRIES /\ pc = "raised"
             => requests = (attempt - 1) * Share + SDK_RETRIES + 1
    BY <2>1, SharesBefore, RetryAssumption DEF CTypeOK, Counted
  <2>3. /\ requests <= attempt * Share
        /\ resends = SDK_RETRIES /\ pc = "raised" => requests = attempt * Share
    BY <2>1, <2>2, SharesBefore, RetryAssumption DEF Share
  <2>4. attempt \in 1..LLM_MAX_RETRIES
    BY <2>1 DEF CTypeOK
  <2>5. requests <= LLM_MAX_RETRIES * Share
    <3>1. /\ attempt * Share <= LLM_MAX_RETRIES * Share
          /\ attempt * Share \in Nat /\ LLM_MAX_RETRIES * Share \in Nat
      BY <2>4, Shares, RetryAssumption
    <3> QED
      BY <2>1, <2>3, <3>1 DEF CTypeOK
  <2>6. ASSUME pc = "raised", error \in Transient PROVE requests = LLM_MAX_RETRIES * Share
    BY <2>1, <2>3, <2>6 DEF Reasons, RaisedForAReason, Transient
  <2>7. ASSUME pc = "raised", error = "server"
        PROVE  \E n \in 1..LLM_MAX_RETRIES : requests = n * Share
    BY <2>1, <2>3, <2>4, <2>7 DEF Reasons, RaisedForAReason
  <2> QED
    BY <2>5, <2>6, <2>7 DEF RequestBudget, Share
<1> QED
  BY <1>1, CallInvariant, PTL
==============================================================================
