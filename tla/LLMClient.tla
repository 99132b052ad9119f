------------------------------- MODULE LLMClient -------------------------------
(***************************************************************************)
(* One call of LLMClient.summarize: the request, repeated by the openai    *)
(* SDK and again around it by tenacity, then the parsing, sanitising and   *)
(* validation of what the model said.  Requests are counted and not timed: *)
(* the time-out the client is given limits each phase of a request (the    *)
(* connection, each read), the SDK sleeps as long as a Retry-After asks,   *)
(* and so nothing in the code bounds the seconds that a call takes.        *)
(***************************************************************************)
EXTENDS Naturals

CONSTANTS
  LLM_MAX_RETRIES,   \* attempts tenacity makes
  SDK_RETRIES        \* repeats the SDK makes of one attempt; LLMClient sets
                     \*   none, so the SDK's own default of 2 is in force

ASSUME RetryAssumption == LLM_MAX_RETRIES \in Nat \ {0} /\ SDK_RETRIES \in Nat

VARIABLES
  pc,        \* requesting, resending, failing, parsing, returned, raised
  attempt,   \* tenacity's attempt number
  resends,   \* SDK repeats within the attempt
  error,     \* the exception of the last request, "none" if it was answered
  reply,     \* what the model said
  requests   \* requests that have been answered or have failed

vars == <<pc, attempt, resends, error, reply, requests>>

(***************************************************************************)
(* A reply that is a JSON object gives each list of the schema as nothing, *)
(* as something that is no list, or as a list with these kinds of entries: *)
(* "good" fits the schema; "junk" has no usable name, description or text; *)
(* "bad" has one, but breaks an optional field of the schema.  A response  *)
(* without choices, text that is no JSON and JSON that is no object are    *)
(* the other forms, and have no lists.                                     *)
(***************************************************************************)
Entries(kinds) == {[kind |-> "list", entries |-> S] : S \in SUBSET kinds}
NoList == {[kind |-> "missing", entries |-> {}], [kind |-> "not_list", entries |-> {}]}
Objects == [actors : NoList \cup Entries({"good", "junk", "bad"}),
            action_items : NoList \cup Entries({"good", "junk", "bad"}),
            conclusions : NoList \cup Entries({"good", "junk"})]
Fields == {"actors", "action_items", "conclusions"}
Blank == [f \in Fields |-> [kind |-> "missing", entries |-> {}]]
Reply(form, data) == [form |-> form, data |-> data]
NoReply == Reply("none", Blank)
Replies == {Reply("object", o) : o \in Objects}
             \cup {Reply(form, Blank) : form \in {"no_choices", "not_json", "not_object"}}

Transient == {"timeout", "connection", "rate_limit"}
Errors == Transient \cup {"server", "fatal"}

Init ==
  /\ pc = "requesting"
  /\ attempt = 1
  /\ resends = 0
  /\ error = "none"
  /\ reply = NoReply
  /\ requests = 0

-----------------------------------------------------------------------------
(***************************************************************************)
(* One request of chat.completions.create.  The SDK repeats what it calls  *)
(* retryable, server errors included, before tenacity sees an exception.   *)
(***************************************************************************)
Answered ==
  /\ pc = "requesting"
  /\ requests' = requests + 1
  /\ reply' \in Replies
  /\ error' = "none"
  /\ pc' = "parsing"
  /\ UNCHANGED <<attempt, resends>>

Failed ==
  /\ pc = "requesting"
  /\ requests' = requests + 1
  /\ error' \in Errors
  /\ pc' = IF error' # "fatal" /\ resends < SDK_RETRIES
             THEN "resending" ELSE "failing"
  /\ UNCHANGED <<attempt, resends, reply>>

Resend ==
  /\ pc = "resending"
  /\ resends' = resends + 1
  /\ pc' = "requesting"
  /\ UNCHANGED <<attempt, error, reply, requests>>

Again ==
  /\ attempt' = attempt + 1
  /\ resends' = 0
  /\ pc' = "requesting"
  /\ UNCHANGED <<error, reply, requests>>

GiveUp ==
  /\ pc' = "raised"
  /\ UNCHANGED <<attempt, resends, error, reply, requests>>

Retry_off_by_one ==                 \* variant: counts retries, not attempts
  /\ pc = "failing"
  /\ IF error \in Transient /\ attempt + 1 < LLM_MAX_RETRIES THEN Again ELSE GiveUp

Retry_once_more ==                  \* variant: retries come on top of the attempt
  /\ pc = "failing"
  /\ IF error \in Transient /\ attempt <= LLM_MAX_RETRIES THEN Again ELSE GiveUp

Retry_for_ever ==                   \* variant: no stop_after_attempt (the last
  /\ pc = "failing"                 \*   attempt is counted only once)
  /\ CASE error \notin Transient -> GiveUp
       [] error \in Transient /\ attempt < LLM_MAX_RETRIES -> Again
       [] OTHER -> /\ resends' = 0
                   /\ requests' = (attempt - 1) * (SDK_RETRIES + 1)
                   /\ pc' = "requesting"
                   /\ UNCHANGED <<attempt, error, reply>>

\* tenacity: another attempt after a transient error, or reraise.
Retry ==
  /\ pc = "failing"
  /\ IF error \in Transient /\ attempt < LLM_MAX_RETRIES THEN Again ELSE GiveUp

-----------------------------------------------------------------------------
sanitize_actors_only(data) ==       \* variant: the other lists forgotten
  [data EXCEPT !.actors.entries = @ \ {"junk"}]

\* Junk entries go; what is not a list stays as it is.
_sanitize_payload(data) ==
  [f \in Fields |-> [data[f] EXCEPT !.entries = @ \ {"junk"}]]

\* SummaryPayload.model_validate: absent lists default to empty ones.
model_validate(data) ==
  \A f \in Fields : data[f].kind # "not_list" /\ data[f].entries \subseteq {"good"}

\* What is no answer in the expected form raises, outside the retried errors.
Parse ==
  /\ pc = "parsing"
  /\ IF reply.form = "object" /\ model_validate(_sanitize_payload(reply.data))
       THEN reply' = Reply("object", _sanitize_payload(reply.data)) /\ pc' = "returned"
       ELSE UNCHANGED reply /\ pc' = "raised"
  /\ UNCHANGED <<attempt, resends, error, requests>>

Ended == pc \in {"returned", "raised"} /\ UNCHANGED vars

Next == Answered \/ Failed \/ Resend \/ Retry \/ Parse \/ Ended

Spec == Init /\ [][Next]_vars

\* The worker keeps running, and a request ends: a server that falls silent is
\* given up after LLM_TIMEOUT_SEC, one that keeps sending finishes some time.
FairSpec == Spec /\ WF_vars(Next)

-----------------------------------------------------------------------------
(***************************************************************************)
(* Properties.                                                             *)
(***************************************************************************)

\* The model is not given up early, nor after a later success: an exception
\* of the provider is raised only when tenacity (for an error that may pass)
\* or the SDK (for a server error) has used up its repeats.
RaisedForAReason ==
  pc = "raised" /\ error # "none"
    => /\ error \in Transient => attempt = LLM_MAX_RETRIES /\ resends = SDK_RETRIES
       /\ error = "server" => resends = SDK_RETRIES
       /\ reply = NoReply

\* "We just discard junk rather than fail the whole task"
\* (llm_client.py:38): an answer that is only sprinkled with junk entries
\* is never the reason for failing.
JunkNeverFails ==
  pc = "raised" /\ reply.form = "object"
    => \E f \in Fields :
         reply.data[f].kind = "not_list" \/ "bad" \in reply.data[f].entries

\* Every call ends, with a payload or an exception, and the `finally` of the
\* task is reached.
CallEnds == <>(pc \in {"returned", "raised"})

\* The SDK's repeats and tenacity's attempts multiply, and nothing else adds to
\* them.  A call costs at most that many requests; one that ends in an error that
\* may pass has used every one of them, one that ends in a server error has used
\* up the SDK's share of each attempt it made.  With the settings of base.py that
\* is nine requests, all under a lock that lives LOCK_TTL.
RequestBudget ==
  LET share == SDK_RETRIES + 1
  IN /\ requests <= LLM_MAX_RETRIES * share
     /\ pc = "raised" /\ error \in Transient => requests = LLM_MAX_RETRIES * share
     /\ pc = "raised" /\ error = "server"
          => \E n \in 1..LLM_MAX_RETRIES : requests = n * share
==============================================================================
