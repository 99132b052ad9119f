------------------------------ MODULE LogContext ------------------------------
(***************************************************************************)
(* Whose identifiers a log record carries: RequestIdMiddleware, the        *)
(* request_baggage block of the refresh view, the prerun and postrun       *)
(* handlers of Celery, and ContextFilter, which stamps each record.        *)
(*                                                                         *)
(* Threads of the web process and of the worker (--pool=threads) serve one *)
(* request or task after another, and nothing cleans them but this code.   *)
(* The identifiers live in context variables of the thread and, where the  *)
(* OpenTelemetry package is installed, in its baggage.  With telemetry on, *)
(* the Django instrumentation takes the baggage that the client sent as a  *)
(* header of its request into the thread, and the Celery instrumentation   *)
(* carries the thread's to the worker in the headers of the task.          *)
(***************************************************************************)
CONSTANTS
  WebThreads, Workers,   \* OS threads of the two processes
  Ids,                   \* ids of requests: X-Request-ID headers and uuid4s
  Tasks,                 \* ids of tasks
  Users, Firms,
  FirmOf,                \* [Users -> Firms or None]: user.firm_id
  Headers,               \* what clients put into their baggage headers
  None                   \* no value, "-" in a record

ASSUME NoneAssumption ==
  None \notin WebThreads \cup Workers \cup Ids \cup Tasks \cup Users \cup Firms
ASSUME FirmAssumption == FirmOf \in [Users -> Firms \cup {None}]
ASSUME ProcessAssumption == WebThreads \cap Workers = {}

VARIABLES
  packages,   \* whether `import opentelemetry` works
  enabled,    \* whether OTEL_ENABLED is set for the web process and the worker
  eager,      \* CELERY_TASK_ALWAYS_EAGER (the test settings)
  ctx,        \* [threads -> Context]: request_id_var, user_id_var, firm_id_var
  bag,        \* [threads -> Context]: the baggage attached in the thread
  web,        \* [WebThreads -> ...]: the request served and how far it is
  queue,      \* the task messages in the broker
  job,        \* [threads -> Tasks or None]: the task the thread runs
  stash,      \* [Tasks -> Tokens]: _token_stash
  trigger     \* [Tasks -> Requests or NoRequest]: who queued the task (history)

settings == <<packages, enabled, eager>>
vars == <<settings, ctx, bag, web, queue, job, stash, trigger>>

OsThreads == WebThreads \cup Workers
Context == [id : Ids \cup Tasks \cup {None}, user : Users \cup {None},
            firm : Firms \cup {None}]
Empty == [id |-> None, user |-> None, firm |-> None]

ASSUME HeaderAssumption == Headers \subseteq Context /\ Empty \in Headers

\* request.id, request.user (None for AnonymousUser) and the baggage header.
Requests == [id : Ids, user : Users \cup {None}, header : Headers]
NoRequest == [id |-> None, user |-> None, header |-> Empty]
Identity(r) == [id |-> r.id, user |-> r.user,
                firm |-> IF r.user = None THEN None ELSE FirmOf[r.user]]

\* What is set, over what is there already.
Overlay(set, there) ==
  [f \in DOMAIN Empty |-> IF set[f] = None THEN there[f] ELSE set[f]]

\* A thread between requests; `was`, `outer` and `inner` are what the tokens of
\* the middleware, of the instrumentation and of request_baggage restore.
Idle == [pc |-> "idle", req |-> NoRequest, task |-> None, was |-> Empty,
         outer |-> Empty, inner |-> Empty]

\* A token: the thread that may reset with it, and the value it restores.
Tokens == [by : OsThreads \cup {None}, was : Ids \cup Tasks \cup {None}]
NoToken == [by |-> None, was |-> None]

\* setup_telemetry gets as far as instrumenting Django and Celery.
setup_telemetry(process) == packages /\ enabled[process]

Init ==
  /\ packages \in BOOLEAN
  /\ enabled \in [{"web", "worker"} -> BOOLEAN]
  /\ eager \in BOOLEAN
  /\ ctx = [t \in OsThreads |-> Empty]
  /\ bag = [t \in OsThreads |-> Empty]
  /\ web = [w \in WebThreads |-> Idle]
  /\ queue = {}
  /\ job = [t \in OsThreads |-> None]
  /\ stash = [k \in Tasks |-> NoToken]
  /\ trigger = [k \in Tasks |-> NoRequest]

-----------------------------------------------------------------------------
\* ContextFilter.filter: what a record written in thread t now says.
Record(t) ==
  [f \in DOMAIN Empty |->
     IF ctx[t][f] = None /\ packages THEN bag[t][f] ELSE ctx[t][f]]

\* The handlers of register_celery_signal_handlers.  No task is published
\* with a request_id header, so the id of the task takes its place.
_on_prerun(t, k) ==
  /\ ctx' = [ctx EXCEPT ![t].id = k]
  /\ stash' = [stash EXCEPT ![k] = [by |-> t, was |-> ctx[t].id]]
  /\ job' = [job EXCEPT ![t] = k]

_on_postrun_keeps(t, k) ==          \* variant: _token_stash.get for .pop
  /\ ctx' = [ctx EXCEPT ![t].id = stash[k].was]
  /\ job' = [job EXCEPT ![t] = None]
  /\ UNCHANGED stash

_on_postrun_clears(t, k) ==         \* variant: set(None) for reset(token)
  /\ ctx' = [ctx EXCEPT ![t].id = None]
  /\ stash' = [stash EXCEPT ![k] = NoToken]
  /\ job' = [job EXCEPT ![t] = None]

_on_postrun(t, k) ==
  /\ ctx' = [ctx EXCEPT ![t].id = stash[k].was]
  /\ stash' = [stash EXCEPT ![k] = NoToken]
  /\ job' = [job EXCEPT ![t] = None]

-----------------------------------------------------------------------------
(***************************************************************************)
(* The web process.                                                        *)
(***************************************************************************)
\* The instrumentation, outermost, and RequestIdMiddleware up to get_response.
\* A client chooses the id if it likes, and may repeat one.
Begin(w) ==
  /\ web[w].pc = "idle"
  /\ \E r \in Requests :
       /\ web' = [web EXCEPT ![w] = [Idle EXCEPT !.pc = "view", !.req = r,
                                                 !.was = ctx[w], !.outer = bag[w]]]
       /\ ctx' = [ctx EXCEPT ![w].id = r.id]
       /\ bag' = IF setup_telemetry("web") THEN [bag EXCEPT ![w] = r.header] ELSE bag
  /\ UNCHANGED <<settings, queue, job, stash, trigger>>

Enter(w, set) ==
  /\ web[w].pc = "view"
  /\ web[w].req.user # None
  /\ \E k \in Tasks :
       /\ trigger[k] = NoRequest
       /\ trigger' = [trigger EXCEPT ![k] = web[w].req]
       /\ web' = [web EXCEPT ![w].pc = "attached", ![w].task = k, ![w].inner = bag[w]]
  /\ bag' = IF packages THEN [bag EXCEPT ![w] = Overlay(set, bag[w])] ELSE bag
  /\ UNCHANGED <<settings, ctx, queue, job, stash>>

Attach_no_firm(w) ==                \* variant: firm_id forgotten
  Enter(w, [Identity(web[w].req) EXCEPT !.firm = None])

\* The refresh view has drawn a task id and enters request_baggage, which sets
\* what the request has over the baggage that is already there.
Attach(w) == Enter(w, Identity(web[w].req))

\* apply_async: the message takes the baggage with it, or the broker refuses.
Publish(w) ==
  /\ web[w].pc = "attached"
  /\ ~eager
  /\ web' = [web EXCEPT ![w].pc = "published"]
  /\ \/ queue' = queue \cup
          {[task |-> web[w].task,
            baggage |-> IF setup_telemetry("web") THEN bag[w] ELSE Empty]}
     \/ UNCHANGED queue
  /\ UNCHANGED <<settings, ctx, bag, job, stash, trigger>>

\* apply_async runs the task here, inside the request.
RunEagerly(w) ==
  /\ web[w].pc = "attached"
  /\ eager
  /\ _on_prerun(w, web[w].task)
  /\ web' = [web EXCEPT ![w].pc = "running"]
  /\ UNCHANGED <<settings, bag, queue, trigger>>

RanEagerly(w) ==
  /\ web[w].pc = "running"
  /\ _on_postrun(w, web[w].task)
  /\ web' = [web EXCEPT ![w].pc = "published"]
  /\ UNCHANGED <<settings, bag, queue, trigger>>

\* The end of the with-block, by return or exception.
Detach(w) ==
  /\ web[w].pc = "published"
  /\ bag' = [bag EXCEPT ![w] = web[w].inner]
  /\ web' = [web EXCEPT ![w].pc = "answered"]
  /\ UNCHANGED <<settings, ctx, queue, job, stash, trigger>>

\* A view has answered, or exception_handler has: the middleware learns who
\* the user was, for the one record it writes itself.
Respond(w) ==
  /\ web[w].pc \in {"view", "answered"}
  /\ ctx' = [ctx EXCEPT ![w] = Overlay([Identity(web[w].req) EXCEPT !.id = None], @)]
  /\ web' = [web EXCEPT ![w].pc = "logging"]
  /\ UNCHANGED <<settings, bag, queue, job, stash, trigger>>

End_id_only(w) ==                   \* variant: user_id_var is not reset
  /\ web[w].pc = "logging"
  /\ ctx' = [ctx EXCEPT ![w].id = web[w].was.id]
  /\ bag' = [bag EXCEPT ![w] = web[w].outer]
  /\ web' = [web EXCEPT ![w] = Idle]
  /\ UNCHANGED <<settings, queue, job, stash, trigger>>

\* The `finally` of the middleware, and the instrumentation's detach after it.
End(w) ==
  /\ web[w].pc = "logging"
  /\ ctx' = [ctx EXCEPT ![w] = web[w].was]
  /\ bag' = [bag EXCEPT ![w] = web[w].outer]
  /\ web' = [web EXCEPT ![w] = Idle]
  /\ UNCHANGED <<settings, queue, job, stash, trigger>>

-----------------------------------------------------------------------------
(***************************************************************************)
(* The worker, and the death of a process with all its threads.            *)
(***************************************************************************)
Start(x) ==
  /\ job[x] = None
  /\ \E m \in queue :
       /\ _on_prerun(x, m.task)
       /\ bag' = IF setup_telemetry("worker") THEN [bag EXCEPT ![x] = m.baggage]
                                              ELSE bag
       /\ queue' = queue \ {m}
  /\ UNCHANGED <<settings, web, trigger>>

Finish(x) ==
  /\ job[x] # None
  /\ _on_postrun(x, job[x])
  /\ bag' = [bag EXCEPT ![x] = Empty]
  /\ UNCHANGED <<settings, web, queue, trigger>>

Restart(process) ==
  /\ ctx' = [t \in OsThreads |-> IF t \in process THEN Empty ELSE ctx[t]]
  /\ bag' = [t \in OsThreads |-> IF t \in process THEN Empty ELSE bag[t]]
  /\ job' = [t \in OsThreads |-> IF t \in process THEN None ELSE job[t]]
  /\ web' = [w \in WebThreads |-> IF w \in process THEN Idle ELSE web[w]]
  /\ stash' = [k \in Tasks |-> IF stash[k].by \in process THEN NoToken ELSE stash[k]]
  /\ UNCHANGED <<settings, queue, trigger>>

Next ==
  \/ \E w \in WebThreads :
       \/ Begin(w) \/ Attach(w) \/ Publish(w) \/ RunEagerly(w) \/ RanEagerly(w)
       \/ Detach(w) \/ Respond(w) \/ End(w)
  \/ \E x \in Workers : Start(x) \/ Finish(x)
  \/ Restart(WebThreads) \/ Restart(Workers)

Spec == Init /\ [][Next]_vars

-----------------------------------------------------------------------------
(***************************************************************************)
(* Properties.                                                             *)
(***************************************************************************)

WebStates ==
  [pc : {"idle", "view", "attached", "running", "published", "answered", "logging"},
   req : Requests \cup {NoRequest}, task : Tasks \cup {None},
   was : Context, outer : Context, inner : Context]

\* A token is kept exactly while its task runs.
TokenKept(k) == stash[k] # NoToken <=> \E t \in OsThreads : job[t] = k

\* The type of every variable, and no token too many or too few.
TypeOK ==
  /\ packages \in BOOLEAN /\ enabled \in [{"web", "worker"} -> BOOLEAN]
  /\ eager \in BOOLEAN
  /\ ctx \in [OsThreads -> Context] /\ bag \in [OsThreads -> Context]
  /\ web \in [WebThreads -> WebStates]
  /\ queue \subseteq [task : Tasks, baggage : Context]
  /\ job \in [OsThreads -> Tasks \cup {None}]
  /\ stash \in [Tasks -> Tokens]
  /\ \A k \in Tasks : TokenKept(k)
  /\ trigger \in [Tasks -> Requests \cup {NoRequest}]

\* What the client's own baggage header brought into the request.
Claimed(r) == IF setup_telemetry("web") THEN r.header ELSE Empty

\* Records a request writes outside of a task, and the request_id of its error
\* body, carry its own id, an eager task run in between notwithstanding.  They
\* name its own user and firm, or those its own baggage header names, and never
\* those of another request; inside request_baggage, and in the last record, the
\* header speaks only for what the user has not got.
RequestRecords ==
  \A w \in WebThreads :
    web[w].pc \notin {"idle", "running"}
      => LET own == Identity(web[w].req)
             claimed == Claimed(web[w].req)
         IN /\ Record(w).id = own.id /\ ctx[w].id = own.id
            /\ Record(w).user \in {own.user, claimed.user}
            /\ Record(w).firm \in {own.firm, claimed.firm}
            /\ (web[w].pc = "logging" \/ (web[w].pc \in {"attached", "published"} /\ packages))
                 => Record(w) = Overlay(own, claimed)

\* Records of a task never name another user than the one whose request queued
\* it, nor another firm, except that a user without one may send one as baggage;
\* they name both whenever the baggage travels, and are found under the id of
\* the task, whichever threads run beside it.
TaskRecords ==
  \A t \in OsThreads :
    job[t] # None
      => LET r == trigger[job[t]]
             carried == IF t \in WebThreads THEN packages
                        ELSE setup_telemetry("web") /\ setup_telemetry("worker")
         IN /\ Record(t).id = job[t]
            /\ Record(t).user = IF carried THEN r.user ELSE None
            /\ Record(t).firm = IF carried THEN Overlay(Identity(r), Claimed(r)).firm
                                           ELSE None

\* A thread that serves nobody remembers nobody.
CleanThreads ==
  \A t \in OsThreads :
    (IF t \in WebThreads THEN web[t].pc = "idle" ELSE job[t] = None)
      => ctx[t] = Empty /\ bag[t] = Empty

-----------------------------------------------------------------------------
\* "So worker log lines carry the same identifiers as the request that
\* triggered them" (README.md:212), with OpenTelemetry on in both processes.
SameIdentifiers ==
  \A x \in Workers :
    job[x] # None /\ setup_telemetry("web") /\ setup_telemetry("worker")
      => Record(x) = Identity(trigger[job[x]])
==============================================================================
