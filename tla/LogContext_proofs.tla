--------------------------- MODULE LogContext_proofs ---------------------------
(***************************************************************************)
(* Proofs about LogContext: whatever the numbers of threads, requests and  *)
(* tasks, and wherever processes die, no record names anybody but the user *)
(* it is about, except as that user's own client asked for.                *)
(***************************************************************************)
EXTENDS LogContext, TLAPS

(***************************************************************************)
(* The inductive invariant says what the context variables and the baggage *)
(* of every thread are, given how far its request or task is.              *)
(***************************************************************************)
\* What the baggage of request r says inside request_baggage.
Carried(r) == Overlay(Identity(r), Claimed(r))

WebThreadOK(w) ==
  LET at == web[w].pc
      own == Identity(web[w].req)
      entered == at \in {"attached", "running", "published"}
  IN /\ at # "idle" => web[w].req \in Requests /\ web[w].was = Empty /\ web[w].outer = Empty
     /\ entered => web[w].inner = Claimed(web[w].req)
     /\ job[w] = IF at = "running" THEN web[w].task ELSE None
     /\ at \in {"attached", "running"} =>
          /\ web[w].task \in Tasks /\ trigger[web[w].task] = web[w].req
          /\ web[w].req.user # None
     /\ ctx[w].id = IF at = "idle" THEN None
                    ELSE IF at = "running" THEN web[w].task ELSE own.id
     /\ ctx[w].user = IF at = "logging" THEN own.user ELSE None
     /\ ctx[w].firm = IF at = "logging" THEN own.firm ELSE None
     /\ bag[w] = IF at = "idle" THEN Empty
                 ELSE IF entered /\ packages THEN Carried(web[w].req)
                 ELSE Claimed(web[w].req)

WorkerOK(x) ==
  /\ ctx[x] = [id |-> job[x], user |-> None, firm |-> None]
  /\ bag[x] = IF job[x] # None /\ setup_telemetry("web") /\ setup_telemetry("worker")
              THEN Carried(trigger[job[x]]) ELSE Empty

\* A message carries what its trigger attached.
MessageOK(m) ==
  /\ trigger[m.task] \in Requests /\ trigger[m.task].user # None
  /\ m.baggage = IF setup_telemetry("web") THEN Carried(trigger[m.task]) ELSE Empty

\* The token of a running task is that of its thread, and restores the id of
\* the request around the task, if there is one.
TokenOK(t) ==
  job[t] # None =>
    /\ trigger[job[t]] \in Requests /\ trigger[job[t]].user # None
    /\ stash[job[t]] = [by |-> t,
                        was |-> IF t \in WebThreads THEN web[t].req.id ELSE None]

\* A task that is yet to be published or to be taken is in one place.
TaskInOnePlace ==
  /\ \A m \in queue, t \in OsThreads : job[t] # m.task
  /\ \A w \in WebThreads : web[w].pc = "attached" =>
       /\ \A m \in queue : m.task # web[w].task
       /\ \A t \in OsThreads : job[t] # web[w].task
       /\ \A v \in WebThreads : web[v].pc = "attached" /\ web[v].task = web[w].task => v = w

LInv ==
  /\ TypeOK
  /\ \A w \in WebThreads : WebThreadOK(w)
  /\ \A x \in Workers : WorkerOK(x)
  /\ \A m \in queue : MessageOK(m)
  /\ \A t \in OsThreads : TokenOK(t)
  /\ TaskInOnePlace

-----------------------------------------------------------------------------
\* An overlay, field by field.
LEMMA Overlays ==
  ASSUME NEW a \in Context, NEW b \in Context
  PROVE  /\ Overlay(a, b) \in Context
         /\ Overlay(a, b).id = IF a.id = None THEN b.id ELSE a.id
         /\ Overlay(a, b).user = IF a.user = None THEN b.user ELSE a.user
         /\ Overlay(a, b).firm = IF a.firm = None THEN b.firm ELSE a.firm
<1>1. DOMAIN Empty = {"id", "user", "firm"}
  BY DEF Empty
<1>2. PICK c : c = [id |-> IF a.id = None THEN b.id ELSE a.id,
                    user |-> IF a.user = None THEN b.user ELSE a.user,
                    firm |-> IF a.firm = None THEN b.firm ELSE a.firm]
  OBVIOUS
<1>3. c \in Context
  BY <1>2 DEF Context
<1>4. Overlay(a, b) = c
  BY <1>1, <1>2 DEF Overlay
<1> QED
  BY <1>2, <1>3, <1>4

LEMMA Values ==
  /\ NoRequest \notin Requests /\ NoToken \in Tokens /\ Empty \in Context /\ Idle \in WebStates
  /\ \A r \in Requests : Identity(r) \in Context /\ Identity(r).id = r.id /\ r.id # None
  /\ \A r \in Requests : Claimed(r) \in Context
  /\ \A t \in OsThreads : t # None
  /\ None \notin Tasks
BY NoneAssumption, FirmAssumption, HeaderAssumption
   DEF Claimed, NoRequest, NoToken, Requests, Identity, Context, Empty, Tokens, OsThreads, Idle, WebStates

LEMMA CarriedTypes ==
  ASSUME NEW r \in Requests
  PROVE  /\ Carried(r) \in Context
         /\ Carried(r).id = r.id
         /\ Carried(r).user = IF r.user = None THEN Claimed(r).user ELSE r.user
BY Values, Overlays DEF Carried, Identity

\* A request moves on.
LEMMA MoveTypes ==
  ASSUME NEW f \in [WebThreads -> WebStates], NEW z \in WebThreads,
         NEW p \in {"attached", "running", "published", "answered", "logging"}
  PROVE  [f EXCEPT ![z].pc = p] \in [WebThreads -> WebStates]
<1>1. [f[z] EXCEPT !.pc = p] \in WebStates
  <2>1. f[z] \in WebStates
    OBVIOUS
  <2> QED
    BY <2>1 DEF WebStates
<1> QED
  BY <1>1

\* No two threads run one task.
LEMMA JobsDiffer ==
  ASSUME LInv, NEW t \in OsThreads, NEW u \in OsThreads, job[t] # None, job[t] = job[u]
  PROVE  t = u
<1>1. TokenOK(t) /\ TokenOK(u)
  BY DEF LInv
<1>2. stash[job[t]].by = t /\ stash[job[u]].by = u
  BY <1>1 DEF TokenOK
<1> QED
  BY <1>2

\* The handlers of Celery, in a thread that runs no task, and in one that
\* runs task k.
LEMMA PrerunTypes ==
  ASSUME LInv, NEW t \in OsThreads, NEW k \in Tasks, job[t] = None, _on_prerun(t, k)
  PROVE  /\ ctx' \in [OsThreads -> Context]
         /\ stash' \in [Tasks -> Tokens]
         /\ job' \in [OsThreads -> Tasks \cup {None}]
         /\ \A j \in Tasks : TokenKept(j)'
<1> USE DEF LInv, TypeOK, _on_prerun
<1>1. ctx' \in [OsThreads -> Context]
  <2>1. ctx[t] \in Context
    OBVIOUS
  <2>2. [ctx[t] EXCEPT !.id = k] \in Context
    BY <2>1 DEF Context
  <2> QED
    BY <2>2
<1>2. [by |-> t, was |-> ctx[t].id] \in Tokens
  BY DEF Context, Tokens
<1>3. stash' \in [Tasks -> Tokens]
  BY <1>2
<1>4. job' \in [OsThreads -> Tasks \cup {None}]
  OBVIOUS
<1>5. ASSUME NEW j \in Tasks PROVE TokenKept(j)'
  <2>1. CASE j = k
    <3>1. stash'[j].by = t /\ NoToken.by = None
      BY <2>1 DEF NoToken
    <3> QED
      BY <3>1, <2>1, Values DEF TokenKept
  <2>2. CASE j # k
    BY <2>2, Values DEF TokenKept
  <2> QED
    BY <2>1, <2>2
<1> QED
  BY <1>1, <1>3, <1>4, <1>5

LEMMA PostrunTypes ==
  ASSUME LInv, NEW t \in OsThreads, NEW k \in Tasks, job[t] = k, _on_postrun(t, k)
  PROVE  /\ ctx' \in [OsThreads -> Context]
         /\ stash' \in [Tasks -> Tokens]
         /\ job' \in [OsThreads -> Tasks \cup {None}]
         /\ \A j \in Tasks : TokenKept(j)'
<1> USE DEF LInv, TypeOK, _on_postrun
<1>1. stash[k].was \in Ids \cup Tasks \cup {None}
  BY DEF Tokens
<1>2. ctx' \in [OsThreads -> Context]
  <2>1. [ctx[t] EXCEPT !.id = stash[k].was] \in Context
    <3>1. ctx[t] \in Context
      OBVIOUS
    <3> HIDE DEF LInv, TypeOK, _on_postrun
    <3> QED
      BY <1>1, <3>1 DEF Context
  <2>2. ctx' = [ctx EXCEPT ![t] = [ctx[t] EXCEPT !.id = stash[k].was]]
    OBVIOUS
  <2> QED
    BY <2>1, <2>2
<1>3. stash' \in [Tasks -> Tokens]
  BY Values
<1>4. job' \in [OsThreads -> Tasks \cup {None}]
  OBVIOUS
<1>5. ASSUME NEW j \in Tasks PROVE TokenKept(j)'
  <2>1. CASE j = k
    <3>1. \A u \in OsThreads : job'[u] # k
      BY JobsDiffer, Values
    <3> QED
      BY <3>1, <2>1 DEF TokenKept
  <2>2. CASE j # k
    BY <2>2, Values DEF TokenKept
  <2> QED
    BY <2>1, <2>2
<1> QED
  BY <1>2, <1>3, <1>4, <1>5

LEMMA InitLInv == Init => LInv
<1> SUFFICES ASSUME Init PROVE LInv
  OBVIOUS
<1>1. TypeOK
  BY Values, NoneAssumption DEF Init, TypeOK, TokenKept
<1>2. \A w \in WebThreads : WebThreadOK(w)
  BY DEF Init, WebThreadOK, OsThreads, Idle, Empty
<1>3. \A x \in Workers : WorkerOK(x)
  BY DEF Init, WorkerOK, OsThreads, Empty
<1>4. TaskInOnePlace
  BY DEF Init, TaskInOnePlace, Idle
<1> QED
  BY <1>1, <1>2, <1>3, <1>4 DEF LInv, Init, TokenOK

LEMMA BeginLInv ==
  ASSUME LInv, NEW z \in WebThreads, Begin(z)
  PROVE  LInv'
<1> USE DEF LInv, Begin, settings, Claimed, Carried, setup_telemetry
<1>1. TypeOK'
  <2>1. (ctx \in [OsThreads -> Context])'
    <3>1. PICK r \in Requests : ctx' = [ctx EXCEPT ![z].id = r.id]
      OBVIOUS
    <3>2. z \in OsThreads /\ ctx[z] \in Context /\ r.id \in Ids
      BY DEF TypeOK, OsThreads, Requests
    <3>3. [ctx[z] EXCEPT !.id = r.id] \in Context
      BY <3>2 DEF Context
    <3> QED
      BY <3>1, <3>2, <3>3 DEF TypeOK
  <2>2. (web \in [WebThreads -> WebStates])'
    <3>1. PICK r \in Requests :
            web' = [web EXCEPT ![z] = [Idle EXCEPT !.pc = "view", !.req = r, !.was = ctx[z], !.outer = bag[z]]]
      OBVIOUS
    <3>2. [Idle EXCEPT !.pc = "view", !.req = r, !.was = ctx[z], !.outer = bag[z]] \in WebStates
      <4>1. ctx[z] \in Context /\ bag[z] \in Context
        BY DEF TypeOK, OsThreads
      <4> QED
        BY <4>1, Values DEF WebStates, Idle
    <3> QED
      BY <3>1, <3>2 DEF TypeOK
  <2>3. (bag \in [OsThreads -> Context])'
    <3>1. PICK r \in Requests :
            bag' = IF setup_telemetry("web") THEN [bag EXCEPT ![z] = r.header] ELSE bag
      OBVIOUS
    <3>2. r.header \in Context
      BY HeaderAssumption DEF Requests
    <3> QED
      BY <3>1, <3>2 DEF TypeOK
  <2> QED
    BY <2>1, <2>2, <2>3 DEF TypeOK, TokenKept
<1>2. ASSUME NEW w \in WebThreads PROVE WebThreadOK(w)'
  <2>1. PICK r \in Requests :
          /\ web' = [web EXCEPT ![z] = [Idle EXCEPT !.pc = "view", !.req = r, !.was = ctx[z], !.outer = bag[z]]]
          /\ ctx' = [ctx EXCEPT ![z].id = r.id]
          /\ bag' = IF setup_telemetry("web") THEN [bag EXCEPT ![z] = r.header] ELSE bag
    OBVIOUS
  <2>2. CASE w = z
    <3>1. /\ web'[z].pc = "view" /\ web'[z].req = r /\ web'[z].was = ctx[z]
          /\ web'[z].outer = bag[z]
          /\ bag'[z] = IF setup_telemetry("web") THEN r.header ELSE bag[z]
          /\ ctx'[z].id = r.id /\ ctx'[z].user = ctx[z].user /\ ctx'[z].firm = ctx[z].firm
      <4>1. ctx[z] \in Context /\ z \in OsThreads
        BY DEF TypeOK, OsThreads
      <4>2. web'[z] = [Idle EXCEPT !.pc = "view", !.req = r, !.was = ctx[z], !.outer = bag[z]]
        BY <2>1 DEF TypeOK
      <4>3. ctx'[z] = [ctx[z] EXCEPT !.id = r.id]
        BY <2>1, <4>1 DEF TypeOK
      <4>4. bag'[z] = IF setup_telemetry("web") THEN r.header ELSE bag[z]
        BY <2>1, <4>1 DEF TypeOK
      <4> HIDE DEF LInv, Begin
      <4> QED
        BY <4>1, <4>2, <4>3, <4>4 DEF Idle, Context
    <3>2. ctx[z] = Empty /\ bag[z] = Empty
      BY DEF TypeOK, WebThreadOK, OsThreads, Context, Empty
    <3> QED
      BY <2>2, <3>1, <3>2, Values DEF WebThreadOK
  <2>3. CASE w # z
    BY <2>1, <2>3 DEF WebThreadOK
  <2> QED
    BY <2>2, <2>3
<1>3. ASSUME NEW x \in Workers PROVE WorkerOK(x)'
  BY ProcessAssumption DEF WorkerOK, setup_telemetry
<1>4. ASSUME NEW m \in queue' PROVE MessageOK(m)'
  BY DEF MessageOK, setup_telemetry
<1>5. ASSUME NEW t \in OsThreads PROVE TokenOK(t)'
  BY DEF TokenOK, WebThreadOK
<1>6. TaskInOnePlace'
  BY DEF TaskInOnePlace
<1> QED
  BY <1>1, <1>2, <1>3, <1>4, <1>5, <1>6

LEMMA AttachLInv ==
  ASSUME LInv, NEW z \in WebThreads, Attach(z)
  PROVE  LInv'
<1> USE DEF LInv, Attach, Enter, settings, Claimed, Carried, setup_telemetry
<1>1. TypeOK'
  <2>1. (bag \in [OsThreads -> Context])'
    <3>1. z \in OsThreads /\ bag[z] \in Context /\ bag \in [OsThreads -> Context]
      BY DEF TypeOK, OsThreads
    <3>2. Identity(web[z].req) \in Context
      BY Values DEF WebThreadOK
    <3>3. Overlay(Identity(web[z].req), bag[z]) \in Context
      BY <3>1, <3>2, Overlays
    <3> QED
      BY <3>1, <3>3
  <2>2. (web \in [WebThreads -> WebStates])'
    <3>1. PICK k \in Tasks : web' = [web EXCEPT ![z].pc = "attached", ![z].task = k, ![z].inner = bag[z]]
      OBVIOUS
    <3>2. [web[z] EXCEPT !.pc = "attached", !.task = k, !.inner = bag[z]] \in WebStates
      <4>1. web[z] \in WebStates
        BY DEF TypeOK
      <4>2. bag[z] \in Context
        BY DEF TypeOK, OsThreads
      <4> QED
        BY <4>1, <4>2 DEF WebStates
    <3>3. web' = [web EXCEPT ![z] = [web[z] EXCEPT !.pc = "attached", !.task = k, !.inner = bag[z]]]
      BY <3>1
    <3> QED
      BY <3>2, <3>3 DEF TypeOK
  <2>3. (trigger \in [Tasks -> Requests \cup {NoRequest}])'
    BY DEF TypeOK, WebStates
  <2> QED
    BY <2>1, <2>2, <2>3 DEF TypeOK, TokenKept
<1>2. ASSUME NEW w \in WebThreads PROVE WebThreadOK(w)'
  BY Values DEF TypeOK, WebThreadOK, OsThreads
<1>3. ASSUME NEW x \in Workers PROVE WorkerOK(x)'
  <2>1. PICK k \in Tasks :
          /\ trigger[k] = NoRequest
          /\ trigger' = [trigger EXCEPT ![k] = web[z].req]
          /\ web' = [web EXCEPT ![z].pc = "attached", ![z].task = k, ![z].inner = bag[z]]
    OBVIOUS
  <2>2. job[x] # k
    BY <2>1, Values DEF TokenOK, OsThreads
  <2> QED
    BY <2>1, <2>2, ProcessAssumption DEF WorkerOK, setup_telemetry
<1>4. ASSUME NEW m \in queue' PROVE MessageOK(m)'
  BY Values DEF MessageOK, setup_telemetry
<1>5. ASSUME NEW t \in OsThreads PROVE TokenOK(t)'
  BY DEF TypeOK, TokenOK, WebThreadOK
<1>6. TaskInOnePlace'
  <2>1. PICK k \in Tasks :
          /\ trigger[k] = NoRequest
          /\ trigger' = [trigger EXCEPT ![k] = web[z].req]
          /\ web' = [web EXCEPT ![z].pc = "attached", ![z].task = k, ![z].inner = bag[z]]
    OBVIOUS
  <2>2. \A t \in OsThreads : job[t] # k
    BY <2>1, Values DEF TokenOK
  <2>3. \A m \in queue : m.task # k
    BY <2>1, Values DEF MessageOK
  <2>4. \A v \in WebThreads : web[v].pc = "attached" => web[v].task # k
    BY <2>1, Values DEF WebThreadOK
  <2> QED
    BY <2>1, <2>2, <2>3, <2>4 DEF TypeOK, TaskInOnePlace, WebStates
<1> QED
  BY <1>1, <1>2, <1>3, <1>4, <1>5, <1>6

LEMMA PublishLInv ==
  ASSUME LInv, NEW z \in WebThreads, Publish(z)
  PROVE  LInv'
<1> USE DEF LInv, Publish, settings, Claimed, Carried, setup_telemetry
<1>1. TypeOK'
  <2>1. (web \in [WebThreads -> WebStates])'
    BY MoveTypes DEF TypeOK
  <2>2. (queue \subseteq [task : Tasks, baggage : Context])'
    <3>1. web[z].task \in Tasks /\ bag[z] \in Context /\ Empty \in Context
      BY Values DEF TypeOK, OsThreads, WebThreadOK
    <3> QED
      BY <3>1 DEF TypeOK
  <2> QED
    BY <2>1, <2>2 DEF TypeOK, TokenKept
<1>2. ASSUME NEW w \in WebThreads PROVE WebThreadOK(w)'
  BY DEF WebThreadOK
<1>3. ASSUME NEW x \in Workers PROVE WorkerOK(x)'
  BY DEF WorkerOK, setup_telemetry
<1>4. ASSUME NEW m \in queue' PROVE MessageOK(m)'
  BY DEF MessageOK, WebThreadOK, setup_telemetry
<1>5. ASSUME NEW t \in OsThreads PROVE TokenOK(t)'
  BY DEF TokenOK
<1>6. TaskInOnePlace'
  BY DEF TypeOK, TaskInOnePlace
<1> QED
  BY <1>1, <1>2, <1>3, <1>4, <1>5, <1>6

LEMMA RunEagerlyLInv ==
  ASSUME LInv, NEW z \in WebThreads, RunEagerly(z)
  PROVE  LInv'
<1> USE DEF LInv, RunEagerly, _on_prerun, settings, Claimed, Carried, setup_telemetry
<1>1. TypeOK'
  <2>1. /\ ctx' \in [OsThreads -> Context]
        /\ stash' \in [Tasks -> Tokens]
        /\ job' \in [OsThreads -> Tasks \cup {None}]
        /\ \A k \in Tasks : TokenKept(k)'
    <3>1. z \in OsThreads /\ web[z].task \in Tasks /\ job[z] = None
      BY DEF OsThreads, WebThreadOK
    <3> QED
      BY <3>1, PrerunTypes
  <2>2. (web \in [WebThreads -> WebStates])'
    BY MoveTypes DEF TypeOK
  <2> QED
    BY <2>1, <2>2 DEF TypeOK
<1>2. ASSUME NEW w \in WebThreads PROVE WebThreadOK(w)'
  BY DEF TypeOK, WebThreadOK, OsThreads
<1>3. ASSUME NEW x \in Workers PROVE WorkerOK(x)'
  BY ProcessAssumption DEF WorkerOK, setup_telemetry
<1>4. ASSUME NEW m \in queue' PROVE MessageOK(m)'
  BY DEF MessageOK, setup_telemetry
<1>5. ASSUME NEW t \in OsThreads PROVE TokenOK(t)'
  BY Values DEF TypeOK, TokenOK, WebThreadOK, TaskInOnePlace
<1>6. TaskInOnePlace'
  BY DEF TypeOK, TaskInOnePlace
<1> QED
  BY <1>1, <1>2, <1>3, <1>4, <1>5, <1>6

LEMMA RanEagerlyLInv ==
  ASSUME LInv, NEW z \in WebThreads, RanEagerly(z)
  PROVE  LInv'
<1> USE DEF LInv, RanEagerly, _on_postrun, settings, Claimed, Carried, setup_telemetry
<1>1. TypeOK'
  <2>1. /\ ctx' \in [OsThreads -> Context]
        /\ stash' \in [Tasks -> Tokens]
        /\ job' \in [OsThreads -> Tasks \cup {None}]
        /\ \A k \in Tasks : TokenKept(k)'
    <3>1. z \in OsThreads /\ web[z].task \in Tasks /\ job[z] = web[z].task
      BY DEF OsThreads, WebThreadOK
    <3> QED
      BY <3>1, PostrunTypes
  <2>2. (web \in [WebThreads -> WebStates])'
    BY MoveTypes DEF TypeOK
  <2> QED
    BY <2>1, <2>2 DEF TypeOK
<1>2. ASSUME NEW w \in WebThreads PROVE WebThreadOK(w)'
  <2>1. CASE w = z
    <3>1. /\ web'[z].pc = "published" /\ web'[z].req = web[z].req /\ web'[z].was = web[z].was
          /\ ctx'[z].id = stash[job[z]].was
          /\ ctx'[z].user = ctx[z].user /\ ctx'[z].firm = ctx[z].firm
          /\ job'[z] = None
      BY DEF TypeOK, OsThreads, WebThreadOK
    <3>2. stash[job[z]].was = web[z].req.id
      <4>1. z \in OsThreads /\ job[z] # None
        BY Values DEF WebThreadOK, OsThreads
      <4>2. TokenOK(z)
        BY <4>1
      <4>3. stash[job[z]] = [by |-> z, was |-> web[z].req.id]
        BY <4>1, <4>2 DEF TokenOK
      <4> QED
        BY <4>3
    <3> QED
      BY <2>1, <3>1, <3>2, Values DEF WebThreadOK
  <2>2. CASE w # z
    BY <2>2 DEF WebThreadOK
  <2> QED
    BY <2>1, <2>2
<1>3. ASSUME NEW x \in Workers PROVE WorkerOK(x)'
  BY ProcessAssumption DEF WorkerOK, setup_telemetry
<1>4. ASSUME NEW m \in queue' PROVE MessageOK(m)'
  BY DEF MessageOK, setup_telemetry
<1>5. ASSUME NEW t \in OsThreads PROVE TokenOK(t)'
  BY JobsDiffer DEF TypeOK, TokenOK, WebThreadOK, OsThreads
<1>6. TaskInOnePlace'
  <2>1. \A t \in OsThreads : job'[t] \in {job[t], None}
    BY DEF TypeOK
  <2>2. \A v \in WebThreads : web'[v].pc = "attached" =>
          web[v].pc = "attached" /\ web'[v].task = web[v].task /\ web[v].task \in Tasks
    BY DEF TypeOK, WebThreadOK
  <2>3. \A m \in queue : m.task \in Tasks
    BY DEF TypeOK
  <2> QED
    BY <2>1, <2>2, <2>3, Values DEF TaskInOnePlace
<1> QED
  BY <1>1, <1>2, <1>3, <1>4, <1>5, <1>6

LEMMA DetachLInv ==
  ASSUME LInv, NEW z \in WebThreads, Detach(z)
  PROVE  LInv'
<1> USE DEF LInv, Detach, settings, Claimed, Carried, setup_telemetry
<1>1. TypeOK'
  <2>1. (bag \in [OsThreads -> Context])'
    BY DEF TypeOK, WebStates
  <2>2. (web \in [WebThreads -> WebStates])'
    BY MoveTypes DEF TypeOK
  <2> QED
    BY <2>1, <2>2 DEF TypeOK, TokenKept
<1>2. ASSUME NEW w \in WebThreads PROVE WebThreadOK(w)'
  BY DEF TypeOK, WebThreadOK, OsThreads
<1>3. ASSUME NEW x \in Workers PROVE WorkerOK(x)'
  BY ProcessAssumption DEF WorkerOK, setup_telemetry
<1>4. ASSUME NEW m \in queue' PROVE MessageOK(m)'
  BY DEF MessageOK, setup_telemetry
<1>5. ASSUME NEW t \in OsThreads PROVE TokenOK(t)'
  BY DEF TokenOK
<1>6. TaskInOnePlace'
  BY DEF TaskInOnePlace
<1> QED
  BY <1>1, <1>2, <1>3, <1>4, <1>5, <1>6

LEMMA RespondLInv ==
  ASSUME LInv, NEW z \in WebThreads, Respond(z)
  PROVE  LInv'
<1> USE DEF LInv, Respond, settings, Claimed, Carried, setup_telemetry
<1>1. TypeOK'
  <2>1. (ctx \in [OsThreads -> Context])'
    <3>1. Identity(web[z].req) \in Context
      BY Values DEF WebThreadOK
    <3>2. ctx[z] \in Context /\ z \in OsThreads /\ ctx \in [OsThreads -> Context]
      BY DEF TypeOK, OsThreads
    <3>3. [Identity(web[z].req) EXCEPT !.id = None] \in Context
      BY <3>1 DEF Context
    <3>4. Overlay([Identity(web[z].req) EXCEPT !.id = None], ctx[z]) \in Context
      BY <3>2, <3>3, Overlays
    <3> QED
      BY <3>2, <3>4
  <2>2. (web \in [WebThreads -> WebStates])'
    BY MoveTypes DEF TypeOK
  <2> QED
    BY <2>1, <2>2 DEF TypeOK, TokenKept
<1>2. ASSUME NEW w \in WebThreads PROVE WebThreadOK(w)'
  <2>1. CASE w = z
    <3> DEFINE own == Identity(web[z].req)
    <3>1. own \in Context /\ ctx[z] \in Context /\ z \in OsThreads
      BY Values DEF WebThreadOK, TypeOK, OsThreads
    <3>2. PICK anon : anon = [own EXCEPT !.id = None]
      OBVIOUS
    <3>3. anon \in Context /\ anon.id = None /\ anon.user = own.user /\ anon.firm = own.firm
      BY <3>1, <3>2 DEF Context
    <3>4. ctx'[z] = Overlay(anon, ctx[z])
      BY <3>1, <3>2 DEF TypeOK
    <3>5. /\ ctx[z].id = own.id /\ ctx[z].user = None /\ ctx[z].firm = None
      BY DEF WebThreadOK
    <3>6. ctx'[z].id = own.id /\ ctx'[z].user = own.user /\ ctx'[z].firm = own.firm
      BY <3>1, <3>3, <3>4, <3>5, Overlays
    <3>7. web'[z] = [web[z] EXCEPT !.pc = "logging"] /\ web[z] \in WebStates
      BY DEF TypeOK
    <3>8. /\ web'[z].pc = "logging" /\ web'[z].req = web[z].req /\ web'[z].was = web[z].was
          /\ web'[z].outer = web[z].outer
      BY <3>7 DEF WebStates
    <3> HIDE DEF own
    <3> QED
      BY <2>1, <3>6, <3>8 DEF WebThreadOK, own
  <2>2. CASE w # z
    BY <2>2 DEF TypeOK, WebThreadOK, OsThreads
  <2> QED
    BY <2>1, <2>2
<1>3. ASSUME NEW x \in Workers PROVE WorkerOK(x)'
  BY ProcessAssumption DEF TypeOK, WorkerOK, OsThreads, setup_telemetry
<1>4. ASSUME NEW m \in queue' PROVE MessageOK(m)'
  BY DEF MessageOK, setup_telemetry
<1>5. ASSUME NEW t \in OsThreads PROVE TokenOK(t)'
  BY DEF TokenOK
<1>6. TaskInOnePlace'
  BY DEF TaskInOnePlace
<1> QED
  BY <1>1, <1>2, <1>3, <1>4, <1>5, <1>6

LEMMA EndLInv ==
  ASSUME LInv, NEW z \in WebThreads, End(z)
  PROVE  LInv'
<1> USE DEF LInv, End, settings, Claimed, Carried, setup_telemetry
<1>1. TypeOK'
  <2>1. (ctx \in [OsThreads -> Context])'
    BY DEF TypeOK, WebStates
  <2>2. (web \in [WebThreads -> WebStates])'
    BY Values DEF TypeOK
  <2>3. (bag \in [OsThreads -> Context])'
    BY DEF TypeOK, WebStates
  <2> QED
    BY <2>1, <2>2, <2>3 DEF TypeOK, TokenKept
<1>2. ASSUME NEW w \in WebThreads PROVE WebThreadOK(w)'
  BY DEF TypeOK, WebThreadOK, OsThreads, Idle, Empty
<1>3. ASSUME NEW x \in Workers PROVE WorkerOK(x)'
  BY ProcessAssumption DEF WorkerOK, setup_telemetry
<1>4. ASSUME NEW m \in queue' PROVE MessageOK(m)'
  BY DEF MessageOK, setup_telemetry
<1>5. ASSUME NEW t \in OsThreads PROVE TokenOK(t)'
  BY DEF TokenOK, WebThreadOK
<1>6. TaskInOnePlace'
  BY DEF TaskInOnePlace, Idle
<1> QED
  BY <1>1, <1>2, <1>3, <1>4, <1>5, <1>6

LEMMA StartLInv ==
  ASSUME LInv, NEW z \in Workers, Start(z)
  PROVE  LInv'
<1> USE DEF LInv, Start, _on_prerun, settings, Claimed, Carried, setup_telemetry
<1>1. TypeOK'
  <2>1. /\ ctx' \in [OsThreads -> Context]
        /\ stash' \in [Tasks -> Tokens]
        /\ job' \in [OsThreads -> Tasks \cup {None}]
        /\ \A k \in Tasks : TokenKept(k)'
    <3>1. PICK m \in queue : _on_prerun(z, m.task)
      OBVIOUS
    <3>2. z \in OsThreads /\ m.task \in Tasks
      BY DEF OsThreads, TypeOK
    <3> QED
      BY <3>1, <3>2, PrerunTypes
  <2>2. (bag \in [OsThreads -> Context])'
    BY DEF TypeOK
  <2>3. (queue \subseteq [task : Tasks, baggage : Context])'
    BY DEF TypeOK
  <2> QED
    BY <2>1, <2>2, <2>3 DEF TypeOK
<1>2. ASSUME NEW w \in WebThreads PROVE WebThreadOK(w)'
  BY ProcessAssumption DEF WebThreadOK
<1>3. ASSUME NEW x \in Workers PROVE WorkerOK(x)'
  <2>1. PICK m \in queue :
          /\ _on_prerun(z, m.task)
          /\ bag' = IF setup_telemetry("worker") THEN [bag EXCEPT ![z] = m.baggage] ELSE bag
    OBVIOUS
  <2>2. CASE x = z
    <3>1. /\ ctx'[z].id = m.task /\ ctx'[z].user = ctx[z].user /\ ctx'[z].firm = ctx[z].firm
          /\ ctx'[z] \in Context /\ job'[z] = m.task
      BY <1>1, <2>1 DEF TypeOK
    <3>2. ctx'[z] = [id |-> m.task, user |-> None, firm |-> None]
      <4>1. WorkerOK(z)
        OBVIOUS
      <4>2. ctx[z].user = None /\ ctx[z].firm = None
        BY <4>1 DEF WorkerOK
      <4> QED
        BY <3>1, <4>2 DEF Context
    <3>3. bag'[z] = IF setup_telemetry("worker") THEN m.baggage ELSE Empty
      BY <2>1 DEF TypeOK, OsThreads, WorkerOK
    <3>4. m.task # None
      BY Values DEF TypeOK
    <3> QED
      BY <2>2, <3>1, <3>2, <3>3, <3>4 DEF WorkerOK, MessageOK, setup_telemetry
  <2>3. CASE x # z
    BY <2>1, <2>3 DEF WorkerOK, setup_telemetry
  <2> QED
    BY <2>2, <2>3
<1>4. ASSUME NEW m \in queue' PROVE MessageOK(m)'
  BY DEF MessageOK, setup_telemetry
<1>5. ASSUME NEW t \in OsThreads PROVE TokenOK(t)'
  BY ProcessAssumption DEF TypeOK, TokenOK, WorkerOK, MessageOK, OsThreads, TaskInOnePlace
<1>6. TaskInOnePlace'
  BY DEF TypeOK, TaskInOnePlace, MessageOK
<1> QED
  BY <1>1, <1>2, <1>3, <1>4, <1>5, <1>6

LEMMA FinishLInv ==
  ASSUME LInv, NEW z \in Workers, Finish(z)
  PROVE  LInv'
<1> USE DEF LInv, Finish, _on_postrun, settings, Claimed, Carried, setup_telemetry
<1>1. TypeOK'
  <2>1. /\ ctx' \in [OsThreads -> Context]
        /\ stash' \in [Tasks -> Tokens]
        /\ job' \in [OsThreads -> Tasks \cup {None}]
        /\ \A k \in Tasks : TokenKept(k)'
    <3>1. z \in OsThreads /\ job[z] \in Tasks
      BY DEF OsThreads, TypeOK
    <3> QED
      BY <3>1, PostrunTypes
  <2>2. (bag \in [OsThreads -> Context])'
    BY Values DEF TypeOK
  <2> QED
    BY <2>1, <2>2 DEF TypeOK
<1>2. ASSUME NEW w \in WebThreads PROVE WebThreadOK(w)'
  BY ProcessAssumption DEF WebThreadOK
<1>3. ASSUME NEW x \in Workers PROVE WorkerOK(x)'
  <2>1. CASE x = z
    <3>1. /\ ctx'[z].id = stash[job[z]].was
          /\ ctx'[z].user = ctx[z].user /\ ctx'[z].firm = ctx[z].firm
          /\ ctx'[z] \in Context /\ job'[z] = None /\ bag'[z] = Empty
      BY <1>1 DEF TypeOK
    <3>2. stash[job[z]].was = None
      <4>1. z \in OsThreads /\ z \notin WebThreads
        BY ProcessAssumption DEF OsThreads
      <4>2. TokenOK(z)
        BY <4>1
      <4>3. stash[job[z]] = [by |-> z, was |-> None]
        BY <4>1, <4>2 DEF TokenOK
      <4> QED
        BY <4>3
    <3>3. ctx[z].user = None /\ ctx[z].firm = None
      <4>1. WorkerOK(z)
        OBVIOUS
      <4> QED
        BY <4>1 DEF WorkerOK
    <3>4. ctx'[z] = [id |-> None, user |-> None, firm |-> None]
      BY <3>1, <3>2, <3>3 DEF Context
    <3> QED
      BY <2>1, <3>1, <3>4 DEF WorkerOK
  <2>2. CASE x # z
    BY <2>2 DEF WorkerOK, setup_telemetry
  <2> QED
    BY <2>1, <2>2
<1>4. ASSUME NEW m \in queue' PROVE MessageOK(m)'
  BY DEF MessageOK, setup_telemetry
<1>5. ASSUME NEW t \in OsThreads PROVE TokenOK(t)'
  BY JobsDiffer DEF TypeOK, TokenOK, OsThreads
<1>6. TaskInOnePlace'
  <2>1. \A t \in OsThreads : job'[t] \in {job[t], None}
    BY DEF TypeOK
  <2>2. \A v \in WebThreads : web'[v].pc = "attached" =>
          web[v].pc = "attached" /\ web'[v].task = web[v].task /\ web[v].task \in Tasks
    BY DEF TypeOK, WebThreadOK
  <2>3. \A m \in queue : m.task \in Tasks
    BY DEF TypeOK
  <2> QED
    BY <2>1, <2>2, <2>3, Values DEF TaskInOnePlace
<1> QED
  BY <1>1, <1>2, <1>3, <1>4, <1>5, <1>6

LEMMA RestartLInv ==
  ASSUME LInv, NEW P \in {WebThreads, Workers}, Restart(P)
  PROVE  LInv'
<1> USE DEF LInv, Restart, settings, Claimed, Carried, setup_telemetry
<1>1. /\ \A t \in OsThreads : ctx'[t] = IF t \in P THEN Empty ELSE ctx[t]
      /\ \A t \in OsThreads : bag'[t] = IF t \in P THEN Empty ELSE bag[t]
      /\ \A t \in OsThreads : job'[t] = IF t \in P THEN None ELSE job[t]
      /\ \A w \in WebThreads : web'[w] = IF w \in P THEN Idle ELSE web[w]
      /\ \A k \in Tasks : stash'[k] = IF stash[k].by \in P THEN NoToken ELSE stash[k]
  OBVIOUS
\* What restarts is a process with all its threads: a token goes with its task.
<1>2. \A t \in OsThreads : job[t] # None => stash[job[t]].by = t
  <2> TAKE t \in OsThreads
  <2>1. TokenOK(t)
    OBVIOUS
  <2> QED
    BY <2>1 DEF TokenOK
<1>3. TypeOK'
  <2>1. /\ ctx' \in [OsThreads -> Context] /\ bag' \in [OsThreads -> Context]
        /\ web' \in [WebThreads -> WebStates] /\ job' \in [OsThreads -> Tasks \cup {None}]
        /\ stash' \in [Tasks -> Tokens]
    BY Values DEF TypeOK
  <2>2. ASSUME NEW k \in Tasks PROVE TokenKept(k)'
    BY <1>1, <1>2, Values DEF TypeOK, TokenKept
  <2> QED
    BY <2>1, <2>2 DEF TypeOK
<1>4. ASSUME NEW w \in WebThreads PROVE WebThreadOK(w)'
  BY <1>1 DEF WebThreadOK, OsThreads, Idle, Empty
<1>5. ASSUME NEW x \in Workers PROVE WorkerOK(x)'
  BY <1>1 DEF WorkerOK, OsThreads, Empty, setup_telemetry
<1>6. ASSUME NEW m \in queue' PROVE MessageOK(m)'
  BY DEF MessageOK, setup_telemetry
<1>7. ASSUME NEW t \in OsThreads PROVE TokenOK(t)'
  BY <1>1, <1>2 DEF TypeOK, TokenOK
<1>8. TaskInOnePlace'
  <2>1. \A w \in WebThreads : web'[w].pc = "attached" => web'[w] = web[w]
    BY <1>1 DEF Idle
  <2>2. \A t \in OsThreads : job'[t] \in {job[t], None}
    BY <1>1
  <2>3. \A m \in queue : m.task \in Tasks
    BY DEF TypeOK
  <2>4. \A w \in WebThreads : web[w].pc = "attached" => web[w].task \in Tasks
    BY DEF WebThreadOK
  <2> QED
    BY <2>1, <2>2, <2>3, <2>4, Values DEF TaskInOnePlace
<1> QED
  BY <1>3, <1>4, <1>5, <1>6, <1>7, <1>8

LEMMA Inductive == LInv /\ [Next]_vars => LInv'
<1> SUFFICES ASSUME LInv, [Next]_vars PROVE LInv'
  OBVIOUS
<1>1. ASSUME NEW w \in WebThreads,
             \/ Begin(w) \/ Attach(w) \/ Publish(w) \/ RunEagerly(w) \/ RanEagerly(w)
             \/ Detach(w) \/ Respond(w) \/ End(w)
      PROVE  LInv'
  BY <1>1, BeginLInv, AttachLInv, PublishLInv, RunEagerlyLInv, RanEagerlyLInv,
     DetachLInv, RespondLInv, EndLInv
<1>2. ASSUME NEW x \in Workers, Start(x) \/ Finish(x) PROVE LInv'
  BY <1>2, StartLInv, FinishLInv
<1>3. CASE Restart(WebThreads) \/ Restart(Workers)
  BY <1>3, RestartLInv
<1>4. CASE UNCHANGED vars
  BY <1>4 DEF vars, settings, Claimed, Carried, LInv, TypeOK, TokenKept, WebThreadOK, WorkerOK, MessageOK,
     TokenOK, TaskInOnePlace, setup_telemetry
<1> QED
  BY <1>1, <1>2, <1>3, <1>4 DEF Next

-----------------------------------------------------------------------------
(***************************************************************************)
(* The theorems.                                                           *)
(***************************************************************************)
\* The context variables and the baggage of every thread are those of the
\* request and task it serves.
THEOREM ContextInvariant == Spec => []LInv
BY InitLInv, Inductive, PTL DEF Spec

\* Types, and a token exactly for each running task.
THEOREM ContextTypes == Spec => []TypeOK
<1>1. LInv => TypeOK
  BY DEF LInv
<1> QED
  BY <1>1, ContextInvariant, PTL

\* What a request logs outside of a task, and the id in its error body, are its
\* own or its own client's: the middleware's tokens and a task run inside it see
\* to that.
THEOREM RequestsLogAsThemselves == Spec => []RequestRecords
<1>1. LInv => RequestRecords
  <2> SUFFICES ASSUME LInv, NEW w \in WebThreads, web[w].pc \notin {"idle", "running"}
               PROVE  LET own == Identity(web[w].req)
                          claimed == Claimed(web[w].req)
                      IN /\ Record(w).id = own.id /\ ctx[w].id = own.id
                         /\ Record(w).user \in {own.user, claimed.user}
                         /\ Record(w).firm \in {own.firm, claimed.firm}
                         /\ (web[w].pc = "logging" \/ (web[w].pc \in {"attached", "published"} /\ packages))
                              => Record(w) = Overlay(own, claimed)
    BY DEF RequestRecords
  <2> DEFINE own == Identity(web[w].req)
             claimed == Claimed(web[w].req)
             named == web[w].pc = "logging" \/ (web[w].pc \in {"attached", "published"} /\ packages)
  <2>1. /\ WebThreadOK(w) /\ web[w].req \in Requests
        /\ own \in Context /\ claimed \in Context /\ own.id # None
    <3>1. WebThreadOK(w)
      BY DEF LInv
    <3>2. web[w].req \in Requests
      BY <3>1 DEF WebThreadOK
    <3> QED
      BY <3>1, <3>2, Values
  <2>2. /\ ctx[w].id = own.id
        /\ ctx[w].user = IF web[w].pc = "logging" THEN own.user ELSE None
        /\ ctx[w].firm = IF web[w].pc = "logging" THEN own.firm ELSE None
        /\ bag[w] = IF web[w].pc \in {"attached", "published"} /\ packages
                    THEN Overlay(own, claimed) ELSE claimed
    BY <2>1 DEF WebThreadOK, Carried
  <2>3. DOMAIN Empty = {"id", "user", "firm"}
    BY DEF Empty
  <2>4. ~packages => claimed = Empty
    BY DEF Claimed, setup_telemetry
  <2>5. /\ Overlay(own, claimed).id = own.id
        /\ Overlay(own, claimed).user = IF own.user = None THEN claimed.user ELSE own.user
        /\ Overlay(own, claimed).firm = IF own.firm = None THEN claimed.firm ELSE own.firm
    BY <2>1, Overlays
  <2>6. /\ Record(w).id = ctx[w].id
        /\ Record(w).user = IF ctx[w].user = None /\ packages THEN bag[w].user ELSE ctx[w].user
        /\ Record(w).firm = IF ctx[w].firm = None /\ packages THEN bag[w].firm ELSE ctx[w].firm
    BY <2>1, <2>2, <2>3 DEF Record
  <2> HIDE DEF own, claimed
  <2>7. /\ Record(w).id = own.id
        /\ Record(w).user \in {own.user, claimed.user}
        /\ Record(w).firm \in {own.firm, claimed.firm}
    BY <2>2, <2>4, <2>5, <2>6 DEF Empty
  <2>8. ASSUME named PROVE Record(w) = Overlay(own, claimed)
    <3>1. /\ Record(w).id = Overlay(own, claimed).id
          /\ Record(w).user = Overlay(own, claimed).user
          /\ Record(w).firm = Overlay(own, claimed).firm
      BY <2>2, <2>4, <2>5, <2>6, <2>8 DEF Empty
    <3>2. /\ Record(w) = [f \in {"id", "user", "firm"} |-> Record(w)[f]]
          /\ Overlay(own, claimed) = [f \in {"id", "user", "firm"} |-> Overlay(own, claimed)[f]]
      BY <2>3 DEF Record, Overlay
    <3>3. \A f \in {"id", "user", "firm"} : Record(w)[f] = Overlay(own, claimed)[f]
      BY <3>1
    <3> QED
      BY <3>2, <3>3
  <2> QED
    BY <2>2, <2>7, <2>8 DEF own, claimed
<1> QED
  BY <1>1, ContextInvariant, PTL

\* What a task logs names nobody but the user whose request queued it, and no
\* firm but that user's or, for a user without one, the client's.
THEOREM TasksLogForTheirTrigger == Spec => []TaskRecords
<1>1. LInv => TaskRecords
  <2> SUFFICES ASSUME LInv, NEW t \in OsThreads, job[t] # None
               PROVE  LET r == trigger[job[t]]
                          carried == IF t \in WebThreads THEN packages
                                     ELSE setup_telemetry("web") /\ setup_telemetry("worker")
                      IN /\ Record(t).id = job[t]
                         /\ Record(t).user = IF carried THEN r.user ELSE None
                         /\ Record(t).firm = IF carried THEN Overlay(Identity(r), Claimed(r)).firm
                                                       ELSE None
    BY DEF TaskRecords
  <2> DEFINE r == trigger[job[t]]
  <2>1. DOMAIN Empty = {"id", "user", "firm"} /\ Empty.user = None /\ Empty.firm = None
    BY DEF Empty
  <2>2. ctx[t].id = job[t] /\ ctx[t].user = None /\ ctx[t].firm = None
    <3>1. CASE t \in WebThreads
      BY <3>1 DEF LInv, WebThreadOK
    <3>2. CASE t \in Workers
      <4>1. WorkerOK(t)
        BY <3>2 DEF LInv
      <4> QED
        BY <4>1 DEF WorkerOK
    <3> QED
      BY <3>1, <3>2 DEF OsThreads
  <2>3. /\ Record(t).id = job[t]
        /\ Record(t).user = IF packages THEN bag[t].user ELSE None
        /\ Record(t).firm = IF packages THEN bag[t].firm ELSE None
    BY <2>1, <2>2 DEF Record
  <2>4. r \in Requests /\ r.user # None
    <3>1. TokenOK(t)
      BY DEF LInv
    <3> QED
      BY <3>1 DEF TokenOK
  <2>5. Carried(r).user = r.user
    BY <2>4, CarriedTypes
  <2>6. CASE t \in WebThreads
    <3>1. packages => bag[t] = Carried(r)
      BY <2>6 DEF LInv, WebThreadOK
    <3> QED
      BY <2>3, <2>5, <2>6, <3>1 DEF Carried
  <2>7. CASE t \in Workers
    <3>1. bag[t] = IF setup_telemetry("web") /\ setup_telemetry("worker")
                   THEN Carried(r) ELSE Empty
      BY <2>7 DEF LInv, WorkerOK
    <3> QED
      BY <2>1, <2>3, <2>5, <2>7, <3>1, ProcessAssumption DEF setup_telemetry, Carried
  <2> QED
    BY <2>6, <2>7 DEF OsThreads
<1> QED
  BY <1>1, ContextInvariant, PTL

\* A thread is clean when it takes its next request or task.
THEOREM ThreadsAreCleaned == Spec => []CleanThreads
<1>1. LInv => CleanThreads
  <2> SUFFICES ASSUME LInv, NEW t \in OsThreads,
                      IF t \in WebThreads THEN web[t].pc = "idle" ELSE job[t] = None
               PROVE  ctx[t] = Empty /\ bag[t] = Empty
    BY DEF CleanThreads
  <2>1. CASE t \in WebThreads
    <3>1. ctx[t] \in Context
      BY DEF LInv, TypeOK
    <3>2. ctx[t].id = None /\ ctx[t].user = None /\ ctx[t].firm = None /\ bag[t] = Empty
      BY <2>1 DEF LInv, WebThreadOK
    <3> QED
      BY <3>1, <3>2 DEF Context, Empty
  <2>2. CASE t \in Workers /\ t \notin WebThreads
    BY <2>2 DEF LInv, WorkerOK, Empty
  <2> QED
    BY <2>1, <2>2 DEF OsThreads
<1> QED
  BY <1>1, ContextInvariant, PTL
==============================================================================
