-------------------------------- MODULE Seeding --------------------------------
(***************************************************************************)
(* The command seed_data.  A run writes everything in one transaction; the *)
(* runs, each with options of its own, follow one another or overlap.      *)
(*                                                                         *)
(* A firm's name, an accountant's email and external_thread_id are unique; *)
(* a client's email within the firm is not.  DATABASE_URL may name either  *)
(* engine.  PostgreSQL lets a transaction see what is committed and its    *)
(* own rows, and has an insert wait for whoever has the same unique key    *)
(* pending.  SQLite lets one transaction write at a time, and it commits   *)
(* when no other is reading; whoever waits too long is told that the       *)
(* database is locked.                                                     *)
(***************************************************************************)
EXTENDS Integers, Sequences, FiniteSets, FiniteSetsExt

CONSTANTS
  MaxRuns,     \* bound on the runs of a scenario
  Engines,     \* a subset of {"postgres", "sqlite"}
  Scenarios    \* sequences of command lines, in the order in which they begin

Runs == 1..MaxRuns

ASSUME MaxRunsAssumption == MaxRuns \in Nat
ASSUME EnginesAssumption == Engines \subseteq {"postgres", "sqlite"}

\* The three options, and the names that fake.company() gives in the run.
Options(o) ==
  /\ o.size \in [firms : Nat, clients_per_firm : Nat, threads_per_firm : Nat]
  /\ o.size.firms <= Len(o.names)

ASSUME ScenariosAssumption ==
  \A scenario \in Scenarios :
    Len(scenario) <= MaxRuns /\ \A r \in DOMAIN scenario : Options(scenario[r])

VARIABLES
  engine,    \* of DATABASE_URL
  db,        \* the committed rows
  pending,   \* [Runs -> rows]: what each transaction has inserted
  phase,     \* [Runs -> Phases]
  opts,      \* the scenario: the options of each run
  todo,      \* [Runs -> Seq(items)]: what the run has still to see to
  before     \* [Runs -> SUBSET Runs]: those that had ended as it began (history)

vars == <<engine, db, pending, phase, opts, todo, before>>

Phases == {"idle", "running", "creating", "committed", "failed", "killed"}
Ended == {"committed", "failed", "killed"}
Running(r) == phase[r] \in {"running", "creating"}

Init ==
  /\ engine \in Engines
  /\ opts \in Scenarios
  /\ db = {}
  /\ pending = [r \in Runs |-> {}]
  /\ phase = [r \in Runs |-> "idle"]
  /\ todo = [r \in Runs |-> <<>>]
  /\ before = [r \in Runs |-> {}]

-----------------------------------------------------------------------------
(***************************************************************************)
(* What a run sees to, in order.  The dicts of accountants and clients are *)
(* keyed by firm: a name that comes again replaces the entry but keeps its *)
(* place, and the threads are numbered by place.                           *)
(***************************************************************************)
Item(table, key, firm, client) ==
  [table |-> table, key |-> key, firm |-> firm, client |-> client]

_seed_superuser == <<Item("superuser", <<>>, "", <<>>)>>
_seed_firms(o) ==
  [i \in 1..o.size.firms |-> Item("firm", <<o.names[i]>>, o.names[i], <<>>)]

\* The accountants firm<i>_* come and go together: one row stands for the six.
_seed_accountants(o) ==
  [i \in 1..o.size.firms |-> Item("accountants", <<i>>, o.names[i], <<>>)]

_seed_clients(o) ==
  LET per_firm == o.size.clients_per_firm
  IN  [k \in 1..(o.size.firms * per_firm) |->
         LET i == (k - 1) \div per_firm + 1
         IN  Item("client", <<i, (k - 1) % per_firm>>, o.names[i], <<>>)]

FirstIndexes(o) ==
  {i \in 1..o.size.firms : \A j \in 1..(i - 1) : o.names[j] # o.names[i]}
FirmAt(place, o) ==
  o.names[CHOOSE i \in FirstIndexes(o) :
            Cardinality({j \in FirstIndexes(o) : j <= i}) = place]
LastIndex(firm, o) == Max({i \in 1..o.size.firms : o.names[i] = firm})

\* Thread t of the firm at `place`, with its messages, for a client in turn.
ThreadOf(o, place, t, firm) ==
  Item("thread", <<place, t>>, firm,
       IF o.size.clients_per_firm = 0 THEN <<>>
       ELSE <<LastIndex(FirmAt(place, o), o), t % o.size.clients_per_firm>>)

_seed_threads_by_index(o) ==        \* variant: the firm is firms[firm_idx]
  LET per_firm == o.size.threads_per_firm
  IN  [k \in 1..(Cardinality(FirstIndexes(o)) * per_firm) |->
         LET place == (k - 1) \div per_firm + 1
         IN  ThreadOf(o, place, (k - 1) % per_firm, o.names[place])]

_seed_threads(o) ==
  LET per_firm == o.size.threads_per_firm
  IN  [k \in 1..(Cardinality(FirstIndexes(o)) * per_firm) |->
         LET place == (k - 1) \div per_firm + 1
         IN  ThreadOf(o, place, (k - 1) % per_firm, FirmAt(place, o))]

Items_firms_reversed(r) ==          \* variant: one run takes the firms backwards
  LET o == opts[r]
      firms == _seed_firms(o)
      n == Len(firms)
  IN  _seed_superuser
        \o (IF r = 2 THEN [i \in 1..n |-> firms[n + 1 - i]] ELSE firms)
        \o _seed_accountants(o) \o _seed_clients(o) \o _seed_threads(o)

\* handle.
Items(r) ==
  LET o == opts[r]
  IN  _seed_superuser \o _seed_firms(o) \o _seed_accountants(o)
        \o _seed_clients(o) \o _seed_threads(o)

-----------------------------------------------------------------------------
(***************************************************************************)
(* The database.                                                           *)
(***************************************************************************)
Visible(r) == db \cup pending[r]

\* A lookup finds clients by firm and email, everything else by a unique key.
Same(a, b) ==
  a.table = b.table /\ a.key = b.key /\ (a.table = "client" => a.firm = b.firm)
Found(r, item) == {row \in Visible(r) : Same(row.item, item)}

\* Another transaction that an insert has to wait for.
Waits(r, item) ==
  \E other \in Runs \ {r} :
    IF engine = "sqlite" THEN pending[other] # {}
    ELSE item.table # "client" /\ \E row \in pending[other] : Same(row.item, item)

Fail_open(r) ==                     \* variant: the transaction is left open
  /\ phase' = [phase EXCEPT ![r] = "failed"]
  /\ UNCHANGED <<engine, db, pending, opts, todo, before>>

\* An exception leaves the command; transaction.atomic rolls back.
Fail(r) ==
  /\ phase' = [phase EXCEPT ![r] = "failed"]
  /\ pending' = [pending EXCEPT ![r] = {}]
  /\ UNCHANGED <<engine, db, opts, todo, before>>

\* r is at an item of one of these tables.
At(r, tables) == phase[r] = "running" /\ todo[r] # <<>> /\ Head(todo[r]).table \in tables

\* A transaction of SQLite holds its lock from the first lookup on.
Reading(r) == Running(r) /\ ~At(r, {"superuser"})

Locked(r) == engine = "sqlite" /\ Fail(r)

Insert(r, item) ==
  IF Waits(r, item) THEN Locked(r)
  ELSE /\ pending' = [pending EXCEPT ![r] = @ \cup {[item |-> item, by |-> r]}]
       /\ phase' = [phase EXCEPT ![r] = "running"]
       /\ todo' = [todo EXCEPT ![r] = Tail(@)]
       /\ UNCHANGED <<engine, db, opts, before>>

Skip(r) ==
  /\ todo' = [todo EXCEPT ![r] = Tail(@)]
  /\ UNCHANGED <<engine, db, pending, phase, opts, before>>

-----------------------------------------------------------------------------
(***************************************************************************)
(* The steps of a run.                                                     *)
(***************************************************************************)
Start(r) ==
  /\ r \in DOMAIN opts /\ phase[r] = "idle"
  /\ \A q \in 1..(r - 1) : phase[q] # "idle"
  /\ todo' = [todo EXCEPT ![r] = Items(r)]
  /\ phase' = [phase EXCEPT ![r] = "running"]
  /\ before' = [before EXCEPT ![r] = {o \in Runs : phase[o] \in Ended}]
  /\ UNCHANGED <<engine, db, pending, opts>>

get_or_create_blindly(r) ==         \* variant: create without get
  /\ At(r, {"superuser", "firm", "accountants", "client"})
  /\ LET item == Head(todo[r])
     IN  IF item.table # "client" /\ Found(r, item) # {} THEN Skip(r)
         ELSE Insert(r, item)

get_or_create(r) ==
  /\ At(r, {"superuser", "firm", "accountants", "client"})
  /\ LET item == Head(todo[r])
     IN  CASE Cardinality(Found(r, item)) = 1 -> Skip(r)
           [] Cardinality(Found(r, item)) > 1 -> Fail(r)   \* MultipleObjectsReturned
           [] OTHER -> Insert(r, item)

ThreadExists_stops(r) ==            \* variant: break for continue
  /\ At(r, {"thread"})
  /\ LET item == Head(todo[r])
     IN  IF item.client = <<>> THEN Fail(r)
         ELSE IF Found(r, item) # {}
           THEN /\ todo' = [todo EXCEPT ![r] = <<>>]
                /\ UNCHANGED <<engine, db, pending, phase, opts, before>>
         ELSE /\ phase' = [phase EXCEPT ![r] = "creating"]
              /\ UNCHANGED <<engine, db, pending, opts, todo, before>>

ThreadExists_untested(r) ==         \* variant: no existence test
  /\ At(r, {"thread"})
  /\ IF Head(todo[r]).client = <<>> THEN Fail(r)
     ELSE /\ phase' = [phase EXCEPT ![r] = "creating"]
          /\ UNCHANGED <<engine, db, pending, opts, todo, before>>

\* The existence test, and before it the division by the number of clients.
ThreadExists(r) ==
  /\ At(r, {"thread"})
  /\ LET item == Head(todo[r])
     IN  IF item.client = <<>> THEN Fail(r)
         ELSE IF Found(r, item) # {} THEN Skip(r)
         ELSE /\ phase' = [phase EXCEPT ![r] = "creating"]
              /\ UNCHANGED <<engine, db, pending, opts, todo, before>>

\* EmailThread.objects.create: an IntegrityError if the key is there by now.
CreateThread(r) ==
  /\ phase[r] = "creating"
  /\ LET item == Head(todo[r])
     IN  IF Found(r, item) # {} THEN Fail(r) ELSE Insert(r, item)

\* The with block ends.
Commit(r) ==
  /\ phase[r] = "running" /\ todo[r] = <<>>
  /\ IF /\ engine = "sqlite" /\ pending[r] # {}
        /\ \E other \in Runs \ {r} : Reading(other)
       THEN Locked(r)
       ELSE /\ db' = db \cup pending[r]
            /\ pending' = [pending EXCEPT ![r] = {}]
            /\ phase' = [phase EXCEPT ![r] = "committed"]
            /\ UNCHANGED <<engine, opts, todo, before>>

\* The process is killed, loses the database, or is aborted in a deadlock.
Kill(r) ==
  /\ Running(r)
  /\ phase' = [phase EXCEPT ![r] = "killed"]
  /\ pending' = [pending EXCEPT ![r] = {}]
  /\ UNCHANGED <<engine, db, opts, todo, before>>

Step(r) == get_or_create(r) \/ ThreadExists(r) \/ CreateThread(r) \/ Commit(r)

Next == \E r \in Runs : Start(r) \/ Step(r) \/ Kill(r)

Spec == Init /\ [][Next]_vars

\* A run that can go on does; nobody has to start one.
FairSpec == Spec /\ \A r \in Runs : WF_vars(Step(r))

-----------------------------------------------------------------------------
(***************************************************************************)
(* Properties.                                                             *)
(***************************************************************************)
Started(r) == phase[r] # "idle"
Overlap(a, b) ==
  a # b /\ Started(a) /\ Started(b) /\ a \notin before[b] /\ b \notin before[a]
Twice(a, b) == a # b /\ a.item.table = "client" /\ Same(a.item, b.item)

\* b asks for no more than a did.
Covers(a, b) ==
  /\ opts[a].names = opts[b].names
  /\ \A o \in DOMAIN opts[b].size : opts[b].size[o] <= opts[a].size[o]

\* r asks for threads and no clients: t_idx % len(clients) raises.
NoClients(r) == opts[r].size.clients_per_firm = 0 /\ opts[r].size.threads_per_firm > 0

\* The type of every variable; what must be unique is, and only a run under
\* way has rows pending.
TypeOK ==
  /\ engine \in Engines
  /\ phase \in [Runs -> Phases]
  /\ opts \in Scenarios
  /\ before \in [Runs -> SUBSET Runs]
  /\ \A a, b \in db : a # b /\ Same(a.item, b.item) => a.item.table = "client"
  /\ \A r \in Runs : pending[r] # {} => Running(r) /\ \A row \in pending[r] : row.by = r

\* A run that asks for no more than one that had committed before it began
\* adds nothing, whatever runs beside it, and fails only for want of clients or
\* over one that is there twice.
RerunAddsNothing ==
  \A r \in Runs :
    (\E a \in before[r] : phase[a] = "committed" /\ Covers(a, r)) =>
      /\ pending[r] = {}
      /\ phase[r] = "failed" => NoClients(r) \/ \E a, b \in db : Twice(a, b)

\* Once a run has committed, everything it asked for is there, whoever made
\* it and whatever sizes came before.
Complete ==
  \A r \in Runs : phase[r] = "committed" =>
    \A k \in 1..Len(Items(r)) : \E row \in db : Same(row.item, Items(r)[k])

\* A thread is of the firm of its client, also where two firms came out with
\* one name; the accountants of its messages are of that firm too, as long as
\* every run met the same names.
ThreadsStayInFirm ==
  \A row \in db : row.item.table = "thread" =>
    LET firm == row.item.firm
        client == row.item.client
    IN /\ \E c \in db : /\ c.item.table = "client"
                        /\ c.item.key = client /\ c.item.firm = firm
       /\ (\A r \in Runs : Started(r) => opts[r].names = opts[row.by].names) =>
            \E a \in db : /\ a.item.table = "accountants"
                          /\ a.item.key = <<client[1]>> /\ a.item.firm = firm

\* Only two PostgreSQL runs that overlap leave a client there twice, and never
\* while one of them makes the firm: the firm's unique name keeps them apart.
TwiceOnlyByOverlap ==
  \A a, b \in db : Twice(a, b) =>
    /\ engine = "postgres" /\ Overlap(a.by, b.by)
    /\ \A f \in db : f.item.table = "firm" /\ f.item.firm = a.item.firm
                       => f.by \notin {a.by, b.by}

\* As long as the runs keep out of each other's way, none fails but one that
\* asks for threads and no clients.
AloneSucceeds ==
  (\A a, b \in Runs : ~Overlap(a, b)) =>
    \A r \in Runs : phase[r] = "failed" => NoClients(r)

\* The firms of every run come in an order that suits all of them.
OneOrder ==
  LET names == UNION {{opts[r].names[i] : i \in DOMAIN opts[r].names} : r \in DOMAIN opts}
  IN  \E rank \in [names -> 1..Cardinality(names)] :
        \A r \in DOMAIN opts : \A i, j \in FirstIndexes(opts[r]) :
          i < j => rank[opts[r].names[i]] < rank[opts[r].names[j]]

\* No run waits for ever, as long as all take their firms in one order: that is
\* enough, whatever their sizes, for accountants and threads to follow suit.
\* Runs that do not (the lists of names come from different versions of Faker)
\* may wait for each other until PostgreSQL aborts one, which Kill stands for.
EveryRunEnds == OneOrder => \A r \in Runs : []<>~Running(r)
==============================================================================
