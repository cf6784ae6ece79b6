---------------------------- MODULE VllmServer ----------------------------
(***************************************************************************)
(* The inference servers of a training server                              *)
(* (server/patches/vllm_server_actor.py).  Each server is a Ray actor, a   *)
(* process of its own on one node: it reserves a port, gives the           *)
(* reservation up right before it binds again, loads the engine, and polls *)
(* /health until it answers.  Serving and polling are two coroutines of    *)
(* one event loop.  Once every server is up the trainer writes an adapter  *)
(* to the one lora_sync_path, has every server load it under the one       *)
(* adapter name, and samples.                                              *)
(*                                                                         *)
(* Weights are numbered by the save that wrote them.  A training job may   *)
(* be stopped at any point and another one started on the same servers.    *)
(***************************************************************************)
EXTENDS Integers, FiniteSets, FiniteSetsExt

CONSTANTS
  Servers,     \* server_idx of the group
  Ports,       \* ports of the node a search from start_port may find
  Offset,      \* SKYRL_VLLM_DP_PORT_OFFSET
  Grouped,     \* choices of dp_size > 0
  MaxPolls,    \* the health timeout, in polls
  Slots,       \* adapters an engine keeps (max_loras)
  Requests,    \* sampling requests of a job, at most at one time
  MaxSaves,    \* bound: adapters saved by all jobs together
  MaxJobs,     \* bound: training jobs on these servers
  Other,       \* any other process of the node
  None

ASSUME VllmAssumption ==
  /\ IsFiniteSet(Servers) /\ Servers \subseteq Nat /\ 0 \in Servers
  /\ IsFiniteSet(Ports) /\ Ports \subseteq Nat
  /\ Cardinality(Ports) >= Cardinality(Servers)
  /\ Offset \in Nat \ {0} /\ Grouped \subseteq BOOLEAN
  /\ MaxPolls \in Nat \ {0} /\ Slots \in Nat \ {0}
  /\ MaxSaves \in Nat /\ MaxJobs \in Nat \ {0}
  /\ None \notin Nat /\ Other \notin Nat /\ Other # None

VARIABLES
  dp,        \* whether the servers form a data-parallel group
  port,      \* server -> _port, None before __init__
  master,    \* server -> data_parallel_rpc_port, or None
  socket,    \* port -> who holds it, reserved or bound, or None
  task,      \* server -> progress of _run_server
  waiter,    \* server -> progress of start(); "asked": a GET is in flight
  polls,     \* server -> health polls that failed
  answeredBy,\* server -> whose /health ended its start(), or None
  disk,      \* number of the adapter at lora_sync_path, 0 without
  registered,\* server -> lora_int_id of lora_requests[name], 0 without
  counter,   \* server -> lora_id_counter
  resident,  \* server -> the engine's adapters, lora_int_id -> weights
  call,      \* server -> save -> load_lora_adapter call: progress, lora_int_id
  lock,      \* server -> save whose call holds lora_resolver_lock, or None
  jobs,      \* training jobs started so far
  trainer,   \* "save", "reload" or "sample"
  request    \* request -> its state

boot == <<dp, port, master, socket, task, waiter, polls, answeredBy>>
engines == <<registered, counter, resident>>
calls == <<call, lock>>
job == <<disk, jobs, trainer>>
vars == <<boot, engines, calls, job, request>>

Saves == 1..MaxSaves

NoRequest == [at |-> None, id |-> 0, want |-> 0, used |-> {},
              step |-> "free", awaited |-> FALSE]

Init ==
  /\ dp \in Grouped
  /\ port = [s \in Servers |-> None] /\ master = [s \in Servers |-> None]
  /\ socket = [p \in Ports |-> None]
  /\ task = [s \in Servers |-> "none"] /\ waiter = [s \in Servers |-> "none"]
  /\ polls = [s \in Servers |-> 0]
  /\ answeredBy = [s \in Servers |-> None]
  /\ disk = 0 /\ jobs = 1 /\ trainer = "save"
  /\ registered = [s \in Servers |-> 0] /\ counter = [s \in Servers |-> 0]
  /\ resident = [s \in Servers |-> [i \in {} |-> 0]]
  /\ call = [s \in Servers |-> [v \in Saves |-> [step |-> "none", id |-> 0]]]
  /\ lock = [s \in Servers |-> None]
  /\ request = [r \in Requests |-> NoRequest]

-----------------------------------------------------------------------------
(* Starting *)

Free == { p \in Ports : socket[p] = None }

\* get_dp_info of server 0, None before it exists.
DpInfo == IF port[0] = None THEN None ELSE port[0] + Offset

\* __init__: the port is reserved by a bound socket; a data-parallel server
\* without its master, or with the wrong number of bundles, raises, and its
\* reservation goes with the process.
Construct(s) ==
  /\ task[s] = "none" /\ Free # {}
  /\ LET p == Min(Free)
         rpc == IF ~dp THEN None ELSE IF s = 0 THEN p + Offset ELSE DpInfo
     IN  \/ /\ ~(dp /\ rpc = None)
            /\ port' = [port EXCEPT ![s] = p]
            /\ master' = [master EXCEPT ![s] = rpc]
            /\ socket' = [socket EXCEPT ![p] = s]
            /\ task' = [task EXCEPT ![s] = "reserved"]
         \/ /\ task' = [task EXCEPT ![s] = "rejected"]
            /\ UNCHANGED <<port, master, socket>>
  /\ UNCHANGED <<dp, waiter, polls, answeredBy, engines, calls, job, request>>

\* start(): the server task is created, but runs only when start() waits for
\* its first GET, before which it has looked at the task.
Start(s) ==
  /\ task[s] = "reserved" /\ waiter[s] = "none"
  /\ waiter' = [waiter EXCEPT ![s] = "asked"]
  /\ UNCHANGED <<dp, port, master, socket, task, polls, answeredBy, engines,
                 calls, job, request>>

\* _run_server gives the reservation up ...
ReleasePort(s) ==
  /\ task[s] = "reserved" /\ waiter[s] # "none"
  /\ socket' = [socket EXCEPT ![port[s]] = None]
  /\ task' = [task EXCEPT ![s] = "released"]
  /\ UNCHANGED <<dp, port, master, waiter, polls, answeredBy, engines, calls,
                 job, request>>

\* The same with another port in the place of one that is taken.
Bind_FallsBack(s) ==
  /\ task[s] = "released"
  /\ \E p \in {port[s]} \union Free :
       /\ socket[p] = None /\ (socket[port[s]] = None => p = port[s])
       /\ socket' = [socket EXCEPT ![p] = s]
  /\ task' = [task EXCEPT ![s] = "loading"]
  /\ UNCHANGED <<dp, port, master, waiter, polls, answeredBy, engines, calls,
                 job, request>>

\* ... and binds again, unless another process was faster.
Bind(s) ==
  /\ task[s] = "released"
  /\ IF socket[port[s]] = None
     THEN /\ socket' = [socket EXCEPT ![port[s]] = s]
          /\ task' = [task EXCEPT ![s] = "loading"]
     ELSE /\ task' = [task EXCEPT ![s] = "raised"]
          /\ UNCHANGED socket
  /\ UNCHANGED <<dp, port, master, waiter, polls, answeredBy, engines, calls,
                 job, request>>

\* Another process takes a port a server has given up, and answers on it.
Squat(p) ==
  /\ socket[p] = None /\ \E s \in Servers : port[s] = p
  /\ socket' = [socket EXCEPT ![p] = Other]
  /\ UNCHANGED <<dp, port, master, task, waiter, polls, answeredBy, engines,
                 calls, job, request>>

\* from_engine_args returns, then init_app_state and uvicorn's start-up, both
\* awaited, until the socket is served.
EngineUp(s) ==
  /\ task[s] = "loading"
  /\ task' = [task EXCEPT ![s] = "starting"]
  /\ UNCHANGED <<dp, port, master, socket, waiter, polls, answeredBy, engines,
                 calls, job, request>>

Serve(s) ==
  /\ task[s] = "starting"
  /\ task' = [task EXCEPT ![s] = "serving"]
  /\ UNCHANGED <<dp, port, master, socket, waiter, polls, answeredBy, engines,
                 calls, job, request>>

Waiting == {"asked", "asleep"}

\* Loading raises, or the server ends by itself while start() still waits.
TaskEnds(s) ==
  /\ task[s] \in {"loading", "starting", "serving"} /\ waiter[s] \in Waiting
  /\ task' = [task EXCEPT ![s] = "raised"]
  /\ socket' = [socket EXCEPT ![port[s]] = None]
  /\ UNCHANGED <<dp, port, master, waiter, polls, answeredBy, engines, calls,
                 job, request>>

\* _run_server does not yield before the engine is up: until then nothing else
\* of the actor runs, neither the poll nor its deadline.
LoopFree(s) == task[s] \notin {"reserved", "released", "loading"}

\* Who answers on a port: the server that holds it and serves, or a stranger.
Answering(p) ==
  { t \in Servers \union {Other} :
      socket[p] = t /\ (t \in Servers => task[t] = "serving") }

TaskFailed(s) == task[s] \in {"raised", "cancelled"}

\* A GET comes back with a 200: start() returns without another look at the
\* task.
Healthy(s) ==
  /\ waiter[s] = "asked" /\ LoopFree(s)
  /\ \E t \in Answering(port[s]) : answeredBy' = [answeredBy EXCEPT ![s] = t]
  /\ waiter' = [waiter EXCEPT ![s] = "healthy"]
  /\ UNCHANGED <<dp, port, master, socket, task, polls, engines, calls, job,
                 request>>

AfterRefusal_NoDeadline(s) == {"asleep"}

\* The deadline has passed, at the latest after MaxPolls polls, or not.
AfterRefusal(s) ==
  {"timeout"} \union (IF polls[s] + 1 < MaxPolls THEN {"asleep"} ELSE {})

\* It is refused, or gives up after its own five seconds.
Refused(s) ==
  /\ waiter[s] = "asked" /\ LoopFree(s)
  /\ \E w \in AfterRefusal(s) : waiter' = [waiter EXCEPT ![s] = w]
  /\ polls' = [polls EXCEPT ![s] = IF @ < MaxPolls THEN @ + 1 ELSE @]
  /\ UNCHANGED <<dp, port, master, socket, task, answeredBy, engines, calls,
                 job, request>>

\* The next turn of the loop: a task that is done ends start(), otherwise the
\* next GET is sent.
NextTurn(s) ==
  /\ waiter[s] = "asleep" /\ LoopFree(s)
  /\ waiter' = [waiter EXCEPT ![s] = IF TaskFailed(s) THEN "raised" ELSE "asked"]
  /\ UNCHANGED <<dp, port, master, socket, task, polls, answeredBy, engines,
                 calls, job, request>>

\* shutdown(): cancels the task that start() created; one that has raised
\* already raises here again.  Bound: before the first adapter is saved; later
\* it only stops what follows.
Shutdown(s) ==
  /\ disk = 0
  /\ waiter[s] # "none" /\ task[s] \in {"reserved", "starting", "serving"}
  /\ socket' = [socket EXCEPT ![port[s]] = None]
  /\ task' = [task EXCEPT ![s] = "cancelled"]
  /\ UNCHANGED <<dp, port, master, waiter, polls, answeredBy, engines, calls,
                 job, request>>

GroupUp == \A s \in Servers : waiter[s] = "healthy" /\ task[s] = "serving"

-----------------------------------------------------------------------------
(* Adapters *)

\* A resident adapter more; the engine drops others when its slots are full.
Loaded(adapters, id, weights) ==
  { [i \in keep \union {id} |-> IF i = id THEN weights ELSE adapters[i]] :
      keep \in kSubset(Min({Slots - 1, Cardinality(DOMAIN adapters \ {id})}),
                       DOMAIN adapters \ {id}) }

Evicted(adapters, id) == [i \in DOMAIN adapters \ {id} |-> adapters[i]]

Step(s, v, from, to, id) ==
  /\ call[s][v].step = from
  /\ call' = [call EXCEPT ![s][v] = [step |-> to, id |-> id]]

MayEnter(s, v) == lock[s] = None

\* load_lora_adapter takes the lock of the name and removes the adapter that
\* is registered; a failure to remove it is only logged.
Remove(s, v) ==
  /\ Step(s, v, "sent", "removed", 0)
  /\ MayEnter(s, v)
  /\ lock' = [lock EXCEPT ![s] = v]
  /\ \/ resident' = [resident EXCEPT ![s] = Evicted(@, registered[s])]
     \/ registered[s] # 0 /\ UNCHANGED resident
  /\ UNCHANGED <<boot, registered, counter, job, request>>

NewId_Reused(s) == IF registered[s] = 0 THEN counter[s] + 1 ELSE registered[s]

\* lora_id_counter.inc(1)
NewId(s) == counter[s] + 1

\* add_lora under a fresh id: the engine reads what is on disk now, unless the
\* id is resident already; a failure is only logged.
Add(s, v) ==
  /\ Step(s, v, "removed", "added", NewId(s))
  /\ counter' = [counter EXCEPT ![s] = NewId(s)]
  /\ \/ /\ NewId(s) \notin DOMAIN resident[s]
        /\ \E a \in Loaded(resident[s], NewId(s), disk) :
             resident' = [resident EXCEPT ![s] = a]
     \/ UNCHANGED resident
  /\ UNCHANGED <<boot, registered, lock, job, request>>

\* The name now means the new id, loaded or not; then list_loras, the lock is
\* released, and the answer is "ok" in every case.
Register(s, v) ==
  /\ Step(s, v, "added", "replied", call[s][v].id)
  /\ registered' = [registered EXCEPT ![s] = call[s][v].id]
  /\ lock' = [lock EXCEPT ![s] = None]
  /\ UNCHANGED <<boot, counter, resident, job, request>>

-----------------------------------------------------------------------------
(* The training job and its requests *)

Awaited == { r \in Requests : request[r].awaited /\ request[r].step = "running" }

\* save_weights_and_get_sampling_client, first half: the adapter is written
\* over the previous one.  train_rl has awaited every future by then.
Save ==
  /\ GroupUp /\ trainer \in {"save", "sample"}
  /\ Awaited = {} /\ disk < MaxSaves
  /\ disk' = disk + 1
  /\ trainer' = "reload"
  /\ call' = [s \in Servers |-> [call[s] EXCEPT ![disk + 1].step = "sent"]]
  /\ request' = [r \in Requests |->
                   IF request[r].step = "running" THEN request[r] ELSE NoRequest]
  /\ UNCHANGED <<boot, engines, lock, jobs>>

\* ... second half: every server has answered.
Reloaded ==
  /\ trainer = "reload"
  /\ \A s \in Servers : call[s][disk].step = "replied"
  /\ trainer' = "sample"
  /\ UNCHANGED <<boot, engines, calls, disk, jobs, request>>

\* A sampling request: the server resolves the name to an id once.
Ask(r, s) ==
  /\ trainer = "sample" /\ request[r].step = "free"
  /\ request' = [request EXCEPT ![r] =
       [at |-> s, id |-> registered[s], want |-> disk, used |-> {},
        step |-> "running", awaited |-> TRUE]]
  /\ UNCHANGED <<boot, engines, calls, job>>

\* The engine decodes with the adapter of that id, and loads it from the path
\* it was registered with when it is not resident.
Decode(r) ==
  /\ request[r].step = "running"
  /\ LET s == request[r].at
         id == request[r].id
     IN  IF id \in DOMAIN resident[s]
         THEN /\ request' = [request EXCEPT ![r].used = @ \union {resident[s][id]}]
              /\ UNCHANGED resident
         ELSE /\ \E a \in Loaded(resident[s], id, disk) :
                   resident' = [resident EXCEPT ![s] = a]
              /\ UNCHANGED request
  /\ UNCHANGED <<boot, registered, counter, calls, job>>

\* The generation ends.
Answer(r) ==
  /\ request[r].step = "running" /\ request[r].used # {}
  /\ request' = [request EXCEPT ![r].step = "answered"]
  /\ UNCHANGED <<boot, engines, calls, job>>

\* The future fails on the side of the trainer; the server goes on.
Abandon(r) ==
  /\ r \in Awaited
  /\ request' = [request EXCEPT ![r].awaited = FALSE]
  /\ UNCHANGED <<boot, engines, calls, job>>

\* The job stops anywhere and another one starts: nothing is awaited any more,
\* the calls under way go on.
NewJob ==
  /\ GroupUp /\ jobs < MaxJobs
  /\ jobs' = jobs + 1 /\ trainer' = "save"
  /\ request' = [r \in Requests |-> [request[r] EXCEPT !.awaited = FALSE]]
  /\ UNCHANGED <<boot, engines, calls, disk>>

Boot(s) == \/ Construct(s) \/ Start(s) \/ ReleasePort(s) \/ Bind(s)
           \/ EngineUp(s) \/ Serve(s) \/ TaskEnds(s)
           \/ Healthy(s) \/ Refused(s) \/ NextTurn(s) \/ Shutdown(s)

Load(s) == \E v \in Saves : Remove(s, v) \/ Add(s, v) \/ Register(s, v)

Job == \/ Save \/ Reloaded \/ NewJob
       \/ \E r \in Requests : Abandon(r) \/ \E s \in Servers : Ask(r, s)

Sampling == \E r \in Requests : Decode(r) \/ Answer(r)

Next == \/ \E s \in Servers : Boot(s) \/ Load(s)
        \/ \E p \in Ports : Squat(p)
        \/ Job \/ Sampling

\* An actor's event loop runs the coroutine whose turn it is, a GET ends by its
\* own timeout and a sleep after a second.  Nothing makes an engine load.
Fairness ==
  \A s \in Servers : /\ WF_vars(ReleasePort(s)) /\ WF_vars(Bind(s))
                     /\ WF_vars(Healthy(s) \/ Refused(s)) /\ WF_vars(NextTurn(s))

Spec == Init /\ [][Next]_vars /\ Fairness

-----------------------------------------------------------------------------
(* Properties *)

\* start() "Blocks until server is healthy": the /health that ended the wait
\* was this server's own.
HealthyIsOwn == \A s \in Servers : answeredBy[s] \in {None, s}

\* No server that runs is vouched for by another: although its port was free
\* for a moment and anything on the node may have taken it, only a server that
\* is gone can have been reported healthy on somebody else's answer.
LiveHealthIsOwn ==
  \A s \in Servers :
    answeredBy[s] \notin {None, s} => task[s] \in {"raised", "cancelled"}

\* start() ends, also when the engine raises and when the port is gone, unless
\* loading the engine, which holds the event loop, goes on for ever.
StartEnds ==
  \A s \in Servers :
    waiter[s] \in Waiting ~> (waiter[s] \notin Waiting \/ [](task[s] = "loading"))

\* What the trainer learns from was sampled with the weights it saved last, as
\* a whole, although removing and adding an adapter may fail unnoticed, evicted
\* adapters are read again from a path that is overwritten, and the calls of an
\* earlier job may still be running.
OnPolicy ==
  \A r \in Requests :
    request[r].awaited /\ request[r].step = "answered"
      => request[r].used = {request[r].want}
=============================================================================
