------------------------------- MODULE Router -------------------------------
(***************************************************************************)
(* The prefix-affinity router in front of a fleet of inference servers     *)
(* (scripts/serve/router.py).  One event loop serves every request; its    *)
(* lock is never held across an await, so picking a backend and releasing  *)
(* it are single steps.  A client is an agent trajectory, which sends its  *)
(* next request when the previous one is over.                             *)
(***************************************************************************)
EXTENDS Integers, FiniteSets

CONSTANTS
  N,            \* number of backends
  Trajectories,
  Task,         \* trajectory -> what its first two messages say, or NoKey
  NoKey,        \* key of a request without messages (/v1/completions)
  Streaming,    \* trajectories that ask for streamed answers
  MaxSteps      \* bound: requests a trajectory makes

ASSUME RouterAssumption ==
  /\ N \in Nat \ {0}
  /\ IsFiniteSet(Trajectories) /\ Streaming \subseteq Trajectories
  /\ DOMAIN Task = Trajectories
  /\ MaxSteps \in Nat

Backends == 1..N

VARIABLES
  inflight,  \* backend -> requests counted on it
  affinity,  \* key -> backend, for the keys seen
  phase,     \* trajectory -> "idle", "posting", "offered" or "streaming"
  idx,       \* trajectory -> backend picked for its current request, or 0
  steps,     \* trajectory -> requests made
  visited,   \* history: trajectory -> backends its requests went to
  leaked     \* history: backend -> requests whose stream was never entered

routerVars == <<inflight, affinity, phase, idx, steps, visited, leaked>>

\* conversation_key: trajectories on the same task share it.
conversation_key(t) == Task[t]

Open(b) == {t \in Trajectories : idx[t] = b}

\* min(range(n), key=inflight): ties go to the lower index.
LeastLoaded ==
  CHOOSE b \in Backends :
    \A c \in Backends :
      inflight[b] < inflight[c] \/ (inflight[b] = inflight[c] /\ b <= c)

Pick(key) == IF key # NoKey /\ key \in DOMAIN affinity THEN affinity[key]
             ELSE LeastLoaded

Pinned_Never(key, b) == affinity

Pinned(key, b) ==
  IF key = NoKey THEN affinity
  ELSE [k \in DOMAIN affinity \union {key} |-> IF k = key THEN b ELSE affinity[k]]

Released_Never(b) == inflight

Released(b) == [inflight EXCEPT ![b] = @ - 1]

-----------------------------------------------------------------------------
RouterInit ==
  /\ inflight = [b \in Backends |-> 0]
  /\ affinity = [k \in {} |-> 0]
  /\ phase = [t \in Trajectories |-> "idle"]
  /\ idx = [t \in Trajectories |-> 0]
  /\ steps = [t \in Trajectories |-> 0]
  /\ visited = [t \in Trajectories |-> {}]
  /\ leaked = [b \in Backends |-> 0]

\* pick_backend, up to the POST or to the return of the StreamingResponse.
PickBackend(t) ==
  /\ phase[t] = "idle" /\ steps[t] < MaxSteps
  /\ LET b == Pick(conversation_key(t))
     IN  /\ affinity' = Pinned(conversation_key(t), b)
         /\ inflight' = [inflight EXCEPT ![b] = @ + 1]
         /\ idx' = [idx EXCEPT ![t] = b]
         /\ visited' = [visited EXCEPT ![t] = @ \union {b}]
  /\ phase' = [phase EXCEPT ![t] = IF t \in Streaming THEN "offered"
                                   ELSE "posting"]
  /\ steps' = [steps EXCEPT ![t] = @ + 1]
  /\ UNCHANGED leaked

\* The finally of proxy() and of stream(): an answer, a backend error turned
\* into a 502, the last chunk, or a client that hangs up while streaming.
Release(t) ==
  /\ phase[t] \in {"posting", "streaming"}
  /\ inflight' = Released(idx[t])
  /\ phase' = [phase EXCEPT ![t] = "idle"]
  /\ idx' = [idx EXCEPT ![t] = 0]
  /\ UNCHANGED <<affinity, steps, visited, leaked>>

\* The server starts to iterate stream().
StartStream(t) ==
  /\ phase[t] = "offered"
  /\ phase' = [phase EXCEPT ![t] = "streaming"]
  /\ UNCHANGED <<inflight, affinity, idx, steps, visited, leaked>>

\* The client hangs up first: stream() is never entered, nor its finally.
HangUp(t) ==
  /\ phase[t] = "offered"
  /\ phase' = [phase EXCEPT ![t] = "idle"]
  /\ idx' = [idx EXCEPT ![t] = 0]
  /\ leaked' = [leaked EXCEPT ![idx[t]] = @ + 1]
  /\ UNCHANGED <<inflight, affinity, steps, visited>>

RouterNext == \E t \in Trajectories :
  PickBackend(t) \/ Release(t) \/ StartStream(t) \/ HangUp(t)

RouterSpec == RouterInit /\ [][RouterNext]_routerVars

-----------------------------------------------------------------------------
(* Properties *)

TypeOK ==
  /\ inflight \in [Backends -> Nat]
  /\ \A k \in DOMAIN affinity : affinity[k] \in Backends
  /\ phase \in [Trajectories -> {"idle", "posting", "offered", "streaming"}]
  /\ idx \in [Trajectories -> Backends \union {0}]
  /\ \A t \in Trajectories : phase[t] = "idle" <=> idx[t] = 0
  /\ leaked \in [Backends -> Nat]

\* "Exact in-flight counts": the counter of a backend is the number of
\* requests that are on it, and what it counts beyond them are streams whose
\* client hung up before they were entered; nothing gives those slots back.
ExactCounts ==
  \A b \in Backends : inflight[b] = Cardinality(Open(b)) + leaked[b]

\* "after that it stays there": all requests of a conversation go to one
\* backend, whatever the load does in between.
ConversationStays ==
  \A t, u \in Trajectories :
    conversation_key(t) = conversation_key(u) /\ conversation_key(t) # NoKey
      => Cardinality(visited[t] \union visited[u]) <= 1
=============================================================================
