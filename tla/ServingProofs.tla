--------------------------- MODULE ServingProofs ----------------------------
(***************************************************************************)
(* Proofs about the processes that serve and train models.                 *)
(*                                                                         *)
(* Router: for any number of backends and trajectories, streamed or not,   *)
(* the in-flight counts are exact but for the slots of streams that were   *)
(* never entered, and a conversation never changes its backend.            *)
(*                                                                         *)
(* VllmServer: for any servers, ports, saves and jobs, whoever's /health   *)
(* ends the wait of start() is the server itself, and what the trainer     *)
(* learns from was sampled with the weights it saved last.                 *)
(*                                                                         *)
(* DbSnapshot: however many transactions and runs there are, and wherever  *)
(* a SIGKILL or a failed backup hits, the durable database is whole, and   *)
(* until an exit trap has run it neither loses what a good snapshot saw    *)
(* nor goes back.                                                          *)
(***************************************************************************)
EXTENDS Router, VllmServer, DbSnapshot, FiniteSetTheorems,
        WellFoundedInduction, TLAPS

(* The router *)

\* An idle trajectory holds no slot, and the counters add up.
CountInv ==
  /\ inflight = [b \in Backends |-> inflight[b]]
  /\ leaked \in [Backends -> Nat]
  /\ DOMAIN phase = Trajectories
  /\ DOMAIN idx = Trajectories
  /\ \A t \in Trajectories : phase[t] = "idle" => idx[t] \notin Backends
  /\ ExactCounts

LEMMA OpenFinite ==
  ASSUME NEW b
  PROVE  IsFiniteSet(Open(b)) /\ Cardinality(Open(b)) \in Nat
<1>1. Open(b) \in SUBSET Trajectories
  BY DEF Open
<1>2. IsFiniteSet(Open(b))
  BY <1>1, FS_Subset, RouterAssumption
<1> QED BY <1>2, FS_CardinalityType

\* A request is counted on the backend picked for it and on no other.
LEMMA PickCounts ==
  ASSUME CountInv, NEW t \in Trajectories, PickBackend(t)
  PROVE  CountInv'
<1> DEFINE b == Pick(conversation_key(t))
<1>1. /\ inflight' = [inflight EXCEPT ![b] = @ + 1]
      /\ idx' = [idx EXCEPT ![t] = b]
      /\ DOMAIN phase' = DOMAIN phase
      /\ \A u \in Trajectories \ {t} : phase'[u] = phase[u]
      /\ phase[t] = "idle" /\ phase'[t] # "idle" /\ leaked' = leaked
  BY DEF PickBackend, CountInv
<1> HIDE DEF b
<1>2. ASSUME NEW c \in Backends
      PROVE  inflight'[c] = Cardinality(Open(c)') + leaked'[c]
  <2>1. CASE c = b
    <3>1. Open(c)' = Open(c) \cup {t} /\ t \notin Open(c)
      BY <1>1, <2>1 DEF Open, CountInv
    <3>2. Cardinality(Open(c)') = Cardinality(Open(c)) + 1
      BY <3>1, OpenFinite, FS_AddElement
    <3>3. inflight'[c] = inflight[c] + 1
      BY <1>1, <2>1 DEF CountInv
    <3> QED BY <1>1, <3>2, <3>3, OpenFinite DEF CountInv, ExactCounts
  <2>2. CASE c # b
    <3>1. Open(c)' = Open(c)
      BY <1>1, <2>2 DEF Open, CountInv
    <3>2. inflight'[c] = inflight[c]
      BY <1>1, <2>2 DEF CountInv
    <3> QED BY <1>1, <3>1, <3>2 DEF CountInv, ExactCounts
  <2> QED BY <2>1, <2>2
<1>3. ExactCounts'
  BY <1>2 DEF ExactCounts
<1>4. inflight' = [c \in Backends |-> inflight'[c]]
  BY <1>1 DEF CountInv
<1>5. \A u \in Trajectories :
        phase'[u] = "idle" => idx'[u] \notin Backends
  BY <1>1 DEF CountInv
<1>6. DOMAIN phase' = Trajectories /\ DOMAIN idx' = Trajectories
  BY <1>1 DEF CountInv
<1> QED BY <1>1, <1>3, <1>4, <1>5, <1>6 DEF CountInv

\* A request that is over is uncounted where it was counted.
LEMMA ReleaseCounts ==
  ASSUME CountInv, NEW t \in Trajectories, Release(t)
  PROVE  CountInv'
<1> DEFINE b == idx[t]
<1>1. /\ inflight' = [inflight EXCEPT ![b] = @ - 1]
      /\ idx' = [idx EXCEPT ![t] = 0]
      /\ phase' = [phase EXCEPT ![t] = "idle"]
      /\ leaked' = leaked
  BY DEF Release, Released
<1>2. 0 \notin Backends
  BY DEF Backends
<1>3. ASSUME NEW c \in Backends
      PROVE  inflight'[c] = Cardinality(Open(c)') + leaked'[c]
  <2>1. CASE c = b
    <3>1. Open(c)' = Open(c) \ {t} /\ t \in Open(c)
      BY <1>1, <1>2, <2>1 DEF Open, CountInv
    <3>2. Cardinality(Open(c)') = Cardinality(Open(c)) - 1
      BY <3>1, OpenFinite, FS_RemoveElement
    <3>3. inflight'[c] = inflight[c] - 1
      BY <1>1, <2>1 DEF CountInv
    <3> QED BY <1>1, <3>2, <3>3, OpenFinite DEF CountInv, ExactCounts
  <2>2. CASE c # b
    <3>1. Open(c)' = Open(c)
      BY <1>1, <1>2, <2>2 DEF Open, CountInv
    <3>2. inflight'[c] = inflight[c]
      BY <1>1, <2>2 DEF CountInv
    <3> QED BY <1>1, <3>1, <3>2 DEF CountInv, ExactCounts
  <2> QED BY <2>1, <2>2
<1>4. ExactCounts'
  BY <1>3 DEF ExactCounts
<1>5. inflight' = [c \in Backends |-> inflight'[c]]
  BY <1>1 DEF CountInv
<1>6. \A u \in Trajectories :
        phase'[u] = "idle" => idx'[u] \notin Backends
  BY <1>1, <1>2 DEF CountInv
<1>7. DOMAIN phase' = Trajectories /\ DOMAIN idx' = Trajectories
  BY <1>1 DEF CountInv
<1> QED BY <1>1, <1>4, <1>5, <1>6, <1>7 DEF CountInv

\* A request whose stream is never entered moves from the open ones to the
\* leaked ones; its backend stays counted.
LEMMA HangUpLeaks ==
  ASSUME CountInv, NEW t \in Trajectories, HangUp(t)
  PROVE  CountInv'
<1> DEFINE b == idx[t]
<1>1. /\ inflight' = inflight
      /\ leaked' = [leaked EXCEPT ![b] = @ + 1]
      /\ idx' = [idx EXCEPT ![t] = 0]
      /\ phase' = [phase EXCEPT ![t] = "idle"]
  BY DEF HangUp
<1>2. 0 \notin Backends
  BY DEF Backends
<1>3. ASSUME NEW c \in Backends
      PROVE  inflight'[c] = Cardinality(Open(c)') + leaked'[c]
  <2>1. CASE c = b
    <3>1. Open(c)' = Open(c) \ {t} /\ t \in Open(c)
      BY <1>1, <1>2, <2>1 DEF Open, CountInv
    <3>2. Cardinality(Open(c)') = Cardinality(Open(c)) - 1
      BY <3>1, OpenFinite, FS_RemoveElement
    <3>3. leaked'[c] = leaked[c] + 1
      BY <1>1, <2>1 DEF CountInv
    <3> QED BY <1>1, <3>2, <3>3, OpenFinite DEF CountInv, ExactCounts
  <2>2. CASE c # b
    <3>1. Open(c)' = Open(c)
      BY <1>1, <1>2, <2>2 DEF Open, CountInv
    <3>2. leaked'[c] = leaked[c]
      BY <1>1, <2>2 DEF CountInv
    <3> QED BY <1>1, <3>1, <3>2 DEF CountInv, ExactCounts
  <2> QED BY <2>1, <2>2
<1>4. ExactCounts'
  BY <1>3 DEF ExactCounts
<1>5. inflight' = [c \in Backends |-> inflight'[c]]
  BY <1>1 DEF CountInv
<1>8. leaked' \in [Backends -> Nat]
  <2>1. leaked \in [Backends -> Nat]
    BY DEF CountInv
  <2>2. \A c \in Backends : leaked[c] + 1 \in Nat
    BY <2>1
  <2> QED BY <1>1, <2>1, <2>2
<1>6. \A u \in Trajectories :
        phase'[u] = "idle" => idx'[u] \notin Backends
  BY <1>1, <1>2 DEF CountInv
<1>7. DOMAIN phase' = Trajectories /\ DOMAIN idx' = Trajectories
  BY <1>1 DEF CountInv
<1> QED BY <1>4, <1>5, <1>6, <1>7, <1>8 DEF CountInv

LEMMA CountInvariant == RouterSpec => []CountInv
<1>1. RouterInit => CountInv
  <2> SUFFICES ASSUME RouterInit PROVE CountInv
    OBVIOUS
  <2>1. \A b \in Backends : Open(b) = {}
    BY DEF RouterInit, Open, Backends
  <2>2. Cardinality({}) = 0
    BY FS_EmptySet
  <2>3. \A b \in Backends : inflight[b] = 0 /\ leaked[b] = 0
    BY DEF RouterInit
  <2>4. ExactCounts
    BY <2>1, <2>2, <2>3 DEF ExactCounts
  <2> QED BY <2>4 DEF RouterInit, CountInv, Backends
<1>2. CountInv /\ [RouterNext]_routerVars => CountInv'
  <2> SUFFICES ASSUME CountInv, [RouterNext]_routerVars PROVE CountInv'
    OBVIOUS
  <2>1. CASE UNCHANGED routerVars
    BY <2>1 DEF routerVars, CountInv, ExactCounts, Open
  <2>2. ASSUME NEW t \in Trajectories, PickBackend(t) PROVE CountInv'
    BY <2>2, PickCounts
  <2>3. ASSUME NEW t \in Trajectories, Release(t) PROVE CountInv'
    BY <2>3, ReleaseCounts
  <2>4. ASSUME NEW t \in Trajectories, StartStream(t) PROVE CountInv'
    BY <2>4 DEF StartStream, CountInv, ExactCounts, Open
  <2>5. ASSUME NEW t \in Trajectories, HangUp(t) PROVE CountInv'
    BY <2>5, HangUpLeaks
  <2> QED BY <2>1, <2>2, <2>3, <2>4, <2>5 DEF RouterNext
<1> QED BY <1>1, <1>2, PTL DEF RouterSpec

\* The counter of every backend is the number of requests on it and of the
\* slots leaked on it, whatever the fleet's size and whoever hangs up.
THEOREM CountsAreExact == RouterSpec => []ExactCounts
<1>1. CountInv => ExactCounts
  BY DEF CountInv
<1> QED BY <1>1, CountInvariant, PTL

-----------------------------------------------------------------------------

\* A trajectory with a key has only been where its key is pinned.
PinInv ==
  /\ visited = [t \in Trajectories |-> visited[t]]
  /\ \A t \in Trajectories :
       conversation_key(t) # NoKey /\ visited[t] # {} =>
         /\ conversation_key(t) \in DOMAIN affinity
         /\ visited[t] = {affinity[conversation_key(t)]}

\* A pin is never moved, and a new one is where the request goes.
LEMMA PickPins ==
  ASSUME PinInv, NEW t \in Trajectories, PickBackend(t)
  PROVE  PinInv'
<1> DEFINE key == conversation_key(t)
           b   == Pick(key)
<1>1. /\ affinity' = Pinned(key, b)
      /\ visited' = [visited EXCEPT ![t] = @ \union {b}]
  BY DEF PickBackend
<1>2. \A k \in DOMAIN affinity :
        k # NoKey => k \in DOMAIN affinity' /\ affinity'[k] = affinity[k]
  BY <1>1 DEF Pinned, Pick
<1>3. key # NoKey => key \in DOMAIN affinity' /\ affinity'[key] = b
  BY <1>1 DEF Pinned
<1>4. key # NoKey /\ visited[t] # {} => visited[t] = {b}
  BY DEF PinInv, Pick
<1> HIDE DEF b
<1>5. visited' = [u \in Trajectories |->
                    IF u = t THEN visited[t] \union {b} ELSE visited[u]]
  BY <1>1 DEF PinInv
<1>6. ASSUME NEW u \in Trajectories, conversation_key(u) # NoKey,
             visited'[u] # {}
      PROVE  /\ conversation_key(u) \in DOMAIN affinity'
             /\ visited'[u] = {affinity'[conversation_key(u)]}
  <2>1. CASE u = t
    BY <1>3, <1>4, <1>5, <1>6, <2>1
  <2>2. CASE u # t
    BY <1>2, <1>5, <1>6, <2>2 DEF PinInv
  <2> QED BY <2>1, <2>2
<1>7. visited' = [u \in Trajectories |-> visited'[u]]
  BY <1>5
<1> QED BY <1>6, <1>7 DEF PinInv, conversation_key

\* All requests of a conversation go to one backend, whatever the load does
\* and whoever hangs up.
THEOREM ConversationsStay == RouterSpec => []ConversationStays
<1>1. RouterInit => PinInv
  BY DEF RouterInit, PinInv
<1>2. PinInv /\ [RouterNext]_routerVars => PinInv'
  <2> SUFFICES ASSUME PinInv, [RouterNext]_routerVars PROVE PinInv'
    OBVIOUS
  <2>1. CASE UNCHANGED routerVars
    BY <2>1 DEF routerVars, PinInv, conversation_key
  <2>2. ASSUME NEW t \in Trajectories, PickBackend(t) PROVE PinInv'
    BY <2>2, PickPins
  <2>3. ASSUME NEW t \in Trajectories,
               Release(t) \/ StartStream(t) \/ HangUp(t)
        PROVE  PinInv'
    BY <2>3 DEF Release, StartStream, HangUp, PinInv, conversation_key
  <2> QED BY <2>1, <2>2, <2>3 DEF RouterNext
<1>3. PinInv => ConversationStays
  <2> SUFFICES ASSUME PinInv, NEW t \in Trajectories, NEW u \in Trajectories,
                      conversation_key(t) = conversation_key(u),
                      conversation_key(t) # NoKey
               PROVE  Cardinality(visited[t] \union visited[u]) <= 1
    BY DEF ConversationStays
  <2>1. \/ visited[t] \union visited[u] = {}
        \/ visited[t] \union visited[u] = {affinity[conversation_key(t)]}
    BY DEF PinInv
  <2>2. Cardinality({}) = 0
    BY FS_EmptySet
  <2>3. Cardinality({affinity[conversation_key(t)]}) = 1
    BY FS_Singleton
  <2> DEFINE both == visited[t] \union visited[u]
  <2>4. Cardinality(both) \in {0, 1}
    <3> HIDE DEF both
    <3>1. both = {} \/ both = {affinity[conversation_key(t)]}
      BY <2>1 DEF both
    <3> QED BY <2>2, <2>3, <3>1
  <2> HIDE DEF both
  <2>5. Cardinality(both) <= 1
    BY <2>4
  <2> QED BY <2>5 DEF both
<1> QED BY <1>1, <1>2, <1>3, PTL DEF RouterSpec

-----------------------------------------------------------------------------
(* Types: there is always a backend to pick *)

\* A set of numbers that is not empty has a least one.
LEMMA HasLeast ==
  ASSUME NEW S, S \subseteq Nat, S # {}
  PROVE  \E x \in S : \A y \in S : x <= y
<1> DEFINE R == OpToRel(<, Nat)
<1>1. \A x, y \in Nat : <<y, x>> \notin R => x <= y
  BY DEF OpToRel
<1>2. IsWellFoundedOn(R, Nat)
  BY NatLessThanWellFounded
<1> HIDE DEF R
<1>3. PICK x \in S : \A y \in S : <<y, x>> \notin R
  BY <1>2, WFMin
<1> QED BY <1>1, <1>3

\* min() over the backends finds one: the first of those with the least count.
LEMMA LeastLoadedExists ==
  ASSUME inflight \in [Backends -> Nat]
  PROVE  LeastLoaded \in Backends
<1> DEFINE Counts == {inflight[b] : b \in Backends}
<1>1. 1 \in Backends /\ Backends \subseteq Nat
  BY RouterAssumption DEF Backends
<1>2. PICK m \in Counts : \A n \in Counts : m <= n
  <2>1. Counts \subseteq Nat /\ Counts # {}
    BY <1>1
  <2> HIDE DEF Counts
  <2> QED BY <2>1, HasLeast
<1> DEFINE Least == {b \in Backends : inflight[b] = m}
<1>3. PICK b \in Least : \A c \in Least : b <= c
  <2>1. Least \subseteq Nat /\ Least # {}
    BY <1>1
  <2> HIDE DEF Least
  <2> QED BY <2>1, HasLeast
<1>4. \A c \in Backends :
        inflight[b] < inflight[c] \/ (inflight[b] = inflight[c] /\ b <= c)
  <2> SUFFICES ASSUME NEW c \in Backends, inflight[c] # m
               PROVE  inflight[b] < inflight[c]
    BY <1>3
  <2>1. m <= inflight[c] /\ inflight[b] = m /\ m \in Nat /\ inflight[c] \in Nat
    BY <1>2
  <2> QED BY <2>1
<1> QED BY <1>4 DEF LeastLoaded

LEMMA NextTyped ==
  ASSUME CountInv, TypeOK, [RouterNext]_routerVars
  PROVE  TypeOK'
<1> USE DEF TypeOK
<1>1. ASSUME NEW t \in Trajectories, PickBackend(t) PROVE TypeOK'
  <2> DEFINE key == conversation_key(t)
             b == Pick(key)
  <2>1. b \in Backends
    BY LeastLoadedExists DEF Pick
  <2>2. /\ affinity' = Pinned(key, b)
        /\ inflight' = [inflight EXCEPT ![b] = @ + 1]
        /\ idx' = [idx EXCEPT ![t] = b]
        /\ phase' = [phase EXCEPT ![t] = IF t \in Streaming THEN "offered"
                                         ELSE "posting"]
        /\ leaked' = leaked
    BY <1>1 DEF PickBackend
  <2> HIDE DEF b
  <2>3. 0 \notin Backends
    BY RouterAssumption DEF Backends
  <2>4. \A k \in DOMAIN affinity' : affinity'[k] \in Backends
    BY <2>1, <2>2 DEF Pinned
  <2>5. inflight' \in [Backends -> Nat]
    BY <2>1, <2>2
  <2>6. /\ phase' \in [Trajectories -> {"idle", "posting", "offered", "streaming"}]
        /\ idx' \in [Trajectories -> Backends \union {0}]
        /\ \A u \in Trajectories : phase'[u] = "idle" <=> idx'[u] = 0
    BY <2>1, <2>2, <2>3
  <2> QED BY <2>2, <2>4, <2>5, <2>6
<1>2. ASSUME NEW t \in Trajectories, Release(t) PROVE TypeOK'
  <2>1. CountInv' /\ inflight' = [b \in Backends |-> inflight'[b]]
    BY <1>2, ReleaseCounts DEF CountInv
  <2>2. \A b \in Backends : inflight'[b] \in Nat
    <3> SUFFICES ASSUME NEW b \in Backends PROVE inflight'[b] \in Nat
      OBVIOUS
    <3>1. Open(b)' \in SUBSET Trajectories
      BY DEF Open
    <3>2. Cardinality(Open(b)') \in Nat
      BY <3>1, FS_Subset, FS_CardinalityType, RouterAssumption
    <3>3. leaked'[b] \in Nat
      BY <1>2 DEF Release
    <3> QED BY <2>1, <3>2, <3>3 DEF CountInv, ExactCounts
  <2>3. inflight' \in [Backends -> Nat]
    BY <2>1, <2>2
  <2>4. 0 \notin Backends
    BY RouterAssumption DEF Backends
  <2> QED BY <1>2, <2>3, <2>4 DEF Release
<1>3. ASSUME NEW t \in Trajectories, StartStream(t) PROVE TypeOK'
  BY <1>3 DEF StartStream
<1>4. ASSUME NEW t \in Trajectories, HangUp(t) PROVE TypeOK'
  <2>1. idx[t] \in Backends
    BY <1>4 DEF HangUp
  <2> QED BY <1>4, <2>1 DEF HangUp
<1>5. CASE UNCHANGED routerVars
  BY <1>5 DEF routerVars
<1> QED BY <1>1, <1>2, <1>3, <1>4, <1>5 DEF RouterNext

\* The router's state keeps its types: every pin and every request under way
\* is on a backend that exists, and no counter falls below zero.
THEOREM RouterTyped == RouterSpec => []TypeOK
<1>1. RouterInit => TypeOK
  BY DEF RouterInit, TypeOK, Backends
<1>2. RouterSpec => []CountInv
  BY CountInvariant
<1>3. CountInv /\ TypeOK /\ [RouterNext]_routerVars => TypeOK'
  BY NextTyped
<1> QED BY <1>1, <1>2, <1>3, PTL DEF RouterSpec

-----------------------------------------------------------------------------
(* The inference servers *)

\* A search from start_port upwards finds the lowest free port.
LEMMA LowestIsOne ==
  ASSUME NEW S, S \subseteq Nat, S # {}
  PROVE  Min(S) \in S
<1> DEFINE R == OpToRel(<, Nat)
<1>1. \A x, y \in Nat : <<y, x>> \notin R => x <= y
  BY DEF OpToRel
<1>2. IsWellFoundedOn(R, Nat)
  BY NatLessThanWellFounded
<1> HIDE DEF R
<1>3. PICK x \in S : \A y \in S : <<y, x>> \notin R
  BY <1>2, WFMin
<1>4. \A y \in S : x <= y
  BY <1>1, <1>3
<1> QED BY <1>4 DEF Min

\* A server that has reserved its port or bound it again holds it.
Holds(s) == port[s] \in Ports /\ socket[port[s]] = s

Alive(s) == task[s] \in {"reserved", "loading", "starting", "serving"}

Gone(s) == task[s] \in {"raised", "cancelled"}

Inv ==
  /\ DOMAIN port = Servers /\ DOMAIN task = Servers /\ DOMAIN waiter = Servers
  /\ DOMAIN answeredBy = Servers /\ DOMAIN socket = Ports
  /\ \A s \in Servers : \/ task[s] \in {"none", "rejected", "released"}
                         \/ Alive(s) \/ Gone(s)
  /\ \A s \in Servers : Alive(s) => Holds(s)
  /\ \A s \in Servers : task[s] = "released" => port[s] \in Ports
  /\ \A s \in Servers : task[s] \in {"none", "rejected"} => waiter[s] = "none"
  /\ LiveHealthIsOwn

LEMMA InitInv == Init => Inv
BY DEF Init, Inv, Alive, Gone, Holds, LiveHealthIsOwn

LEMMA StartSteps ==
  ASSUME Inv, NEW s \in Servers,
         Construct(s) \/ Start(s) \/ ReleasePort(s) \/ Bind(s)
  PROVE  Inv'
<1> USE VllmAssumption DEF Inv, Alive, Gone, Holds, LiveHealthIsOwn
<1>1. CASE Construct(s)
  <2> DEFINE p == Min(Free)
  <2>1. p \in Ports /\ socket[p] = None
    <3>1. Free \subseteq Nat /\ Free # {}
      BY <1>1 DEF Construct, Free
    <3>2. p \in Free
      BY <3>1, LowestIsOne
    <3> HIDE DEF p
    <3> QED BY <3>2 DEF Free
  <2>2. CASE task' = [task EXCEPT ![s] = "rejected"] /\ UNCHANGED <<port, socket>>
    BY <1>1, <2>2 DEF Construct
  <2>3. CASE /\ port' = [port EXCEPT ![s] = p] /\ socket' = [socket EXCEPT ![p] = s]
             /\ task' = [task EXCEPT ![s] = "reserved"]
    <3> HIDE DEF p
    <3>1. waiter' = waiter /\ answeredBy' = answeredBy /\ task[s] = "none"
      BY <1>1 DEF Construct
    <3>2. LiveHealthIsOwn'
      BY <2>3, <3>1
    <3>3. \A t \in Servers : Alive(t)' => Holds(t)'
      <4>1. ASSUME NEW t \in Servers, t # s, Alive(t)' PROVE Holds(t)'
        <5>1. task[t] = task'[t] /\ port'[t] = port[t]
          BY <2>3, <4>1
        <5>2. Holds(t) /\ t # None
          BY <4>1, <5>1
        <5> QED BY <2>1, <2>3, <5>1, <5>2
      <4>2. Holds(s)'
        BY <2>1, <2>3
      <4> QED BY <4>1, <4>2
    <3> QED BY <2>1, <2>3, <3>1, <3>2, <3>3
  <2> QED BY <1>1, <2>2, <2>3 DEF Construct
<1>2. CASE Start(s)
  BY <1>2 DEF Start
<1>3. CASE ReleasePort(s)
  BY <1>3 DEF ReleasePort
<1>4. CASE Bind(s)
  BY <1>4 DEF Bind
<1> QED BY <1>1, <1>2, <1>3, <1>4

LEMMA RunSteps ==
  ASSUME Inv, NEW s \in Servers,
         \/ EngineUp(s) \/ Serve(s) \/ TaskEnds(s)
         \/ Healthy(s) \/ Refused(s) \/ NextTurn(s) \/ Shutdown(s)
  PROVE  Inv'
<1> USE VllmAssumption DEF Inv, Alive, Gone, Holds, LiveHealthIsOwn
<1>1. CASE EngineUp(s) \/ Serve(s)
  BY <1>1 DEF EngineUp, Serve
<1>2. CASE TaskEnds(s)
  BY <1>2 DEF TaskEnds
<1>3. CASE Healthy(s)
  <2>1. /\ task' = task /\ port' = port /\ socket' = socket
        /\ waiter' = [waiter EXCEPT ![s] = "healthy"] /\ waiter[s] = "asked"
        /\ LoopFree(s)
    BY <1>3 DEF Healthy
  <2>2. PICK t \in Answering(port[s]) : answeredBy' = [answeredBy EXCEPT ![s] = t]
    BY <1>3 DEF Healthy
  <2>3. t # s => Gone(s)
    <3>1. socket[port[s]] = t
      BY <2>2 DEF Answering
    <3>2. task[s] \notin {"none", "rejected", "released"}
      BY <2>1 DEF LoopFree
    <3> QED BY <3>1, <3>2
  <2> QED BY <2>1, <2>2, <2>3
<1>4. CASE Refused(s)
  <2>1. /\ task' = task /\ port' = port /\ socket' = socket
        /\ answeredBy' = answeredBy /\ waiter[s] = "asked"
    BY <1>4 DEF Refused
  <2>2. DOMAIN waiter' = Servers /\ \A t \in Servers : t # s => waiter'[t] = waiter[t]
    BY <1>4 DEF Refused
  <2> QED BY <2>1, <2>2
<1>5. CASE NextTurn(s)
  <2>1. /\ task' = task /\ port' = port /\ socket' = socket
        /\ answeredBy' = answeredBy /\ waiter[s] = "asleep"
    BY <1>5 DEF NextTurn, TaskFailed
  <2>2. DOMAIN waiter' = Servers /\ \A t \in Servers : t # s => waiter'[t] = waiter[t]
    BY <1>5 DEF NextTurn, TaskFailed
  <2> QED BY <2>1, <2>2
<1>6. CASE Shutdown(s)
  BY <1>6 DEF Shutdown
<1> QED BY <1>1, <1>2, <1>3, <1>4, <1>5, <1>6

LEMMA NextStep == ASSUME Inv, [Next]_vars PROVE Inv'
<1>1. ASSUME UNCHANGED boot PROVE Inv'
  BY <1>1 DEF boot, Inv, Alive, Gone, Holds, LiveHealthIsOwn
<1>2. ASSUME NEW s \in Servers, Load(s) PROVE UNCHANGED boot
  BY <1>2 DEF Load, Remove, Add, Register
<1>3. ASSUME Job PROVE UNCHANGED boot
  BY <1>3 DEF Job, Save, Reloaded, NewJob, Abandon, Ask
<1>4. ASSUME Sampling PROVE UNCHANGED boot
  BY <1>4 DEF Sampling, Decode, Answer
<1>5. ASSUME NEW p \in Ports, Squat(p) PROVE Inv'
  <2>1. /\ UNCHANGED <<task, port, waiter, answeredBy>>
        /\ socket[p] = None /\ socket' = [socket EXCEPT ![p] = Other]
    BY <1>5 DEF Squat
  <2>2. \A s \in Servers : s # None
    BY VllmAssumption
  <2> QED BY <2>1, <2>2 DEF Inv, Alive, Gone, Holds, LiveHealthIsOwn
<1> QED
  BY <1>1, <1>2, <1>3, <1>4, <1>5, StartSteps, RunSteps DEF Next, Boot, vars

\* A server that runs was not reported healthy on another process's answer
\* (LiveHealthIsOwn): it holds the port it polls.
THEOREM OwnHealth == Spec => []LiveHealthIsOwn
<1>1. Inv => LiveHealthIsOwn
  BY DEF Inv
<1> QED BY <1>1, InitInv, NextStep, PTL DEF Spec

-----------------------------------------------------------------------------
(* What the trainer learns from *)

CallSteps == {"none", "sent", "removed", "added", "replied"}

RequestSteps == {"free", "running", "answered"}

\* The call that loads the adapter saved last, on a server.
Latest(s) == call[s][disk]

JobTypes ==
  /\ disk \in 0..MaxSaves /\ trainer \in {"save", "reload", "sample"}
  /\ registered \in [Servers -> Nat] /\ counter \in [Servers -> Nat]
  /\ DOMAIN resident = Servers /\ DOMAIN lock = Servers
  /\ call \in [Servers -> [Saves -> [step : CallSteps, id : Nat]]]
  /\ request = [r \in Requests |-> request[r]]
  /\ trainer # "save" => disk # 0
  /\ \A s \in Servers : \A i \in DOMAIN resident[s] : resident[s][i] \in Nat

\* Ids are given out once, one call at a time.
IdInv ==
  \A s \in Servers :
    /\ registered[s] <= counter[s]
    /\ DOMAIN resident[s] \subseteq 0..counter[s]
    /\ \A v \in Saves :
         /\ call[s][v].step \in {"removed", "added"} => lock[s] = v
         /\ call[s][v].step = "added" => call[s][v].id = counter[s]

\* From the id on that the latest save was given, the engine holds its weights.
FreshInv ==
  disk # 0 => \A s \in Servers :
    /\ Latest(s).step \in {"added", "replied"} =>
         /\ Latest(s).id <= counter[s]
         /\ \A i \in DOMAIN resident[s] : i >= Latest(s).id => resident[s][i] = disk
    /\ Latest(s).step = "replied" => Latest(s).id <= registered[s]

SampleInv ==
  trainer = "sample" => \A s \in Servers : Latest(s).step = "replied"

\* A request that is awaited was sent with the latest adapter's id or a later
\* one.
RequestInv ==
  \A r \in Requests :
    /\ request[r] \in [at : Servers \union {None}, id : Nat, want : Nat,
                       used : SUBSET Nat, step : RequestSteps, awaited : BOOLEAN]
    /\ request[r].step # "free" =>
         request[r].at \in Servers /\ request[r].id <= counter[request[r].at]
    /\ request[r].step = "answered" => request[r].used # {}
    /\ request[r].awaited =>
         /\ request[r].step # "free"
         /\ trainer = "sample" /\ request[r].want = disk
         /\ request[r].id >= Latest(request[r].at).id
         /\ request[r].used \subseteq {disk}

JobInv == JobTypes /\ IdInv /\ FreshInv /\ SampleInv /\ RequestInv

\* Loading an adapter may drop others and changes none.
LEMMA LoadedKeeps ==
  ASSUME NEW adapters, NEW id, NEW weights, NEW a \in Loaded(adapters, id, weights)
  PROVE  /\ DOMAIN a \subseteq DOMAIN adapters \union {id}
         /\ \A i \in DOMAIN a : a[i] = IF i = id THEN weights ELSE adapters[i]
<1>1. PICK keep \in kSubset(Min({Slots - 1, Cardinality(DOMAIN adapters \ {id})}),
                            DOMAIN adapters \ {id}) :
        a = [i \in keep \union {id} |-> IF i = id THEN weights ELSE adapters[i]]
  BY DEF Loaded
<1>2. keep \subseteq DOMAIN adapters \ {id}
  BY DEF kSubset
<1> QED BY <1>1, <1>2

LEMMA InitJob == Init => JobInv
<1> SUFFICES ASSUME Init PROVE JobInv
  OBVIOUS
<1>1. JobTypes
  BY VllmAssumption DEF Init, JobTypes, CallSteps, Saves
<1>2. IdInv
  BY DEF Init, IdInv
<1>3. FreshInv /\ SampleInv
  BY DEF Init, FreshInv, SampleInv
<1>4. RequestInv
  BY DEF Init, RequestInv, NoRequest, RequestSteps
<1> QED BY <1>1, <1>2, <1>3, <1>4 DEF JobInv

\* A step that touches neither adapters nor requests.
LEMMA Elsewhere ==
  ASSUME JobInv, UNCHANGED <<engines, calls, disk, trainer, request>>
  PROVE  JobInv'
BY DEF JobInv, JobTypes, IdInv, FreshInv, SampleInv, RequestInv, Latest,
       engines, calls

LEMMA RemoveJob ==
  ASSUME JobInv, NEW s \in Servers, NEW v \in Saves, Remove(s, v)
  PROVE  JobInv'
<1> USE DEF JobInv
<1>1. /\ call' = [call EXCEPT ![s][v] = [step |-> "removed", id |-> 0]]
      /\ call[s][v].step = "sent" /\ lock[s] = None
      /\ lock' = [lock EXCEPT ![s] = v]
      /\ UNCHANGED <<registered, counter, disk, trainer, request>>
  BY DEF Remove, Step, MayEnter, job
<1>2. /\ DOMAIN resident' = Servers
      /\ \A t \in Servers :
           /\ DOMAIN resident'[t] \subseteq DOMAIN resident[t]
           /\ \A i \in DOMAIN resident'[t] : resident'[t][i] = resident[t][i]
  <2>1. DOMAIN resident = Servers
    BY DEF JobTypes
  <2> QED BY <2>1 DEF Remove, Evicted
<1>3. JobTypes'
  BY <1>1, <1>2 DEF JobTypes, CallSteps
<1>4. \A t \in Servers, u \in Saves :
        call'[t][u] = IF t = s /\ u = v THEN [step |-> "removed", id |-> 0]
                      ELSE call[t][u]
  BY <1>1 DEF JobTypes
<1>5. v # None
  BY VllmAssumption DEF Saves
<1>6. IdInv'
  <2> SUFFICES ASSUME NEW t \in Servers
               PROVE  /\ registered'[t] <= counter'[t]
                      /\ DOMAIN resident'[t] \subseteq 0..counter'[t]
                      /\ \A u \in Saves :
                           /\ call'[t][u].step \in {"removed", "added"} => lock'[t] = u
                           /\ call'[t][u].step = "added" => call'[t][u].id = counter'[t]
    BY DEF IdInv
  <2>1. registered'[t] <= counter'[t] /\ DOMAIN resident'[t] \subseteq 0..counter'[t]
    BY <1>1, <1>2 DEF IdInv
  <2>2. ASSUME NEW u \in Saves
        PROVE  /\ call'[t][u].step \in {"removed", "added"} => lock'[t] = u
               /\ call'[t][u].step = "added" => call'[t][u].id = counter'[t]
    <3>1. CASE t = s /\ u = v
      BY <1>1, <1>4, <3>1 DEF JobTypes
    <3>2. CASE t = s /\ u # v
      <4>1. u # None
        BY VllmAssumption DEF Saves
      <4>2. call[s][u].step \notin {"removed", "added"}
        BY <1>1, <4>1 DEF IdInv
      <4> QED BY <1>4, <3>2, <4>2
    <3>3. CASE t # s
      BY <1>1, <1>4, <3>3 DEF IdInv, JobTypes
    <3> QED BY <3>1, <3>2, <3>3
  <2> QED BY <2>1, <2>2
<1>7. disk # 0 => disk \in Saves
  BY VllmAssumption DEF JobTypes, Saves
<1>8. \A t \in Servers : disk # 0 /\ Latest(t)'.step \in {"added", "replied"}
        => Latest(t)' = Latest(t)
  BY <1>1, <1>4, <1>7 DEF Latest
<1>9. FreshInv'
  BY <1>1, <1>2, <1>8 DEF FreshInv
<1>10. trainer = "sample" => \A t \in Servers : Latest(t)' = Latest(t)
  BY <1>1, <1>4, <1>7 DEF Latest, SampleInv
<1>11. SampleInv' /\ RequestInv'
  BY <1>1, <1>10 DEF SampleInv, RequestInv
<1> QED BY <1>3, <1>6, <1>9, <1>11

\* The id is new, so what the engine reads under it is what is on disk now.
LEMMA AddJob ==
  ASSUME JobInv, NEW s \in Servers, NEW v \in Saves, Add(s, v)
  PROVE  JobInv'
<1> USE DEF JobInv
<1> DEFINE n == counter[s] + 1
<1>1. /\ call' = [call EXCEPT ![s][v] = [step |-> "added", id |-> n]]
      /\ call[s][v].step = "removed" /\ lock[s] = v
      /\ counter' = [counter EXCEPT ![s] = n]
      /\ UNCHANGED <<registered, lock, disk, trainer, request>>
      /\ n \in Nat /\ counter[s] < n
  BY DEF Add, Step, NewId, job, JobTypes, IdInv
<1>2. /\ DOMAIN resident' = Servers
      /\ \A t \in Servers \ {s} : resident'[t] = resident[t]
      /\ DOMAIN resident'[s] \subseteq DOMAIN resident[s] \union {n}
      /\ \A i \in DOMAIN resident'[s] :
           resident'[s][i] = IF i = n THEN disk ELSE resident[s][i]
  <2>1. n \notin DOMAIN resident[s]
    <3>1. counter[s] \in Nat /\ DOMAIN resident[s] \subseteq 0..counter[s]
      BY DEF IdInv, JobTypes
    <3> QED BY <3>1
  <2>2. CASE UNCHANGED resident
    BY <2>1, <2>2 DEF JobTypes
  <2>3. CASE \E a \in Loaded(resident[s], n, disk) :
               resident' = [resident EXCEPT ![s] = a]
    BY <2>3, LoadedKeeps DEF JobTypes
  <2> QED BY <2>2, <2>3 DEF Add, NewId
<1> HIDE DEF n
<1>3. JobTypes'
  <2>1. disk \in Nat
    BY VllmAssumption DEF JobTypes
  <2>2. \A t \in Servers : \A i \in DOMAIN resident'[t] : resident'[t][i] \in Nat
    BY <1>2, <2>1 DEF JobTypes
  <2> QED BY <1>1, <1>2, <2>2 DEF JobTypes, CallSteps
<1>4. \A t \in Servers, u \in Saves :
        call'[t][u] = IF t = s /\ u = v THEN [step |-> "added", id |-> n]
                      ELSE call[t][u]
  BY <1>1 DEF JobTypes
<1>5. \A t \in Servers : counter'[t] \in Nat /\ counter[t] \in Nat /\ counter[t] <= counter'[t]
                         /\ registered[t] \in Nat
  BY <1>1 DEF JobTypes
<1>6. IdInv'
  <2> SUFFICES ASSUME NEW t \in Servers
               PROVE  /\ registered'[t] <= counter'[t]
                      /\ DOMAIN resident'[t] \subseteq 0..counter'[t]
                      /\ \A u \in Saves :
                           /\ call'[t][u].step \in {"removed", "added"} => lock'[t] = u
                           /\ call'[t][u].step = "added" => call'[t][u].id = counter'[t]
    BY DEF IdInv
  <2>1. registered'[t] <= counter'[t]
    BY <1>1, <1>5 DEF IdInv
  <2>2. DOMAIN resident'[t] \subseteq 0..counter'[t]
    <3>1. CASE t = s
      <4>1. counter'[s] = n /\ DOMAIN resident[s] \subseteq 0..n
        BY <1>1, <1>5 DEF IdInv, JobTypes
      <4> QED BY <1>1, <1>2, <3>1, <4>1
    <3>2. CASE t # s
      BY <1>1, <1>2, <3>2 DEF IdInv, JobTypes
    <3> QED BY <3>1, <3>2
  <2>3. ASSUME NEW u \in Saves
        PROVE  /\ call'[t][u].step \in {"removed", "added"} => lock'[t] = u
               /\ call'[t][u].step = "added" => call'[t][u].id = counter'[t]
    <3>1. CASE t = s /\ u = v
      BY <1>1, <1>4, <3>1 DEF JobTypes
    <3>2. CASE t = s /\ u # v
      BY <1>1, <1>4, <3>2 DEF IdInv
    <3>3. CASE t # s
      BY <1>1, <1>4, <3>3 DEF IdInv, JobTypes
    <3> QED BY <3>1, <3>2, <3>3
  <2> QED BY <2>1, <2>2, <2>3
<1>7. disk # 0 => disk \in Saves
  BY VllmAssumption DEF JobTypes, Saves
<1>8. ASSUME NEW t \in Servers, disk # 0, Latest(t)'.step \in {"added", "replied"}
      PROVE  /\ Latest(t)'.id <= counter'[t]
             /\ \A i \in DOMAIN resident'[t] : i >= Latest(t)'.id => resident'[t][i] = disk
  <2>1. CASE t = s /\ disk = v
    <3>1. Latest(t)'.id = n /\ counter'[t] = n
      BY <1>1, <1>4, <2>1 DEF Latest, JobTypes
    <3>2. ASSUME NEW i \in DOMAIN resident'[s], i >= n PROVE i = n
      <4>1. i \notin DOMAIN resident[s]
        BY <1>1, <1>5, <3>2 DEF IdInv
      <4> QED BY <1>2, <3>2, <4>1
    <3> QED BY <1>1, <1>2, <2>1, <3>1, <3>2
  <2>2. CASE ~(t = s /\ disk = v)
    <3>1. Latest(t)' = Latest(t) /\ Latest(t).id \in Nat
      BY <1>1, <1>4, <1>7, <1>8, <2>2 DEF Latest, JobTypes
    <3>2. Latest(t)'.id <= counter'[t]
      BY <1>5, <1>8, <3>1 DEF FreshInv
    <3>3. \A i \in DOMAIN resident'[t] : i >= Latest(t)'.id => resident'[t][i] = disk
      BY <1>2, <1>8, <3>1 DEF FreshInv
    <3> QED BY <3>2, <3>3
  <2> QED BY <2>1, <2>2
<1>9. \A t \in Servers : disk # 0 /\ Latest(t)'.step = "replied" => Latest(t)' = Latest(t)
  BY <1>1, <1>4, <1>7 DEF Latest
<1>10. FreshInv'
  BY <1>1, <1>8, <1>9 DEF FreshInv
<1>11. trainer = "sample" => \A t \in Servers : Latest(t)' = Latest(t)
  BY <1>1, <1>4, <1>7 DEF Latest, SampleInv
<1>12. SampleInv'
  BY <1>1, <1>11 DEF SampleInv
<1>13. RequestInv'
  BY <1>1, <1>5, <1>11 DEF RequestInv
<1> QED BY <1>3, <1>6, <1>10, <1>12, <1>13

\* The name never goes back to an older id.
LEMMA RegisterJob ==
  ASSUME JobInv, NEW s \in Servers, NEW v \in Saves, Register(s, v)
  PROVE  JobInv'
<1> USE DEF JobInv
<1>1. /\ call' = [call EXCEPT ![s][v] = [step |-> "replied", id |-> call[s][v].id]]
      /\ call[s][v].step = "added" /\ lock[s] = v /\ call[s][v].id = counter[s]
      /\ registered' = [registered EXCEPT ![s] = counter[s]]
      /\ lock' = [lock EXCEPT ![s] = None]
      /\ UNCHANGED <<counter, resident, disk, trainer, request>>
  BY DEF Register, Step, job, IdInv
<1>2. JobTypes'
  BY <1>1 DEF JobTypes, CallSteps
<1>3. \A t \in Servers, u \in Saves :
        call'[t][u] = IF t = s /\ u = v THEN [step |-> "replied", id |-> counter[s]]
                      ELSE call[t][u]
  BY <1>1 DEF JobTypes
<1>4. \A t \in Servers : /\ registered'[t] = IF t = s THEN counter[s] ELSE registered[t]
                         /\ counter[t] \in Nat /\ registered[t] \in Nat
                         /\ registered[t] <= counter[t]
  BY <1>1 DEF JobTypes, IdInv
<1>5. IdInv'
  <2> SUFFICES ASSUME NEW t \in Servers
               PROVE  /\ registered'[t] <= counter'[t]
                      /\ DOMAIN resident'[t] \subseteq 0..counter'[t]
                      /\ \A u \in Saves :
                           /\ call'[t][u].step \in {"removed", "added"} => lock'[t] = u
                           /\ call'[t][u].step = "added" => call'[t][u].id = counter'[t]
    BY DEF IdInv
  <2>1. registered'[t] <= counter'[t] /\ DOMAIN resident'[t] \subseteq 0..counter'[t]
    BY <1>1, <1>4 DEF IdInv
  <2>2. ASSUME NEW u \in Saves
        PROVE  /\ call'[t][u].step \in {"removed", "added"} => lock'[t] = u
               /\ call'[t][u].step = "added" => call'[t][u].id = counter'[t]
    <3>1. CASE t = s
      BY <1>1, <1>3, <3>1 DEF IdInv
    <3>2. CASE t # s
      BY <1>1, <1>3, <3>2 DEF IdInv, JobTypes
    <3> QED BY <3>1, <3>2
  <2> QED BY <2>1, <2>2
<1>6. disk # 0 => disk \in Saves
  BY VllmAssumption DEF JobTypes, Saves
<1>7. \A t \in Servers : disk # 0 =>
        /\ Latest(t)'.step \in {"added", "replied"} => Latest(t).step \in {"added", "replied"}
        /\ Latest(t)'.id = Latest(t).id
  BY <1>1, <1>3, <1>6 DEF Latest
<1>8. ASSUME NEW t \in Servers, disk # 0, Latest(t)'.step = "replied"
      PROVE  Latest(t)'.id <= registered'[t]
  <2>1. CASE t = s
    BY <1>4, <1>7, <1>8, <2>1 DEF FreshInv
  <2>2. CASE t # s
    <3>1. Latest(t)' = Latest(t)
      BY <1>1, <1>3, <1>6, <1>8, <2>2 DEF Latest
    <3> QED BY <1>4, <1>8, <2>2, <3>1 DEF FreshInv
  <2> QED BY <2>1, <2>2
<1>9. FreshInv'
  BY <1>1, <1>7, <1>8 DEF FreshInv
<1>10. trainer = "sample" => \A t \in Servers : Latest(t)' = Latest(t)
  BY <1>1, <1>3, <1>6 DEF Latest, SampleInv
<1>11. SampleInv' /\ RequestInv'
  BY <1>1, <1>10 DEF SampleInv, RequestInv
<1> QED BY <1>2, <1>5, <1>9, <1>11

\* A new adapter: nothing is awaited, so nothing expects the old one.
LEMMA SaveJob == ASSUME JobInv, Save PROVE JobInv'
<1> USE DEF JobInv
<1>1. /\ disk' = disk + 1 /\ disk < MaxSaves /\ disk \in Nat /\ disk + 1 \in Saves
      /\ trainer' = "reload"
      /\ call' = [t \in Servers |-> [call[t] EXCEPT ![disk + 1].step = "sent"]]
      /\ request' = [r \in Requests |->
                       IF request[r].step = "running" THEN request[r] ELSE NoRequest]
      /\ Awaited = {}
      /\ UNCHANGED <<registered, counter, resident, lock>>
  BY VllmAssumption DEF Save, JobTypes, Saves, engines
<1>2. \A t \in Servers, u \in Saves :
        call'[t][u] = IF u = disk + 1 THEN [call[t][u] EXCEPT !.step = "sent"]
                      ELSE call[t][u]
  BY <1>1 DEF JobTypes
<1>3. JobTypes'
  <2>1. \A t \in Servers, u \in Saves :
          [call[t][u] EXCEPT !.step = "sent"] \in [step : CallSteps, id : Nat]
    BY DEF JobTypes, CallSteps
  <2>2. call' \in [Servers -> [Saves -> [step : CallSteps, id : Nat]]]
    BY <1>1, <2>1 DEF JobTypes
  <2>3. disk' \in 0..MaxSaves
    BY <1>1, VllmAssumption
  <2> QED BY <1>1, <2>2, <2>3 DEF JobTypes
<1>4. \A t \in Servers, u \in Saves :
        /\ call'[t][u].step \in {"removed", "added"} => call'[t][u] = call[t][u]
        /\ u = disk + 1 => call'[t][u].step = "sent"
  BY <1>1, <1>2 DEF JobTypes
<1>5. IdInv'
  BY <1>1, <1>4 DEF IdInv
<1>6. FreshInv' /\ SampleInv'
  BY <1>1, <1>4 DEF FreshInv, SampleInv, Latest
<1>7. RequestInv'
  <2> SUFFICES ASSUME NEW r \in Requests
               PROVE  /\ request'[r] \in [at : Servers \union {None}, id : Nat, want : Nat,
                                used : SUBSET Nat, step : RequestSteps, awaited : BOOLEAN]
                      /\ request'[r].step # "free" =>
                           request'[r].at \in Servers
                             /\ request'[r].id <= counter'[request'[r].at]
                      /\ request'[r].step = "answered" => request'[r].used # {}
                      /\ ~request'[r].awaited
    BY DEF RequestInv
  <2>1. CASE request[r].step = "running"
    BY <1>1, <2>1 DEF RequestInv, Awaited
  <2>2. CASE request[r].step # "running"
    BY <1>1, <2>2 DEF NoRequest, RequestSteps
  <2> QED BY <2>1, <2>2
<1> QED BY <1>3, <1>5, <1>6, <1>7

\* The calls of the latest save have all been answered: whoever asks now is
\* given its id or a later one.
LEMMA ReloadedJob == ASSUME JobInv, Reloaded PROVE JobInv'
<1> USE DEF JobInv
<1>1. /\ trainer = "reload" /\ trainer' = "sample"
      /\ \A s \in Servers : call[s][disk].step = "replied"
      /\ UNCHANGED <<registered, counter, resident, call, lock, disk, request>>
  BY DEF Reloaded, engines, calls
<1>2. JobTypes' /\ IdInv' /\ FreshInv'
  BY <1>1 DEF JobTypes, IdInv, FreshInv, Latest
<1>3. SampleInv' /\ RequestInv'
  BY <1>1 DEF SampleInv, RequestInv, Latest
<1> QED BY <1>2, <1>3

LEMMA NewJobJob == ASSUME JobInv, NewJob PROVE JobInv'
<1> USE DEF JobInv
<1>1. /\ trainer' = "save"
      /\ request' = [r \in Requests |-> [request[r] EXCEPT !.awaited = FALSE]]
      /\ UNCHANGED <<registered, counter, resident, call, lock, disk>>
  BY DEF NewJob, engines, calls
<1>2. JobTypes' /\ IdInv' /\ FreshInv' /\ SampleInv'
  BY <1>1 DEF JobTypes, IdInv, FreshInv, SampleInv, Latest
<1>3. RequestInv'
  <2> SUFFICES ASSUME NEW r \in Requests
               PROVE  /\ request'[r] \in [at : Servers \union {None}, id : Nat, want : Nat,
                                used : SUBSET Nat, step : RequestSteps, awaited : BOOLEAN]
                      /\ request'[r].step # "free" =>
                           request'[r].at \in Servers
                             /\ request'[r].id <= counter'[request'[r].at]
                      /\ request'[r].step = "answered" => request'[r].used # {}
                      /\ ~request'[r].awaited
    BY DEF RequestInv
  <2> QED BY <1>1 DEF RequestInv
<1> QED BY <1>2, <1>3

\* What a request must satisfy, by itself.
RequestOK(q) ==
  /\ q \in [at : Servers \union {None}, id : Nat, want : Nat,
            used : SUBSET Nat, step : RequestSteps, awaited : BOOLEAN]
  /\ q.step # "free" => q.at \in Servers /\ q.id <= counter[q.at]
  /\ q.step = "answered" => q.used # {}
  /\ q.awaited => /\ q.step # "free"
                  /\ trainer = "sample" /\ q.want = disk
                  /\ q.id >= Latest(q.at).id
                  /\ q.used \subseteq {disk}

LEMMA OneRequest ==
  ASSUME JobInv, NEW r \in Requests, NEW q,
         request' = [request EXCEPT ![r] = q],
         RequestOK(q),
         UNCHANGED <<registered, counter, resident, calls, disk, trainer>>
  PROVE  JobInv'
<1> USE DEF JobInv
<1>1. UNCHANGED <<call, lock>>
  BY DEF calls
<1>2. JobTypes' /\ IdInv' /\ FreshInv' /\ SampleInv'
  BY <1>1 DEF JobTypes, IdInv, FreshInv, SampleInv, Latest
<1>3. \A u \in Requests : request'[u] = IF u = r THEN q ELSE request[u]
  BY DEF JobTypes
<1>4. RequestInv'
  BY <1>1, <1>3 DEF RequestInv, RequestOK, Latest
<1> QED BY <1>2, <1>4

LEMMA AskJob ==
  ASSUME JobInv, NEW r \in Requests, NEW s \in Servers, Ask(r, s)
  PROVE  JobInv'
<1> USE DEF JobInv
<1> DEFINE q == [at |-> s, id |-> registered[s], want |-> disk, used |-> {},
                 step |-> "running", awaited |-> TRUE]
<1>1. /\ trainer = "sample" /\ request' = [request EXCEPT ![r] = q]
      /\ UNCHANGED <<registered, counter, resident, calls, disk, trainer>>
  BY DEF Ask, engines, job
<1>2. RequestOK(q)
  <2>1. registered[s] \in Nat /\ registered[s] <= counter[s] /\ disk \in Nat
    BY VllmAssumption DEF JobTypes, IdInv
  <2>2. Latest(s).id <= registered[s] /\ Latest(s).id \in Nat
    <3>1. disk \in Saves /\ Latest(s).step = "replied"
      BY <1>1, VllmAssumption DEF SampleInv, JobTypes, Saves
    <3> QED BY <1>1, <3>1 DEF FreshInv, SampleInv, JobTypes, Latest
  <2> QED BY <1>1, <2>1, <2>2 DEF RequestOK, RequestSteps
<1> HIDE DEF q
<1> QED BY <1>1, <1>2, OneRequest

LEMMA EndJob ==
  ASSUME JobInv, NEW r \in Requests, Answer(r) \/ Abandon(r)
  PROVE  JobInv'
<1> USE DEF JobInv
<1>1. RequestOK(request[r]) /\ UNCHANGED <<registered, counter, resident, calls, disk, trainer>>
  BY DEF RequestInv, RequestOK, Answer, Abandon, engines, job
<1>2. CASE Answer(r)
  <2> DEFINE q == [request[r] EXCEPT !.step = "answered"]
  <2>1. RequestOK(q)
    BY <1>1, <1>2 DEF RequestOK, RequestSteps, Answer
  <2>2. request' = [request EXCEPT ![r] = q]
    BY <1>2 DEF Answer
  <2> HIDE DEF q
  <2> QED BY <1>1, <2>1, <2>2, OneRequest
<1>3. CASE Abandon(r)
  <2> DEFINE q == [request[r] EXCEPT !.awaited = FALSE]
  <2>1. RequestOK(q)
    BY <1>1 DEF RequestOK
  <2>2. request' = [request EXCEPT ![r] = q]
    BY <1>3 DEF Abandon
  <2> HIDE DEF q
  <2> QED BY <1>1, <2>1, <2>2, OneRequest
<1> QED BY <1>2, <1>3

\* An adapter that is read again is read from the one path, that of the latest.
LEMMA ReadAgain ==
  ASSUME JobInv, NEW s \in Servers, NEW id \in 0..counter[s],
         NEW a \in Loaded(resident[s], id, disk),
         resident' = [resident EXCEPT ![s] = a],
         UNCHANGED <<registered, counter, calls, disk, trainer, request>>
  PROVE  JobInv'
<1> USE DEF JobInv
<1>1. UNCHANGED <<call, lock>>
  BY DEF calls
<1>2. /\ DOMAIN resident' = Servers
      /\ \A t \in Servers \ {s} : resident'[t] = resident[t]
      /\ DOMAIN resident'[s] \subseteq DOMAIN resident[s] \union {id}
      /\ \A i \in DOMAIN resident'[s] :
           resident'[s][i] = IF i = id THEN disk ELSE resident[s][i]
  BY LoadedKeeps DEF JobTypes
<1>3. JobTypes' /\ SampleInv' /\ RequestInv'
  BY <1>1, <1>2 DEF JobTypes, SampleInv, RequestInv, Latest
<1>4. IdInv'
  <2>1. ASSUME NEW t \in Servers PROVE DOMAIN resident'[t] \subseteq 0..counter[t]
    <3>1. CASE t = s
      BY <1>2, <3>1 DEF IdInv
    <3>2. CASE t # s
      BY <1>2, <3>2 DEF IdInv
    <3> QED BY <3>1, <3>2
  <2> QED BY <1>1, <2>1 DEF IdInv
<1>5. FreshInv'
  <2>1. ASSUME disk # 0, NEW t \in Servers, Latest(t).step \in {"added", "replied"},
               NEW i \in DOMAIN resident'[t], i >= Latest(t).id
        PROVE  resident'[t][i] = disk
    <3>1. CASE t = s
      BY <1>2, <2>1, <3>1 DEF FreshInv
    <3>2. CASE t # s
      BY <1>2, <2>1, <3>2 DEF FreshInv
    <3> QED BY <3>1, <3>2
  <2> QED BY <1>1, <2>1 DEF FreshInv, Latest
<1> QED BY <1>3, <1>4, <1>5

\* What is decoded with the latest adapter's id or a later one is its weights.
LEMMA DecodeJob ==
  ASSUME JobInv, NEW r \in Requests, Decode(r)
  PROVE  JobInv'
<1> USE DEF JobInv
<1> DEFINE s == request[r].at
           id == request[r].id
<1>1. /\ RequestOK(request[r]) /\ request[r].step = "running"
      /\ s \in Servers /\ id \in 0..counter[s]
      /\ UNCHANGED <<registered, counter, calls, disk, trainer>>
  <2>1. RequestOK(request[r]) /\ request[r].step = "running"
        /\ UNCHANGED <<registered, counter, calls, disk, trainer>>
    BY DEF RequestInv, RequestOK, Decode, job
  <2>2. s \in Servers /\ id \in Nat /\ id <= counter[s]
    BY <2>1 DEF RequestOK
  <2>3. counter[s] \in Nat
    BY <2>2 DEF JobTypes
  <2> QED BY <2>1, <2>2, <2>3
<1>2. CASE id \in DOMAIN resident[s]
  <2> DEFINE w == resident[s][id]
             q == [request[r] EXCEPT !.used = @ \union {w}]
  <2>1. request' = [request EXCEPT ![r] = q] /\ UNCHANGED resident
    BY <1>2 DEF Decode
  <2>2. request[r].awaited => w = disk
    <3>1. SUFFICES ASSUME request[r].awaited PROVE w = disk
      OBVIOUS
    <3>2. trainer = "sample" /\ id >= Latest(s).id
      BY <1>1, <3>1 DEF RequestOK
    <3>3. disk # 0
      BY <3>2 DEF JobTypes
    <3>4. Latest(s).step = "replied"
      BY <1>1, <3>2 DEF SampleInv
    <3> HIDE DEF s, id
    <3> QED BY <1>1, <1>2, <3>2, <3>3, <3>4 DEF FreshInv
  <2>3. w \in Nat
    BY <1>1, <1>2 DEF JobTypes
  <2>4. RequestOK(q)
    BY <1>1, <2>2, <2>3 DEF RequestOK, RequestSteps
  <2> HIDE DEF q
  <2> QED BY <1>1, <2>1, <2>4, OneRequest
<1>3. CASE id \notin DOMAIN resident[s]
  <2>1. PICK a \in Loaded(resident[s], id, disk) : resident' = [resident EXCEPT ![s] = a]
    BY <1>3 DEF Decode
  <2>2. UNCHANGED request
    BY <1>3 DEF Decode
  <2> HIDE DEF s, id
  <2> QED BY <1>1, <2>1, <2>2, ReadAgain
<1> QED BY <1>2, <1>3

LEMMA NextJobInv == ASSUME JobInv, [Next]_vars PROVE JobInv'
<1>1. ASSUME NEW s \in Servers, Boot(s) PROVE JobInv'
  <2>1. UNCHANGED <<engines, calls, disk, trainer, request>>
    BY <1>1 DEF Boot, Construct, Start, ReleasePort, Bind, EngineUp, Serve,
                TaskEnds, Healthy, Refused, NextTurn, Shutdown, job
  <2> QED BY <2>1, Elsewhere
<1>2. CASE UNCHANGED vars \/ \E p \in Ports : Squat(p)
  <2>1. UNCHANGED <<engines, calls, disk, trainer, request>>
    BY <1>2 DEF vars, job, Squat
  <2> QED BY <2>1, Elsewhere
<1>3. ASSUME NEW s \in Servers, Load(s) PROVE JobInv'
  BY <1>3, RemoveJob, AddJob, RegisterJob DEF Load
<1>4. CASE Job
  BY <1>4, SaveJob, ReloadedJob, NewJobJob, EndJob, AskJob DEF Job
<1>5. CASE Sampling
  BY <1>5, DecodeJob, EndJob DEF Sampling
<1> QED BY <1>1, <1>2, <1>3, <1>4, <1>5 DEF Next

\* What the trainer learns from was sampled with the weights it saved last, as
\* a whole.
THEOREM TrainsOnPolicy == Spec => []OnPolicy
<1>1. JobInv => OnPolicy
  <2> SUFFICES ASSUME JobInv, NEW r \in Requests,
                      request[r].awaited, request[r].step = "answered"
               PROVE  request[r].used = {request[r].want}
    BY DEF OnPolicy
  <2>1. request[r].used # {} /\ request[r].used \subseteq {disk} /\ request[r].want = disk
    BY DEF JobInv, RequestInv
  <2> QED BY <2>1
<1> QED BY <1>1, InitJob, NextJobInv, PTL DEF Spec

-----------------------------------------------------------------------------
(* The database of a training server *)

Versions == Nat \union {Absent}

\* A process that moves its copy has written all of it.
CopyInv ==
  /\ DOMAIN pc = Procs /\ DOMAIN copy = Procs /\ DOMAIN tmp = Procs
  /\ live \in Versions /\ durable \in Versions /\ synced \in Nat
  /\ \A p \in Procs : /\ pc[p] \in {"copy", "move"} => copy[p] \in Nat
                      /\ pc[p] = "move" => tmp[p] = copy[p]

\* Before any trap only the daemon takes snapshots, while its server is up.
DaemonInv ==
  ~trapped => /\ pc["once"] = "off" /\ cleanup = "off"
              /\ pc["daemon"] # "off" => server = "up"

\* What the daemon will move is no older than what is durable, which has all
\* that was synced, and the server's database is no older than either.
AgeInv ==
  ~trapped =>
    /\ pc["daemon"] \in {"copy", "move"} => live # Absent /\ live >= copy["daemon"]
    /\ IF durable = Absent THEN synced = 0
       ELSE /\ durable >= synced
            /\ server = "up" => live # Absent /\ live >= durable
            /\ pc["daemon"] \in {"copy", "move"} => copy["daemon"] >= durable

DbInv == CopyInv /\ DaemonInv /\ AgeInv

-----------------------------------------------------------------------------

LEMMA InitDb == DbInit => DbInv
BY DEF DbInit, DbInv, CopyInv, DaemonInv, AgeInv, Versions, Procs

\* A step of snapshot() keeps the invariant, and moves only what is no older.
LEMMA SnapshotStep ==
  ASSUME DbInv, NEW p \in Procs, Snapshot(p)
  PROVE  DbInv' /\ (~trapped /\ durable # Absent => durable' >= durable)
<1> USE SnapshotAssumption
    DEF DbInv, CopyInv, DaemonInv, AgeInv, Versions, Return, WriteTo, procs, Procs
<1>1. CASE CheckLive(p)
  BY <1>1 DEF CheckLive
<1>2. CASE OpenLive(p)
  BY <1>2 DEF OpenLive
<1>3. CASE BackupDone(p)
  BY <1>3 DEF BackupDone
<1>4. CASE BackupFails(p)
  BY <1>4 DEF BackupFails
<1>5. CASE Move(p)
  <2>1. /\ durable' = copy[p] /\ copy[p] \in Nat
        /\ synced' = IF p = "daemon" THEN copy[p] ELSE synced
        /\ UNCHANGED <<server, live, copy, cleanup, trapped>>
    BY <1>5 DEF Move, Moved
  <2>2. /\ DOMAIN pc' = Procs /\ DOMAIN tmp' = Procs
        /\ pc'[p] \in {"off", "asleep"}
        /\ p = "once" => pc'[p] = "off"
        /\ \A o \in Procs \ {p} : pc'[o] = pc[o] /\ tmp'[o] = tmp[o]
    BY <1>5 DEF Move
  <2>3. ~trapped => p = "daemon"
    BY <1>5 DEF Move
  <2>4. CopyInv'
    <3>1. \A o \in Procs : /\ pc'[o] \in {"copy", "move"} => copy'[o] \in Nat
                           /\ pc'[o] = "move" => tmp'[o] = copy'[o]
      BY <2>1, <2>2
    <3> QED BY <2>1, <2>2, <3>1
  <2>5. DaemonInv' /\ AgeInv'
    BY <1>5, <2>1, <2>2, <2>3 DEF Move
  <2>6. ~trapped /\ durable # Absent => durable' >= durable
    BY <1>5, <2>1, <2>3 DEF Move
  <2> QED BY <2>4, <2>5, <2>6
<1> QED BY <1>1, <1>2, <1>3, <1>4, <1>5 DEF Snapshot

\* Every other step leaves what is durable alone.
LEMMA OtherStep ==
  ASSUME DbInv,
         \/ StartRun \/ Write \/ Wake \/ ServerEnds \/ StopDaemon \/ RemoveLive
         \/ RemoveDir \/ Kill \/ UNCHANGED dbVars
  PROVE  DbInv' /\ durable' = durable
<1> USE SnapshotAssumption
    DEF DbInv, CopyInv, DaemonInv, AgeInv, Versions, procs, Procs
<1>1. CASE StartRun
  BY <1>1 DEF StartRun, Seed
<1>2. CASE Write
  BY <1>2 DEF Write
<1>3. CASE Wake
  BY <1>3 DEF Wake
<1>4. CASE ServerEnds
  BY <1>4 DEF ServerEnds
<1>5. CASE StopDaemon
  BY <1>5 DEF StopDaemon
<1>6. CASE RemoveLive
  BY <1>6 DEF RemoveLive
<1>7. CASE RemoveDir
  BY <1>7 DEF RemoveDir
<1>8. CASE Kill
  BY <1>8 DEF Kill
<1>9. CASE UNCHANGED dbVars
  BY <1>9 DEF dbVars
<1> QED BY <1>1, <1>2, <1>3, <1>4, <1>5, <1>6, <1>7, <1>8, <1>9

LEMMA DbStep ==
  ASSUME DbInv, [DbNext]_dbVars
  PROVE  DbInv' /\ (~trapped /\ durable # Absent => durable' >= durable)
<1>1. CASE \E p \in Procs : Snapshot(p)
  BY <1>1, SnapshotStep
<1>2. CASE ~\E p \in Procs : Snapshot(p)
  <2>1. DbInv' /\ durable' = durable
    BY <1>2, OtherStep DEF DbNext
  <2> QED BY <2>1, SnapshotAssumption DEF DbInv, CopyInv, Versions
<1> QED BY <1>1, <1>2

\* The durable database is never half written, has what the daemon's last
\* good snapshot saw, and never goes back, until an exit trap has run.
THEOREM DurableKept == DbSpec => NothingDurableLost
<1>1. DbInv => NeverHalfWritten /\ LossBounded
  BY SnapshotAssumption
     DEF DbInv, CopyInv, AgeInv, Versions, NeverHalfWritten, LossBounded
<1>2. DbInv /\ [DbNext]_dbVars => DbInv'
  BY DbStep
<1>3. DbInv /\ [DbNext]_dbVars
        => [~trapped /\ durable # Absent => durable' >= durable]_durable
  BY DbStep
<1> QED BY InitDb, <1>1, <1>2, <1>3, PTL
        DEF DbSpec, NothingDurableLost, NeverBackwards
=============================================================================
