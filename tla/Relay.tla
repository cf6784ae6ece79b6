------------------------------- MODULE Relay -------------------------------
(***************************************************************************)
(* The reverse relay of harbor/relay/: agents reach a private node's vLLM  *)
(* through a public relay, over a WebSocket the node's bridge dials out.   *)
(* Both programs are single event loops; an action is the code between two *)
(* awaits.  A connection is known to the network (alive), to the relay's   *)
(* handler and to the bridge, and each learns of its end in its own time.  *)
(***************************************************************************)
EXTENDS Integers, FiniteSets

CONSTANTS
  Nodes,        \* nodes running a bridge to this relay
  Requests,     \* HTTP requests of agents (a retry is another request)
  MaxConns,     \* bound: connections ever made; the last one stays up
  Nobody

ASSUME RelayAssumption ==
  /\ IsFiniteSet(Nodes) /\ IsFiniteSet(Requests)
  /\ MaxConns \in Nat \ {0}
  /\ Nobody \notin Nat

Conns == 1..MaxConns

VARIABLES
  made,       \* connections made so far
  alive,      \* connections the network still carries
  handlers,   \* connections whose bridge() handler runs on the relay
  current,    \* node -> the connection its bridge holds, or Nobody
  bridge_ws,  \* bridge_ws["ws"]
  pending,    \* requests with an entry in pending
  fut,        \* request -> "none", "open" or "set"
  send_lock,  \* the request whose proxy() holds it, or Nobody
  stage,         \* request -> where its proxy() is
  ws,         \* request -> the connection proxy() captured
  status,     \* request -> HTTP status of the finished request, or Nobody
  toNode,     \* connection -> requests whose frames travel to the node
  toRelay,    \* connection -> requests whose answers travel to the relay
  parsing,    \* connection -> answer being parsed off the loop, or Nobody
  calls       \* <<r, c>>: handle() runs for request r that came over c

proxies == <<bridge_ws, pending, fut, send_lock, stage, ws, status>>
wire == <<made, alive, handlers, current>>
frames == <<toNode, toRelay, parsing, calls>>
relayVars == <<proxies, wire, frames>>

RelayInit ==
  /\ made = 0 /\ alive = {} /\ handlers = {}
  /\ current = [n \in Nodes |-> Nobody]
  /\ bridge_ws = Nobody /\ pending = {} /\ send_lock = Nobody
  /\ fut = [r \in Requests |-> "none"]
  /\ stage = [r \in Requests |-> "new"]
  /\ ws = [r \in Requests |-> Nobody]
  /\ status = [r \in Requests |-> Nobody]
  /\ toNode = [c \in Conns |-> {}] /\ toRelay = [c \in Conns |-> {}]
  /\ parsing = [c \in Conns |-> Nobody]
  /\ calls = {}

Finish(r, code) ==
  /\ stage' = [stage EXCEPT ![r] = "done"]
  /\ status' = [status EXCEPT ![r] = code]

-----------------------------------------------------------------------------
(* proxy() *)

Arrive(r) ==
  /\ stage[r] = "new"
  /\ IF bridge_ws = Nobody THEN Finish(r, 503) /\ UNCHANGED ws
     ELSE /\ ws' = [ws EXCEPT ![r] = bridge_ws]
          /\ stage' = [stage EXCEPT ![r] = "body"]
          /\ UNCHANGED status
  /\ UNCHANGED <<bridge_ws, pending, fut, send_lock, wire, frames>>

Registered(r) == pending \union {r}

\* The body has been read.
Enqueue(r) ==
  /\ stage[r] = "body"
  /\ pending' = Registered(r)
  /\ fut' = [fut EXCEPT ![r] = "open"]
  /\ stage' = [stage EXCEPT ![r] = "queued"]
  /\ UNCHANGED <<bridge_ws, send_lock, ws, status, wire, frames>>

MaySend(r) == stage[r] = "queued" /\ send_lock = Nobody

StartSend(r) ==
  /\ MaySend(r)
  /\ send_lock' = r
  /\ stage' = [stage EXCEPT ![r] = "sending"]
  /\ UNCHANGED <<bridge_ws, pending, fut, ws, status, wire, frames>>

\* The frame leaves; on a connection that is gone unnoticed it is lost.
SendDone(r) ==
  /\ stage[r] = "sending" /\ ws[r] \in handlers
  /\ toNode' = IF ws[r] \in alive THEN [toNode EXCEPT ![ws[r]] = @ \union {r}]
               ELSE toNode
  /\ send_lock' = Nobody
  /\ stage' = [stage EXCEPT ![r] = "waiting"]
  /\ UNCHANGED <<bridge_ws, pending, fut, ws, status, wire, toRelay, parsing,
                 calls>>

\* send_text raises: an unhandled error, which leaves pending as it is.
SendRaises(r) ==
  /\ stage[r] = "sending" /\ ws[r] \notin alive
  /\ send_lock' = Nobody
  /\ Finish(r, 500)
  /\ UNCHANGED <<bridge_ws, pending, fut, ws, wire, frames>>

Respond(r) ==
  /\ stage[r] = "waiting" /\ fut[r] = "set"
  /\ Finish(r, 200)
  /\ UNCHANGED <<bridge_ws, pending, fut, send_lock, ws, wire, frames>>

GivesUp_WhileConnected(r) == fut[r] = "open" /\ ws[r] \in handlers

GivesUp(r) == fut[r] = "open"

AfterTimeout_Leaks(r) == pending

AfterTimeout(r) == pending \ {r}

\* wait_for's 600 seconds are over.
Timeout(r) ==
  /\ stage[r] = "waiting" /\ GivesUp(r)
  /\ pending' = AfterTimeout(r)
  /\ Finish(r, 504)
  /\ UNCHANGED <<bridge_ws, fut, send_lock, ws, wire, frames>>

-----------------------------------------------------------------------------
(* bridge() of the relay: one handler per connection *)

Receive(c) ==
  /\ c \in handlers /\ parsing[c] = Nobody
  /\ \E r \in toRelay[c] :
       /\ parsing' = [parsing EXCEPT ![c] = r]
       /\ toRelay' = [toRelay EXCEPT ![c] = @ \ {r}]
  /\ UNCHANGED <<proxies, wire, toNode, calls>>

Resolve(c) ==
  /\ parsing[c] # Nobody
  /\ LET r == parsing[c]
     IN  /\ pending' = pending \ {r}
         /\ fut' = IF r \in pending THEN [fut EXCEPT ![r] = "set"] ELSE fut
  /\ parsing' = [parsing EXCEPT ![c] = Nobody]
  /\ UNCHANGED <<bridge_ws, send_lock, stage, ws, status, wire, toNode, toRelay,
                 calls>>

\* "finally: if bridge_ws["ws"] is ws".
AfterClose_Always(c) == Nobody

AfterClose(c) == IF bridge_ws = c THEN Nobody ELSE bridge_ws

HandlerEnds(c) ==
  /\ c \in handlers \ alive /\ parsing[c] = Nobody
  /\ handlers' = handlers \ {c}
  /\ bridge_ws' = AfterClose(c)
  /\ UNCHANGED <<pending, fut, send_lock, stage, ws, status, made, alive, current,
                 frames>>

-----------------------------------------------------------------------------
(* bridge.py *)

\* A bridge without a connection dials again; the relay accepts it.
Connect(n) ==
  /\ current[n] = Nobody /\ made < MaxConns
  /\ made' = made + 1
  /\ alive' = alive \union {made'}
  /\ handlers' = handlers \union {made'}
  /\ current' = [current EXCEPT ![n] = made']
  /\ bridge_ws' = made'
  /\ UNCHANGED <<pending, fut, send_lock, stage, ws, status, frames>>

BridgeNotices(n) ==
  /\ current[n] # Nobody /\ current[n] \notin alive
  /\ current' = [current EXCEPT ![n] = Nobody]
  /\ UNCHANGED <<proxies, made, alive, handlers, frames>>

TakeFrame(n) ==
  /\ current[n] # Nobody
  /\ \E r \in toNode[current[n]] :
       /\ calls' = calls \union {<<r, current[n]>>}
       /\ toNode' = [toNode EXCEPT ![current[n]] = @ \ {r}]
  /\ UNCHANGED <<proxies, wire, toRelay, parsing>>

\* The socket handle() was given with the request.
ReplySocket_Newest(c) == made

ReplySocket(c) == c

\* handle() ends: vLLM's answer, or a 502, goes back over the connection the
\* request came from and is dropped when that one is gone.
HandleEnds(r, c) ==
  /\ <<r, c>> \in calls
  /\ calls' = calls \ {<<r, c>>}
  /\ LET s == ReplySocket(c)
     IN  toRelay' = IF s \in alive THEN [toRelay EXCEPT ![s] = @ \union {r}]
                    ELSE toRelay
  /\ UNCHANGED <<proxies, wire, toNode, parsing>>

-----------------------------------------------------------------------------
\* The connection breaks (socket timeout, missed keepalive, network), with
\* everything that travels on it.
Break(c) ==
  /\ c \in alive /\ c < MaxConns
  /\ alive' = alive \ {c}
  /\ toNode' = [toNode EXCEPT ![c] = {}]
  /\ toRelay' = [toRelay EXCEPT ![c] = {}]
  /\ UNCHANGED <<proxies, made, handlers, current, parsing, calls>>

Proxy(r) == \/ Arrive(r) \/ Enqueue(r) \/ StartSend(r) \/ SendDone(r)
            \/ SendRaises(r) \/ Respond(r) \/ Timeout(r)

Handler(c) == Receive(c) \/ Resolve(c) \/ HandlerEnds(c)

Bridge(n) == Connect(n) \/ BridgeNotices(n) \/ TakeFrame(n)

RelayNext == \/ \E r \in Requests : Proxy(r) \/ \E c \in Conns : HandleEnds(r, c)
        \/ \E c \in Conns : Handler(c) \/ Break(c)
        \/ \E n \in Nodes : Bridge(n)

\* Event loops run their ready tasks; keepalives notice a dead connection;
\* vLLM calls end (600 s client timeout); the bridge dials for ever.  The
\* lock is given to its waiters in turn.
RelayFairness ==
  /\ \A r \in Requests :
       /\ WF_relayVars(Enqueue(r)) /\ SF_relayVars(StartSend(r))
       /\ WF_relayVars(SendDone(r) \/ SendRaises(r))
       /\ WF_relayVars(Respond(r)) /\ WF_relayVars(Timeout(r))
       /\ \A c \in Conns : WF_relayVars(HandleEnds(r, c))
  /\ \A c \in Conns : WF_relayVars(Handler(c))
  /\ \A n \in Nodes : WF_relayVars(Bridge(n))

RelaySpec == RelayInit /\ [][RelayNext]_relayVars /\ RelayFairness

-----------------------------------------------------------------------------
(* Properties *)

\* An answer that arrives at any moment, even before send_text has returned,
\* finds the future its request will wait for; and a finished request leaves
\* nothing behind in pending, except when its send failed (that path does not
\* clean up).
PendingIsOpen ==
  \A r \in Requests :
    /\ fut[r] = "open" /\ stage[r] # "done" => r \in pending
    /\ r \in pending /\ stage[r] = "done" => status[r] = 500

\* A request is answered over the connection it was sent on or not at all: a
\* reconnect never mixes up two sockets' traffic.
AnswerOnSameConnection ==
  \A c \in Conns :
    \A r \in toRelay[c] \union ({parsing[c]} \ {Nobody}) : ws[r] = c

\* "last connector wins all traffic": while the newest connection is alive it
\* is the one registered, although the end of the sockets it replaced is
\* noticed later, in any order.
LastConnectorWins == made \in alive => bridge_ws = made

\* Every request the relay accepted gets an answer or an error, whatever
\* happens to the connections.
EveryRequestEnds ==
  \A r \in Requests : stage[r] = "body" ~> stage[r] = "done"
=============================================================================
