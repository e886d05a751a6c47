-------------------------------- MODULE Wire --------------------------------
(***************************************************************************)
(* The TCP connections between the worker processes and the parameter      *)
(* server, at the granularity of whole messages: one framed message of     *)
(* comms/protocol.py is one element of a sequence.                         *)
(*                                                                         *)
(* A worker process dials the server exactly once, so a connection is      *)
(* named by the worker that opens it and by how many times that worker was *)
(* restarted before.  Every request carries the worker's own id; here the  *)
(* id is the first component of the connection.                            *)
(***************************************************************************)
EXTENDS Integers, Sequences

CONSTANTS Workers,      \* the worker ids given on the command line
          MaxRestarts,  \* bound: how often one worker may be started again
          MaxSteps      \* config.max_steps, the rounds one worker runs

ASSUME WireAssumption == /\ MaxRestarts \in Nat
                         /\ MaxSteps \in Nat \ {0}

Conns == Workers \X (0 .. MaxRestarts)
WorkerOf(c) == c[1]

(***************************************************************************)
(* The parameter values are abstracted to the number of updates they       *)
(* contain.  A pushed delta is known by its connection and by the "step"   *)
(* field of its message, the number of the worker's own iteration.         *)
(***************************************************************************)
Gradient == [conn : Conns, step : 0 .. MaxSteps - 1]

Plain(type) == [type |-> type]
Push(g) == [type |-> "PUSH_GRADIENTS", gradients |-> g]
Weights(version) == [type |-> "WEIGHTS_RESPONSE", weights |-> version]

Request == [type : {"PULL_WEIGHTS", "HEARTBEAT"}]
             \cup [type : {"PUSH_GRADIENTS"}, gradients : Gradient]
Response == [type : {"ACK", "HEARTBEAT_ACK"}]
              \cup [type : {"WEIGHTS_RESPONSE"}, weights : Nat]
-----------------------------------------------------------------------------
VARIABLES up,    \* up[c]: requests sent on c and not read by the server yet
          down,  \* down[c]: responses sent on c and not read by the worker yet
          open   \* the connections whose worker end is open

wireVars == <<up, down, open>>

WireInit == /\ up = [c \in Conns |-> <<>>]
            /\ down = [c \in Conns |-> <<>>]
            /\ open = {}

WireTypeOK == /\ up \in [Conns -> Seq(Request)]
              /\ down \in [Conns -> Seq(Response)]
              /\ open \subseteq Conns

ClientSend(c, m) == up' = [up EXCEPT ![c] = Append(@, m)]

\* A response to a worker that is gone is lost (sendall fails with OSError, or
\* the bytes stay in a buffer that nobody reads).
ServerSend(c, m) ==
    down' = IF c \in open THEN [down EXCEPT ![c] = Append(@, m)] ELSE down

\* The process ends, however it ends, and the kernel closes its socket.
ClientClose(c) == /\ open' = open \ {c}
                  /\ down' = [down EXCEPT ![c] = <<>>]

\* The next request on c is of this type.
Requested(c, type) == up[c] # <<>> /\ Head(up[c]).type = type
ServerRecv(c) == up' = [up EXCEPT ![c] = Tail(@)]

\* The next response on c is of this type.
Responded(c, type) == down[c] # <<>> /\ Head(down[c]).type = type
ClientRecv(c) == down' = [down EXCEPT ![c] = Tail(@)]
=============================================================================
