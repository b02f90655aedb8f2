-------------------------------- MODULE Rpc ---------------------------------
(***************************************************************************)
(* A call from the generated client to a service method and back, and the  *)
(* server that is told to stop meanwhile: the envelope                     *)
(* (api/internal/transport/rpc.go), the HTTP carrier and its shutdown      *)
(* (api/internal/server/server.go), dispatch (api/internal/server/         *)
(* dispatch.go) and the browser's transport (webapp/src/lib/               *)
(* httpTransport.ts).                                                      *)
(*                                                                         *)
(* One HTTP exchange carries one call, so calls meet only in the server's  *)
(* shutdown.  A service method is any answer its operation can give.  The  *)
(* envelopes that occur are no larger than the carrier takes.              *)
(***************************************************************************)
EXTENDS Codec, Routes

CONSTANTS Callers,   \* calls in flight at the same time
          Foreign,   \* the callers that may be clients of another version
          OpsOf,     \* the operations, <<service, op>>, each caller uses
          Values(_), \* the values of a type that occur
          Others(_)  \* those of them that a client of another version sends

Ops == UNION {{<<s, op>> : op \in DOMAIN Client[s]} : s \in DOMAIN Client}

ASSUME RpcAssumption ==
  /\ Foreign \subseteq Callers
  /\ OpsOf \in [Callers -> SUBSET Ops]
  /\ \A o \in Ops :
       LET call == Client[o[1]][o[2]] IN
       /\ Others(call.request) \subseteq Values(call.request)
       /\ \A v \in Values(call.request) : OfType(call.request, v)
       /\ \A v \in Values(call.response) : OfType(call.response, v)
  /\ \A v \in Values(ServiceError) : OfType(ServiceError, v)

VARIABLES calls,    \* each call: where it is and what it carries
          server    \* "up", "draining", "stopped", or "killed" at the deadline

vars == <<calls, server>>

-----------------------------------------------------------------------------
\* Frames.

Version == 1
\* NewRpcRequest: the version, the two names and the encoded message.
Request(service, op, payload) ==
  [v |-> Version, service |-> service, op |-> op, payload |-> payload]

\* NewRpcResponseOk, NewRpcResponseTransportError.
Ok(variant, payload) ==
  [status |-> "ok", variant |-> variant, payload |-> payload]
Failed(status) == [status |-> status]

\* What another version of the client may send instead: it numbers envelopes
\* differently, calls an operation that is not there, uses the short name of
\* the service, leaves out or adds a field, lays them down the other way round,
\* or does so and then lays them down again.
Unknown == [key |-> "added", val |-> [major |-> "bool", bool |-> TRUE]]
EntryVariations(entries) ==
  LET at == DOMAIN entries
      back == {-i : i \in at}
  IN {[j \in at \ {i} |-> entries[j]] : i \in at} \cup
     {[j \in at \cup {0} |-> IF j = 0 THEN Unknown ELSE entries[j]],
      [j \in back |-> entries[-j]],
      [j \in back \cup at |-> IF j < 0 THEN entries[-j] ELSE entries[j]]}
Variations(frame) ==
  {[frame EXCEPT !.v = 2], [frame EXCEPT !.op = "retired"],
   [frame EXCEPT !.service = ServiceKey[@]]} \cup
  IF frame.payload.major # "map" THEN {}
  ELSE {[frame EXCEPT !.payload = [major |-> "map", entries |-> e]] :
          e \in EntryVariations(frame.payload.entries)}

-----------------------------------------------------------------------------
Idle == [at |-> "idle"]

Init ==
  /\ calls = [c \in Callers |-> Idle]
  /\ server = "up"

\* What the client makes of an operation it calls.
Declared(service, op) == Client[service][op]
RouteOf(service, op) == Routes[ServiceKey[service]][op]

\* The client encodes a message and posts it.  `own` says that this client does,
\* `early` that the server still accepted connections.
Call(o, own) ==
  [service |-> o[1], op |-> o[2], own |-> own, early |-> server = "up"]

Send(c) ==
  /\ calls[c] = Idle
  /\ \E o \in OpsOf[c] :
       LET request == Declared(o[1], o[2]).request IN
       \E v \in Values(request) :
         calls' = [calls EXCEPT ![c] =
           [at |-> "sent", call |-> Call(o, TRUE), sent |-> v,
            frame |-> Request(o[1], o[2], Enc(request, v))]]
  /\ UNCHANGED server

\* The same from a client of another version.
SendOther(c) ==
  /\ c \in Foreign
  /\ calls[c] = Idle
  /\ \E o \in OpsOf[c] :
       LET request == Declared(o[1], o[2]).request IN
       \E v \in Others(request) :
       \E frame \in Variations(Request(o[1], o[2], Enc(request, v))) :
         calls' = [calls EXCEPT ![c] =
           [at |-> "sent", call |-> Call(o, FALSE), sent |-> v,
            frame |-> frame]]
  /\ UNCHANGED server

-----------------------------------------------------------------------------
\* The server.

KnownOp(frame) == frame.op \in DOMAIN Routes[ServiceKey[frame.service]]

\* The version is checked first, then the names, then the message.
Decoded(frame) ==
  IF frame.v # Version THEN [refused |-> "malformed"]
  ELSE IF ~KnownOp(frame) THEN [refused |-> "unknown"]
  ELSE LET got == Dec(RouteOf(frame.service, frame.op).request, frame.payload)
       IN IF got.ok THEN [refused |-> "no", got |-> got.val]
          ELSE [refused |-> "malformed"]

\* handleRPC and dispatch, up to the service method.  A server that drains goes
\* on with the connections it has.
Receive(c) ==
  /\ calls[c].at = "sent"
  /\ server = "up" \/ (server = "draining" /\ calls[c].call.early)
  /\ LET request == Decoded(calls[c].frame) IN
     calls' = [calls EXCEPT ![c] =
       IF request.refused = "no"
       THEN [at |-> "running", call |-> @.call, sent |-> @.sent,
             got |-> request.got]
       ELSE [at |-> "answered", call |-> @.call,
             frame |-> Failed(request.refused),
             outcome |-> [is |-> "refused", value |-> request.refused]]]
  /\ UNCHANGED server

\* routeFallible and routeInfallible: a typed error goes out where the operation
\* has an arm for it, anything else without its message.
AnswerTo(route, outcome) ==
  CASE outcome.is = "reply" -> Ok("reply", Enc(route.response, outcome.value))
    [] outcome.is = "app_error" /\ route.errors ->
         Ok("ServiceError", Enc(ServiceError, outcome.value))
    [] OTHER -> Failed("internal")

\* The service method returns.
Outcomes(route) ==
  {[is |-> "reply", value |-> v] : v \in Values(route.response)} \cup
  {[is |-> "app_error", value |-> v] : v \in Values(ServiceError)} \cup
  {[is |-> "error", value |-> Nil]}

Return(c) ==
  /\ server \in {"up", "draining"}
  /\ calls[c].at = "running"
  /\ LET route == RouteOf(calls[c].call.service, calls[c].call.op) IN
     \E outcome \in Outcomes(route) :
       calls' = [calls EXCEPT ![c] =
         [at |-> "answered", call |-> @.call, outcome |-> outcome,
          frame |-> AnswerTo(route, outcome)]]
  /\ UNCHANGED server

-----------------------------------------------------------------------------
\* The browser's transport, and the client's decoder behind it.

Unpacked(is, decoded) ==
  IF decoded.ok THEN [is |-> is, value |-> decoded.val]
  ELSE [is |-> "undecodable", value |-> Nil]

Result(response, frame) ==
  IF frame.status # "ok" THEN [is |-> "transport", value |-> frame.status]
  ELSE IF frame.variant = "ServiceError"
  THEN Unpacked("app_error", Dec(ServiceError, frame.payload))
  ELSE Unpacked("reply", Dec(response, frame.payload))

Deliver(c) ==
  /\ server \in {"up", "draining"}
  /\ calls[c].at = "answered"
  /\ calls' = [calls EXCEPT ![c] =
       [at |-> "done", call |-> @.call, outcome |-> @.outcome,
        result |-> Result(Declared(@.call.service, @.call.op).response, @.frame)]]
  /\ UNCHANGED server

\* fetch fails: the connection breaks with the request or the answer in it, or
\* nobody accepts it.
Lost == [is |-> "network", value |-> Nil]

Break(c) ==
  /\ calls[c].at \in {"sent", "answered"}
  /\ calls' = [calls EXCEPT ![c] =
       [at |-> "done", call |-> @.call, outcome |-> Lost, result |-> Lost]]
  /\ UNCHANGED server

\* The client goes away while the method runs.  That cancels the context of the
\* request, and the method runs until it returns; nobody reads its answer.
Leave(c) ==
  /\ calls[c].at = "running"
  /\ calls' = [calls EXCEPT ![c] = [at |-> "left", call |-> @.call]]
  /\ UNCHANGED server

ReturnToNobody(c) ==
  /\ server \in {"up", "draining"}
  /\ calls[c].at = "left"
  /\ calls' = [calls EXCEPT ![c] =
       [at |-> "done", call |-> @.call, outcome |-> Lost, result |-> Lost]]
  /\ UNCHANGED server

\* The caller goes on to its next call.
Forget(c) ==
  /\ calls[c].at = "done"
  /\ calls' = [calls EXCEPT ![c] = Idle]
  /\ UNCHANGED server

-----------------------------------------------------------------------------
\* Shutdown.

\* Mutant: the server is closed, not shut down.
NoneActive == {}

\* Connections with a request that is being answered.
Active == {c \in Callers : calls[c].at \in {"running", "left", "answered"}}

\* SIGINT or SIGTERM.
Shutdown ==
  /\ server = "up"
  /\ server' = "draining"
  /\ UNCHANGED calls

\* http.Server.Shutdown returns when no connection is active, and the process
\* exits ...
Exit ==
  /\ server = "draining"
  /\ Active = {}
  /\ server' = "stopped"
  /\ UNCHANGED calls

\* Mutant: the context given to Shutdown has no deadline.
NoDeadline == FALSE /\ UNCHANGED vars

\* ... or when its ten seconds are over, and what still runs dies with it.
Deadline ==
  /\ server = "draining"
  /\ server' = "killed"
  /\ UNCHANGED calls

\* The callers of a process that is gone.
Cut(c) ==
  /\ server \in {"stopped", "killed"}
  /\ calls[c].at \in {"running", "left"}
  /\ calls' = [calls EXCEPT ![c] =
       [at |-> "done", call |-> @.call, outcome |-> Lost, result |-> Lost]]
  /\ UNCHANGED server

\* The process is started again.
Start ==
  /\ server \in {"stopped", "killed"}
  /\ \A c \in Callers : calls[c].at \in {"idle", "sent", "done"}
  /\ server' = "up"
  /\ UNCHANGED calls

Next ==
  \/ \E c \in Callers :
       \/ Send(c) \/ SendOther(c) \/ Receive(c) \/ Return(c) \/ Deliver(c)
       \/ Break(c) \/ Leave(c) \/ ReturnToNobody(c) \/ Forget(c) \/ Cut(c)
  \/ Shutdown \/ Exit \/ Deadline \/ Start

\* The clock runs; nobody says that a service method returns.
Spec == Init /\ [][Next]_vars /\ WF_vars(Deadline)
=============================================================================
