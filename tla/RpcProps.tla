------------------------------ MODULE RpcProps ------------------------------
(***************************************************************************)
(* What a call promises its two ends, over Rpc.                            *)
(***************************************************************************)
EXTENDS Rpc

\* csil/firepit.csil: the operations with a "/ ServiceError".
ErrorArms ==
  {"begin-login", "whoami", "get-board",
   "create-board", "update-board", "archive-board",
   "set-board-member", "remove-board-member", "create-category",
   "update-category", "delete-category", "create-post",
   "create-comment", "edit-post", "edit-comment",
   "delete-post", "delete-comment", "endorse",
   "retract", "update-settings", "grant-mention",
   "revoke-mention", "create-friend-group", "delete-friend-group",
   "add-friend", "remove-friend", "resolve-user",
   "subscribe", "unsubscribe", "set-muted",
   "create-github-mapping", "delete-github-mapping", "add-trusted-domain",
   "remove-trusted-domain"}

\* The hand-written routing table agrees with the generated client and with the
\* interface, whose types nest no deeper than the codec is unrolled (buildRoutes).
ASSUME InterfaceAssumption ==
  /\ \A o \in Ops :
       LET call == Client[o[1]][o[2]]
           key == ServiceKey[o[1]]
           route == Routes[key][o[2]]
       IN /\ ServiceKey[key] = key
          /\ o[2] \in DOMAIN Routes[key] /\ "retired" \notin DOMAIN Routes[key]
          /\ route.request = call.request /\ route.response = call.response
          /\ route.errors \in BOOLEAN
          /\ route.errors <=> o[2] \in ErrorArms
          /\ IsType(call.request) /\ IsType(call.response)
          /\ Unknown.key \notin Slots(call.request)
  /\ IsType(ServiceError)

\* A service method is only ever handed a whole message of its type, whichever
\* client sent it (csilDec functions, cborRequire).
TypeOK ==
  /\ server \in {"up", "draining", "stopped", "killed"}
  /\ \A c \in Callers :
       /\ calls[c].at \in {"idle", "sent", "running", "left", "answered", "done"}
       /\ calls[c].at = "running" =>
            LET call == calls[c].call IN
            OfType(Declared(call.service, call.op).request, calls[c].got)

\* What a decoder may make of a message of a client of another version: optional
\* fields of it may be gone.
Less(type, got, meant) ==
  /\ type.is = "message" /\ DOMAIN got = KeysOf(type)
  /\ \A k \in KeysOf(type) :
       got[k] = meant[k] \/ (FieldAt(type, k).optional /\ got[k] = Nil)

HandedOn(call, got, sent) ==
  LET request == Declared(call.service, call.op).request
      meant == Received(request, sent)
  IN got = meant \/ (~call.own /\ Less(request, got, meant))

HandedBack(call, outcome, result) ==
  LET response == Declared(call.service, call.op).response IN
  \/ result = Lost
  \/ /\ outcome.is = "reply"
     /\ result = [is |-> "reply", value |-> Received(response, outcome.value)]
  \/ /\ outcome.is = "app_error" /\ call.op \in ErrorArms
     /\ result = [is |-> "app_error",
                  value |-> Received(ServiceError, outcome.value)]
  \/ /\ outcome.is = "error"
        \/ (outcome.is = "app_error" /\ call.op \notin ErrorArms)
     /\ result = [is |-> "transport", value |-> "internal"]
  \/ /\ outcome.is = "refused" /\ ~call.own
     /\ result = [is |-> "transport", value |-> outcome.value]

\* What the method is handed is what the client was given, to the field: what is
\* absent stays absent, what is empty stays empty, and no number loses a byte.
\* Only a client of another version may leave out optional fields of it.
\* What the client returns is what the method answered: its reply, its
\* application error where the interface declares one, and otherwise that
\* something failed and nothing else.  Nothing this client sends is refused
\* (csilEnc and csilDec functions, buildRoutes, routeFallible,
\* routeInfallible, createHttpTransport).
EndToEnd ==
  \A c \in Callers :
    /\ calls[c].at = "running" =>
         HandedOn(calls[c].call, calls[c].got, calls[c].sent)
    /\ calls[c].at = "done" =>
         HandedBack(calls[c].call, calls[c].outcome, calls[c].result)

\* Every map that goes over the wire is canonical: its keys are in the canonical
\* order and none occurs twice, whichever optional fields are there (csilEnc
\* functions).
Canonical ==
  \A c \in Callers :
    /\ calls[c].at = "sent" /\ calls[c].call.own =>
         KeysInOrder(calls[c].frame.payload)
    /\ calls[c].at = "answered" /\ calls[c].frame.status = "ok" =>
         KeysInOrder(calls[c].frame.payload)

\* A service method that has been called gets to return, whenever the server is
\* told to stop and whether or not its client is still there, and its answer is
\* sent if it is, unless it outlives the ten seconds (ListenAndServe).
Drained ==
  [][\A c \in Callers : calls[c].at \in {"running", "left"} =>
       /\ server' # "stopped"
       /\ calls[c].at = "running" /\ calls'[c].at = "done" => server = "killed"]_vars

\* A server that is told to stop does, whatever its service methods do
\* (ListenAndServe).
Stops == server = "draining" ~> server \in {"stopped", "killed"}
=============================================================================
