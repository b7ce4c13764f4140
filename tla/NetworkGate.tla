---------------------------- MODULE NetworkGate ----------------------------
(***************************************************************************)
(* The network policy and barrier (packages/transports): which operations  *)
(* on which transports a mode allows, and what a request must present.  No *)
(* transport of the repository opens a connection.                         *)
(*                                                                         *)
(* Screen shield and device risk are part of the resolver's input and read *)
(* nowhere; a requested endpoint is absent, valid or invalid.              *)
(***************************************************************************)

NetworkModes ==
  {"standard", "private", "ghost", "bunker", "offline_capsule", "emergency", "sovereign_room"}

AlwaysForbiddenOperations ==
  {"telemetry.send", "asset.fetch", "link.preview", "ai.remote_request", "update.check"}

NetworkOperations ==
  AlwaysForbiddenOperations
    \cup {"network.connect", "network.request", "network.listen", "transport.send",
          "transport.receive", "transport.poll", "transport.sync", "transport.discovery"}

OfflineTransports == {"qr", "file", "usb"}

DirectPeerTransports == {"webrtc"}

\* TransportClass: the resolver knows "unknown" as one of them.
TransportClasses ==
  OfflineTransports \cup DirectPeerTransports
    \cup {"relay", "lan", "external_app", "email", "websocket", "http", "tor_proxy", "unknown"}

------------------------------------------------------------------------------
(* The policy                                                              *)

\* room and roomEndpoint are what a room policy says of allowed and of
\* allowsExternalEndpoint; allowsDirectPeerConnection is false in every policy.
NetworkQuestions ==
  [gate : {"network"}, mode : NetworkModes, operation : NetworkOperations,
   transport : TransportClasses, room : BOOLEAN, roomEndpoint : BOOLEAN]

\* An offline transport is a file or an image: no network operation.
Offline(q) == q.transport \in OfflineTransports

\* The transports a user may choose, each a placeholder.
ApprovedTransport(q) ==
  /\ q.mode \in {"standard", "private", "sovereign_room"}
  /\ q.transport \notin DirectPeerTransports \cup {"lan", "http", "websocket"}
  /\ q.operation # "transport.discovery"

\* resolveNetworkPolicy(q).allowed.
NetworkAllowed(q) ==
  /\ q.operation \notin AlwaysForbiddenOperations
  /\ \/ Offline(q) /\ q.mode # "emergency"
     \/ ~Offline(q) /\ ApprovedTransport(q)
  /\ q.room

\* Fault: only Standard asks for the user.
RequiresUserInitiationInStandard(q) ==
  /\ q.operation \notin AlwaysForbiddenOperations
  /\ ~Offline(q) /\ ApprovedTransport(q)
  /\ q.mode = "standard"

\* resolveNetworkPolicy(q).requiresUserInitiation: of the branches that allow a
\* network operation, a room's refusal apart.
RequiresUserInitiation(q) ==
  /\ q.operation \notin AlwaysForbiddenOperations
  /\ ~Offline(q) /\ ApprovedTransport(q)

\* resolveNetworkPolicy(q).allowsExternalEndpoint.
AllowsExternalEndpoint(q) ==
  /\ RequiresUserInitiation(q)
  /\ q.transport \in (IF q.mode = "sovereign_room" THEN {"relay"} ELSE {"relay", "email"})
  /\ q.roomEndpoint

------------------------------------------------------------------------------
(* The barrier                                                             *)

NetworkRequests ==
  [operation : NetworkOperations, transport : TransportClasses, userInitiated : BOOLEAN,
   endpoint : {"none", "valid", "invalid"}]

\* Fault: a request is believed to be the user's.
NetworkBarrierTrusts(request, decision, q) ==
  /\ decision.capability \in {"network", "directTransport"}
  /\ decision.verdict = "allowed"
  /\ decision.scope = request.operation
  /\ request.operation \notin {"telemetry.send", "asset.fetch", "link.preview"}
  /\ request.transport \notin DirectPeerTransports
  /\ NetworkAllowed(q)
  /\ request.endpoint # "none" => AllowsExternalEndpoint(q) /\ request.endpoint = "valid"

\* assertNetworkOperationAllowed.  The policy presented with a request may have
\* been resolved for another operation or another transport: neither is compared.
NetworkBarrierPasses(request, decision, q) ==
  /\ decision.capability \in {"network", "directTransport"}
  /\ decision.verdict = "allowed"
  /\ decision.scope = request.operation
  /\ request.operation \notin {"telemetry.send", "asset.fetch", "link.preview"}
  /\ request.transport \notin DirectPeerTransports
  /\ NetworkAllowed(q)
  /\ RequiresUserInitiation(q) => request.userInitiated
  /\ request.endpoint # "none" => AllowsExternalEndpoint(q) /\ request.endpoint = "valid"
==============================================================================
