------------------------- MODULE DeliveryService -------------------------
(***************************************************************************)
(* The delivery service of delivery-service/ds: a table of clients with    *)
(* their key packages and message queues, and the epoch of the last        *)
(* handshake message of each group.  Every handler runs under the clients  *)
(* lock (msg_send and reset also take the groups lock, always second), so  *)
(* a request is one atomic step on the record ds.                          *)
(*                                                                         *)
(* A key package is a record [owner, n]; its hash is itself.  A Welcome is *)
(* [type |-> "welcome", secrets |-> the key packages it is encrypted to,   *)
(* ...], a protocol message [type |-> "commit" or "app", gid, epoch, ...]. *)
(***************************************************************************)
EXTENDS Naturals, Sequences, SequencesExt, FiniteSets

(* DsData::default: no clients, no groups.                                 *)
DsData == [clients |-> <<>>, groups |-> <<>>]

(* A response: the status code, the state left behind and the body.        *)
Reply(status, ds, body) == [status |-> status, ds |-> ds, body |-> body]

(* ClientInfo::new: the queues are empty and the token is fresh.           *)
ClientInfo(key_packages, token) ==
  [key_packages |-> key_packages, reserved_key_pkg_hash |-> {},
   msgs |-> <<>>, welcome_queue |-> <<>>, auth_token |-> token]

SetClient(ds, id, client) ==
  [ds EXCEPT !.clients = (id :> client) @@ @]

(* The client's identity is the credential of its first key package.       *)
RegisterClient(ds, key_packages, token) ==
  IF key_packages = <<>> THEN Reply("BAD_REQUEST", ds, <<>>)
  ELSE LET id == key_packages[1].owner IN
       IF id \in DOMAIN ds.clients THEN Reply("CONFLICT", ds, <<>>)
       ELSE Reply("OK", SetClient(ds, id, ClientInfo(key_packages, token)), token)

ListClients(ds) == Reply("OK", ds, DOMAIN ds.clients)

(* A request without the reset-key header resets as well.                  *)
ResetServer == Reply("OK", DsData, <<>>)

GetKeyPackages(ds, id) ==
  IF id \notin DOMAIN ds.clients THEN Reply("NO_CONTENT", ds, <<>>)
  ELSE Reply("OK", ds, ds.clients[id].key_packages)

(* New key packages go to the end of the vector.                           *)
PublishKeyPackages(ds, id, token, key_packages) ==
  IF id \notin DOMAIN ds.clients THEN Reply("NOT_FOUND", ds, <<>>)
  ELSE IF ds.clients[id].auth_token # token THEN Reply("UNAUTHORIZED", ds, <<>>)
  ELSE Reply("OK",
             SetClient(ds, id, [ds.clients[id] EXCEPT !.key_packages = @ \o key_packages]),
             <<>>)

(* Variant: the key package stays in the vector.                           *)
MutantConsumeKp(client) ==
  [client EXCEPT !.reserved_key_pkg_hash = @ \cup {Last(client.key_packages)}]

(* ClientInfo::consume_kp: the newest key package is taken and its hash    *)
(* reserved; the last one is never given out.                              *)
ConsumeKp(client) ==
  [client EXCEPT !.key_packages = Front(@),
                 !.reserved_key_pkg_hash = @ \cup {Last(client.key_packages)}]

ConsumeKeyPackage(ds, id) ==
  IF id \notin DOMAIN ds.clients THEN Reply("NO_CONTENT", ds, <<>>)
  ELSE LET client == ds.clients[id] IN
       IF Len(client.key_packages) <= 1 THEN Reply("NO_CONTENT", ds, <<>>)
       ELSE Reply("OK", SetClient(ds, id, ConsumeKp(client)), Last(client.key_packages))

(* The first secret whose hash some client has reserved decides: that      *)
(* client gets the Welcome, and the handler returns.                       *)
SendWelcome(ds, welcome) ==
  LET Waiting(i) == {id \in DOMAIN ds.clients :
                       welcome.secrets[i] \in ds.clients[id].reserved_key_pkg_hash}
      Matching == {i \in DOMAIN welcome.secrets : Waiting(i) # {}}
  IN IF Matching = {} THEN Reply("NO_CONTENT", ds, <<>>)
     ELSE LET i == Min(Matching)
              id == CHOOSE x \in Waiting(i) : TRUE
          IN Reply("OK",
                   SetClient(ds, id,
                     [ds.clients[id] EXCEPT
                        !.reserved_key_pkg_hash = @ \ {welcome.secrets[i]},
                        !.welcome_queue = Append(@, welcome)]),
                   <<>>)

(* Queue the message for one recipient.                                    *)
Enqueue(ds, id, msg) ==
  SetClient(ds, id, [ds.clients[id] EXCEPT !.msgs = Append(@, msg)])

(* The epoch a handshake message leaves behind for its group.              *)
RecordEpoch(ds, msg) ==
  IF msg.type = "commit"
  THEN [ds EXCEPT !.groups = (msg.gid :> msg.epoch) @@ @]
  ELSE ds

(* Whether a handshake message is behind what the service has seen.        *)
IsStale(ds, msg) ==
  /\ msg.type = "commit"
  /\ msg.gid \in DOMAIN ds.groups
  /\ ds.groups[msg.gid] > msg.epoch

(* msg_send.  A stale handshake message is refused.  Otherwise the epoch   *)
(* is recorded and the recipients are served in order; an unknown one ends *)
(* the request, with the earlier ones served and the epoch recorded.       *)
MsgSend(ds, msg, recipients) ==
  IF IsStale(ds, msg) THEN Reply("CONFLICT", ds, <<>>)
  ELSE LET Unknown == {i \in DOMAIN recipients : recipients[i] \notin DOMAIN ds.clients}
           served == IF Unknown = {} THEN recipients
                     ELSE SubSeq(recipients, 1, Min(Unknown) - 1)
       IN Reply(IF Unknown = {} THEN "OK" ELSE "NOT_FOUND",
                FoldLeft(LAMBDA d, id : Enqueue(d, id, msg), RecordEpoch(ds, msg), served),
                <<>>)

(* Variant: group messages are handed out before Welcomes.                 *)
MutantQueued(client) == client.msgs \o client.welcome_queue

(* Everything queued is handed out, Welcomes first, and forgotten.         *)
Queued(client) == client.welcome_queue \o client.msgs

MsgRecv(ds, id, token) ==
  IF id \notin DOMAIN ds.clients THEN Reply("NOT_FOUND", ds, <<>>)
  ELSE LET client == ds.clients[id] IN
       IF client.auth_token # token THEN Reply("UNAUTHORIZED", ds, <<>>)
       ELSE Reply("OK",
                  SetClient(ds, id, [client EXCEPT !.welcome_queue = <<>>, !.msgs = <<>>]),
                  Queued(client))
==========================================================================
