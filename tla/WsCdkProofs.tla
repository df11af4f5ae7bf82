---------------------------- MODULE WsCdkProofs ----------------------------
(***************************************************************************)
(* Theorems about the state of the CDK, for every set of principals,       *)
(* gateways and parameters and without the bounds of the runs.             *)
(***************************************************************************)
EXTENDS WsCdk, RegisteredGatewayProofs, FiniteSetTheorems

----------------------------------------------------------------------------
(***************************************************************************)
(* The inductive invariant.  StateInv is about the maps of clients and of  *)
(* gateways, ControlInv about parameters, timers and loops.                *)
(***************************************************************************)

\* The types of the maps, and two facts the other invariants need: only finitely
\* many clients are registered (their number is counted), and the two queues of a
\* gateway have the same length.
GatewaysOK(rg) ==
    /\ MapInto(rg, Gateway, GatewayRecord)
    /\ \A g \in DOMAIN rg : Len(rg[g].messages_to_delete) = Len(rg[g].messages_queue)

MapsOK ==
    /\ MapInto(REGISTERED_CLIENTS, ClientKey, RegisteredClient)
    /\ MapInto(CURRENT_CLIENT_KEY_MAP, Principal, ClientKey)
    /\ CLIENTS_WAITING_FOR_KEEP_ALIVE \subseteq ClientKey
    /\ MapInto(OUTGOING_MESSAGE_TO_CLIENT_NUM_MAP, ClientKey, Nat)
    /\ MapInto(INCOMING_MESSAGE_FROM_CLIENT_NUM_MAP, ClientKey, Nat \ {0})
    /\ MapInto(CERT_TREE, Gateway \X Nat, Message)
    /\ MapInto(certified_data, Gateway \X Nat, Message)
    /\ GatewaysOK(REGISTERED_GATEWAYS)
    /\ MapInto(GATEWAYS_TO_REMOVE, Gateway, Nat)
    /\ time \in Nat
    /\ IsFiniteSet(DOMAIN REGISTERED_CLIENTS)

StateInv == MapsOK /\ RegistryConsistent /\ GatewayCounts

ControlInv ==
    /\ PARAMS \in InitParams
    /\ ACK_TIMER \in Timer /\ KEEP_ALIVE_TIMER \in Timer \cup {NoTimer}
    /\ timers \subseteq Timer
    /\ executing \in {"idle", "wipe", "send_ack", "check_keep_alive"}
    /\ in_on_close \in BOOLEAN
    /\ LoopKeysAreRegistered

Inv == StateInv /\ ControlInv

----------------------------------------------------------------------------
(***************************************************************************)
(* Maps.                                                                   *)
(***************************************************************************)

LEMMA PutInto ==
    ASSUME NEW map, NEW S, NEW T, MapInto(map, S, T), NEW x \in S, NEW v \in T
    PROVE  MapInto(put(map, x, v), S, T)
BY DEF MapInto, put

LEMMA Remove ==
    ASSUME NEW map, NEW S, NEW T, MapInto(map, S, T), NEW keys
    PROVE  /\ MapInto(remove(map, keys), S, T)
           /\ DOMAIN remove(map, keys) = DOMAIN map \ keys
           /\ \A y \in DOMAIN map \ keys : remove(map, keys)[y] = map[y]
BY DEF MapInto, remove, Restrict

\* An entry that takes the place of others.
LEMMA ReplaceInto ==
    ASSUME NEW map, NEW S, NEW T, MapInto(map, S, T), NEW keys, NEW x \in S, NEW v \in T
    PROVE  MapInto(put(remove(map, keys), x, v), S, T)
<1>1. MapInto(remove(map, keys), S, T)
    BY Remove
<1> QED BY <1>1, PutInto

LEMMA Empty ==
    ASSUME NEW S, NEW T
    PROVE  MapInto(EmptyMap, S, T) /\ DOMAIN EmptyMap = {}
BY DEF MapInto, EmptyMap

----------------------------------------------------------------------------
(***************************************************************************)
(* Messages and the maps of gateways.                                      *)
(***************************************************************************)

LEMMA RecordOfGateway == GatewayRecord = GatewaysOf(Message)
BY DEF GatewayRecord, GatewaysOf

LEMMA ContentOK ==
    /\ OpenMessage \in Content
    /\ ApplicationMessage \in Content
    /\ \A n \in Nat : AckMessage(n) \in Content
    /\ \A reason \in CloseMessageReason : CloseMessage(reason) \in Content
BY DEF Content, OpenMessage, ApplicationMessage, AckMessage, CloseMessage

LEMMA MessageTo ==
    ASSUME NEW rg, GatewaysOK(rg), time \in Nat, NEW g \in DOMAIN rg,
           NEW k \in ClientKey, NEW seq \in Nat, NEW content \in Content
    PROVE  /\ message_to(rg, g, k, seq, content) \in Message
           /\ message_to(rg, g, k, seq, content).key
                  = <<g, rg[g].outgoing_message_nonce>>
           /\ message_to(rg, g, k, seq, content).sequence_num = seq + 1
           /\ message_to(rg, g, k, seq, content).timestamp = time
<1>1. g \in Gateway /\ rg[g].outgoing_message_nonce \in Nat
    BY DEF GatewaysOK, MapInto, GatewayRecord
<1> QED BY <1>1 DEF message_to, Message

\* push_message_in_gateway_queue changes the queues and the nonce of one gateway.
LEMMA Push ==
    ASSUME NEW rg, GatewaysOK(rg), time \in Nat, NEW g \in DOMAIN rg, NEW m \in Message
    PROVE  LET new == push_message_in_gateway_queue(rg, g, m)
           IN  /\ GatewaysOK(new)
               /\ DOMAIN new = DOMAIN rg
               /\ \A x \in DOMAIN rg :
                      new[x].connected_clients_count = rg[x].connected_clients_count
<1> DEFINE new == push_message_in_gateway_queue(rg, g, m)
           gd == delete_old_messages(rg[g], MESSAGES_TO_DELETE_COUNT, time,
                                     PARAMS.send_ack_interval)
           ga == add_message_to_queue(gd, m, time)
<1>1. new = [rg EXCEPT ![g] = ga]
    BY DEF push_message_in_gateway_queue
<1>2. /\ rg[g] \in GatewaysOf(Message)
      /\ Len(rg[g].messages_to_delete) = Len(rg[g].messages_queue)
      /\ rg \in [DOMAIN rg -> GatewaysOf(Message)] /\ DOMAIN rg \subseteq Gateway
    BY RecordOfGateway DEF GatewaysOK, MapInto
<1>3. /\ gd \in GatewaysOf(Message)
      /\ gd.connected_clients_count = rg[g].connected_clients_count
      /\ Len(gd.messages_to_delete) = Len(gd.messages_queue)
    BY <1>2, ConstantsAssumption, DeleteOldMessages DEF ConstantsAssumption
<1> HIDE DEF new, gd
<1>. time \in Nat /\ m \in Message
    OBVIOUS
<1>4. /\ ga \in GatewaysOf(Message)
      /\ ga.connected_clients_count = rg[g].connected_clients_count
      /\ ga.messages_queue = Append(gd.messages_queue, m)
      /\ ga.messages_to_delete = Append(gd.messages_to_delete, time)
    BY <1>3, AddMessageToQueue
<1> HIDE DEF ga
<1>5. Len(ga.messages_to_delete) = Len(ga.messages_queue)
    BY <1>3, <1>4 DEF GatewaysOf
<1>6. new \in [DOMAIN rg -> GatewaysOf(Message)] /\ DOMAIN new = DOMAIN rg
    BY <1>1, <1>2, <1>4
<1>7. \A x \in DOMAIN rg : new[x] = IF x = g THEN ga ELSE rg[x]
    BY <1>1, <1>2
<1>8. GatewaysOK(new)
    BY <1>2, <1>5, <1>6, <1>7, RecordOfGateway DEF GatewaysOK, MapInto
<1> QED BY <1>4, <1>6, <1>7, <1>8 DEF new

\* The changes of the certification tree keep its type.
LEMMA Certify ==
    ASSUME MapsOK, NEW rg, NEW g, NEW m \in Message, m.key \in Gateway \X Nat,
           certify_message(rg, g, m)
    PROVE  /\ MapInto(CERT_TREE, Gateway \X Nat, Message)'
           /\ MapInto(certified_data, Gateway \X Nat, Message)'
<1> DEFINE keys == expired_keys(rg, g)
           tree == put(remove(CERT_TREE, keys), m.key, m)
<1>1. CERT_TREE' = tree /\ certified_data' = CERT_TREE'
    BY DEF certify_message, certify, put_cert_for_message
<1> HIDE DEF keys
<1>2. MapInto(remove(CERT_TREE, keys), Gateway \X Nat, Message)
    BY Remove DEF MapsOK
<1>3. MapInto(tree, Gateway \X Nat, Message)
    BY <1>2, PutInto
<1> HIDE DEF tree
<1> QED BY <1>1, <1>3 DEF MapInto

----------------------------------------------------------------------------
(***************************************************************************)
(* The number of clients of a gateway.  keys is what remove_client takes   *)
(* out: nothing, or one registered client.                                 *)
(***************************************************************************)

LEMMA ClientsAreFinite ==
    ASSUME MapsOK, NEW g, NEW keys
    PROVE  IsFiniteSet(clients_of(g)) /\ IsFiniteSet(clients_of(g) \ keys)
<1>1. IsFiniteSet(DOMAIN REGISTERED_CLIENTS)
    BY DEF MapsOK
<1>2. /\ clients_of(g) \in SUBSET DOMAIN REGISTERED_CLIENTS
      /\ clients_of(g) \ keys \in SUBSET DOMAIN REGISTERED_CLIENTS
    BY DEF clients_of
<1> QED BY <1>1, <1>2, FS_Subset

\* After decrement_gateway_clients_count the counts are those of the clients that
\* are left, and the gateways that are left without any are due for removal.
LEMMA Leave ==
    ASSUME StateInv,
           NEW rg, GatewaysOK(rg), DOMAIN rg = DOMAIN REGISTERED_GATEWAYS,
           \A x \in DOMAIN rg : rg[x].connected_clients_count
                                = REGISTERED_GATEWAYS[x].connected_clients_count,
           NEW keys, keys = {} \/ \E k \in DOMAIN REGISTERED_CLIENTS : keys = {k}
    PROVE  LET new == decrement_gateway_clients_count(rg, keys)
               gtr == into_gateways_to_remove(GATEWAYS_TO_REMOVE, new, keys)
           IN  /\ GatewaysOK(new)
               /\ DOMAIN new = DOMAIN rg
               /\ \A g \in DOMAIN new :
                      /\ new[g].connected_clients_count = Cardinality(clients_of(g) \ keys)
                      /\ new[g].outgoing_message_nonce = rg[g].outgoing_message_nonce
               /\ MapInto(gtr, Gateway, Nat)
               /\ \A g : g \in DOMAIN gtr <=>
                            g \in DOMAIN rg /\ clients_of(g) \ keys = {}
<1> DEFINE new == decrement_gateway_clients_count(rg, keys)
           gtr == into_gateways_to_remove(GATEWAYS_TO_REMOVE, new, keys)
           leaves(g) == \E k \in keys : gateway_of(k) = g
<1>1. /\ rg \in [DOMAIN rg -> GatewaysOf(Message)] /\ DOMAIN rg \subseteq Gateway
      /\ \A g \in DOMAIN rg : Len(rg[g].messages_to_delete) = Len(rg[g].messages_queue)
    BY RecordOfGateway DEF GatewaysOK, MapInto
<1>2. /\ DOMAIN new = DOMAIN rg
      /\ \A g \in DOMAIN rg :
             new[g] = IF leaves(g) THEN decrement_clients_count(rg[g]) ELSE rg[g]
    BY DEF decrement_gateway_clients_count
<1>3. keys \subseteq DOMAIN REGISTERED_CLIENTS
    OBVIOUS
<1> HIDE DEF new
<1>4. ASSUME NEW g \in DOMAIN rg
      PROVE  /\ new[g] \in GatewaysOf(Message)
             /\ Len(new[g].messages_to_delete) = Len(new[g].messages_queue)
             /\ new[g].outgoing_message_nonce = rg[g].outgoing_message_nonce
             /\ new[g].connected_clients_count =
                    IF leaves(g) /\ rg[g].connected_clients_count # 0
                    THEN rg[g].connected_clients_count - 1
                    ELSE rg[g].connected_clients_count
  <2> HIDE DEF leaves
  <2>1. rg[g] \in GatewaysOf(Message)
        /\ Len(rg[g].messages_to_delete) = Len(rg[g].messages_queue)
      BY <1>1
  <2>2. CASE leaves(g)
    <3>1. new[g] = decrement_clients_count(rg[g])
        BY <1>2, <2>2
    <3> QED BY <2>1, <2>2, <3>1, ClientsCount
  <2>3. CASE ~leaves(g)
      BY <1>2, <2>1, <2>3
  <2> QED BY <2>2, <2>3
<1>5. GatewaysOK(new)
  <2>1. new \in [DOMAIN new -> GatewaysOf(Message)]
    <3>1. new = [g \in DOMAIN new |-> new[g]]
        BY DEF new, decrement_gateway_clients_count
    <3> QED BY <3>1, <1>2, <1>4
  <2> QED BY <1>1, <1>2, <1>4, <2>1, RecordOfGateway DEF GatewaysOK, MapInto
<1>6. ASSUME NEW g \in DOMAIN rg
      PROVE  new[g].connected_clients_count = Cardinality(clients_of(g) \ keys)
  <2>1. /\ rg[g].connected_clients_count = Cardinality(clients_of(g))
        /\ IsFiniteSet(clients_of(g))
      BY ClientsAreFinite DEF StateInv, GatewayCounts
  <2>2. CASE leaves(g)
    <3>1. PICK k \in DOMAIN REGISTERED_CLIENTS : keys = {k} /\ gateway_of(k) = g
        BY <2>2
    <3>2. k \in clients_of(g)
        BY <3>1 DEF clients_of
    <3>3. /\ Cardinality(clients_of(g) \ {k}) = Cardinality(clients_of(g)) - 1
          /\ Cardinality(clients_of(g)) # 0
        BY <2>1, <3>2, FS_RemoveElement, FS_EmptySet
    <3> QED BY <1>4, <2>1, <2>2, <3>1, <3>3
  <2>3. CASE ~leaves(g)
    <3>1. clients_of(g) \ keys = clients_of(g)
        BY <2>3 DEF clients_of
    <3> QED BY <1>4, <2>1, <2>3, <3>1
  <2> QED BY <2>2, <2>3
<1>7. \A g \in DOMAIN rg : new[g].connected_clients_count = 0
                             <=> clients_of(g) \ keys = {}
  <2> SUFFICES ASSUME NEW g \in DOMAIN rg
               PROVE  Cardinality(clients_of(g) \ keys) = 0 <=> clients_of(g) \ keys = {}
      BY <1>6
  <2>1. MapsOK
      BY DEF StateInv
  <2> QED BY <2>1, ClientsAreFinite, FS_EmptySet
<1> DEFINE empty == {g \in DOMAIN new : leaves(g) /\ new[g].connected_clients_count = 0}
<1>8. gtr = [g \in DOMAIN GATEWAYS_TO_REMOVE \cup empty |->
                 IF g \in empty THEN time ELSE GATEWAYS_TO_REMOVE[g]]
    BY DEF into_gateways_to_remove
<1> HIDE DEF gtr
<1>9. MapInto(gtr, Gateway, Nat)
  <2>1. /\ GATEWAYS_TO_REMOVE \in [DOMAIN GATEWAYS_TO_REMOVE -> Nat]
        /\ DOMAIN GATEWAYS_TO_REMOVE \subseteq Gateway /\ time \in Nat
      BY DEF StateInv, MapsOK, MapInto
  <2>2. empty \subseteq Gateway
      BY <1>1, <1>2
  <2> HIDE DEF empty
  <2> QED BY <1>8, <2>1, <2>2 DEF MapInto
<1>10. DOMAIN gtr = {g \in DOMAIN rg : clients_of(g) \ keys = {}}
  <2>1. DOMAIN GATEWAYS_TO_REMOVE = {g \in DOMAIN rg : clients_of(g) = {}}
      BY DEF StateInv, GatewayCounts
  <2>2. empty = {g \in DOMAIN rg : leaves(g) /\ clients_of(g) \ keys = {}}
      BY <1>2, <1>7
  <2>3. \A g : clients_of(g) \ keys = {} <=>
                   clients_of(g) = {} \/ (leaves(g) /\ clients_of(g) \ keys = {})
      BY <1>3 DEF clients_of
  <2>4. DOMAIN gtr = DOMAIN GATEWAYS_TO_REMOVE \cup empty
      BY <1>8
  <2> HIDE DEF leaves, empty
  <2> QED BY <2>1, <2>2, <2>3, <2>4
<1> QED BY <1>2, <1>4, <1>5, <1>6, <1>9, <1>10 DEF new, gtr

----------------------------------------------------------------------------
(***************************************************************************)
(* The kinds of steps that change the maps.                                *)
(***************************************************************************)

\* A send to a registered client.
LEMMA SendStep ==
    ASSUME StateInv, NEW k \in DOMAIN REGISTERED_CLIENTS, NEW content \in Content,
           ws_send(k, content),
           CLIENTS_WAITING_FOR_KEEP_ALIVE' \in
               {CLIENTS_WAITING_FOR_KEEP_ALIVE, CLIENTS_WAITING_FOR_KEEP_ALIVE \cup {k}},
           UNCHANGED <<REGISTERED_CLIENTS, CURRENT_CLIENT_KEY_MAP, GATEWAYS_TO_REMOVE,
                       INCOMING_MESSAGE_FROM_CLIENT_NUM_MAP, time>>
    PROVE  StateInv'
<1> DEFINE g == gateway_of(k)
           m == message_to(REGISTERED_GATEWAYS, g, k,
                           OUTGOING_MESSAGE_TO_CLIENT_NUM_MAP[k], content)
<1>1. /\ MapsOK /\ GatewaysOK(REGISTERED_GATEWAYS) /\ time \in Nat
      /\ k \in ClientKey /\ g \in DOMAIN REGISTERED_GATEWAYS
      /\ DOMAIN OUTGOING_MESSAGE_TO_CLIENT_NUM_MAP = DOMAIN REGISTERED_CLIENTS
      /\ OUTGOING_MESSAGE_TO_CLIENT_NUM_MAP[k] \in Nat
    BY DEF StateInv, MapsOK, MapInto, GatewayCounts, RegistryConsistent
<1>2. m \in Message /\ m.key \in Gateway \X Nat
  <2>1. m.key = <<g, REGISTERED_GATEWAYS[g].outgoing_message_nonce>> /\ m \in Message
      BY <1>1, MessageTo
  <2>2. g \in Gateway /\ REGISTERED_GATEWAYS[g].outgoing_message_nonce \in Nat
      BY <1>1 DEF GatewaysOK, MapInto, GatewayRecord
  <2> QED BY <2>1, <2>2
<1>3. /\ OUTGOING_MESSAGE_TO_CLIENT_NUM_MAP' =
             [OUTGOING_MESSAGE_TO_CLIENT_NUM_MAP EXCEPT ![k] = @ + 1]
      /\ REGISTERED_GATEWAYS' = push_message_in_gateway_queue(REGISTERED_GATEWAYS, g, m)
      /\ certify_message(REGISTERED_GATEWAYS, g, m)
    BY DEF ws_send
<1> HIDE DEF m, g
<1>4. /\ GatewaysOK(REGISTERED_GATEWAYS)'
      /\ DOMAIN REGISTERED_GATEWAYS' = DOMAIN REGISTERED_GATEWAYS
      /\ \A x \in DOMAIN REGISTERED_GATEWAYS :
             REGISTERED_GATEWAYS'[x].connected_clients_count
                 = REGISTERED_GATEWAYS[x].connected_clients_count
    BY <1>1, <1>2, <1>3, Push DEF GatewaysOK, MapInto
<1>5. /\ MapInto(CERT_TREE, Gateway \X Nat, Message)'
      /\ MapInto(certified_data, Gateway \X Nat, Message)'
    BY <1>1, <1>2, <1>3, Certify
<1>6. /\ MapInto(OUTGOING_MESSAGE_TO_CLIENT_NUM_MAP, ClientKey, Nat)'
      /\ DOMAIN OUTGOING_MESSAGE_TO_CLIENT_NUM_MAP' = DOMAIN REGISTERED_CLIENTS
    BY <1>1, <1>3 DEF MapsOK, MapInto
<1>7. MapsOK'
    BY <1>1, <1>4, <1>5, <1>6 DEF MapsOK, MapInto
<1>8. RegistryConsistent'
    BY <1>6 DEF StateInv, RegistryConsistent
<1>9. GatewayCounts'
  <2>1. \A x : clients_of(x)' = clients_of(x)
      BY DEF clients_of, gateway_of
  <2>2. \A x : gateway_of(x)' = gateway_of(x)
      BY DEF gateway_of
  <2> QED BY <1>4, <2>1, <2>2 DEF StateInv, GatewayCounts
<1> QED BY <1>7, <1>8, <1>9 DEF StateInv

\* The maps of clients after remove_client.
LEMMA RemoveFromClientMaps ==
    ASSUME StateInv, NEW k \in DOMAIN REGISTERED_CLIENTS, remove_from_client_maps(k)
    PROVE  /\ MapInto(REGISTERED_CLIENTS, ClientKey, RegisteredClient)'
           /\ MapInto(CURRENT_CLIENT_KEY_MAP, Principal, ClientKey)'
           /\ CLIENTS_WAITING_FOR_KEEP_ALIVE' \subseteq ClientKey
           /\ MapInto(OUTGOING_MESSAGE_TO_CLIENT_NUM_MAP, ClientKey, Nat)'
           /\ MapInto(INCOMING_MESSAGE_FROM_CLIENT_NUM_MAP, ClientKey, Nat \ {0})'
           /\ IsFiniteSet(DOMAIN REGISTERED_CLIENTS)'
           /\ DOMAIN REGISTERED_CLIENTS' = DOMAIN REGISTERED_CLIENTS \ {k}
           /\ \A x \in DOMAIN REGISTERED_CLIENTS \ {k} :
                  REGISTERED_CLIENTS'[x] = REGISTERED_CLIENTS[x]
           /\ RegistryConsistent'
<1> USE DEF MapInto
<1>1. MapsOK /\ RegistryConsistent
    BY DEF StateInv
<1>2. /\ MapInto(REGISTERED_CLIENTS, ClientKey, RegisteredClient)'
      /\ DOMAIN REGISTERED_CLIENTS' = DOMAIN REGISTERED_CLIENTS \ {k}
      /\ \A x \in DOMAIN REGISTERED_CLIENTS \ {k} :
             REGISTERED_CLIENTS'[x] = REGISTERED_CLIENTS[x]
    BY <1>1, Remove DEF MapsOK, remove_from_client_maps
<1>3. /\ MapInto(CURRENT_CLIENT_KEY_MAP, Principal, ClientKey)'
      /\ DOMAIN CURRENT_CLIENT_KEY_MAP'
             = DOMAIN CURRENT_CLIENT_KEY_MAP \ {k.client_principal}
      /\ \A p \in DOMAIN CURRENT_CLIENT_KEY_MAP \ {k.client_principal} :
             CURRENT_CLIENT_KEY_MAP'[p] = CURRENT_CLIENT_KEY_MAP[p]
  <2> DEFINE keys == {k.client_principal}
             new == remove(CURRENT_CLIENT_KEY_MAP, keys)
  <2>1. MapInto(CURRENT_CLIENT_KEY_MAP, Principal, ClientKey)
      BY <1>1 DEF MapsOK
  <2>2. CURRENT_CLIENT_KEY_MAP' = new
      BY DEF remove_from_client_maps
  <2> HIDE DEF keys, MapInto
  <2>3. /\ MapInto(new, Principal, ClientKey)
        /\ DOMAIN new = DOMAIN CURRENT_CLIENT_KEY_MAP \ keys
        /\ \A p \in DOMAIN CURRENT_CLIENT_KEY_MAP \ keys : new[p] = CURRENT_CLIENT_KEY_MAP[p]
      BY <2>1, Remove
  <2> HIDE DEF new
  <2> QED BY <2>2, <2>3 DEF keys, MapInto
<1>4. /\ MapInto(OUTGOING_MESSAGE_TO_CLIENT_NUM_MAP, ClientKey, Nat)'
      /\ DOMAIN OUTGOING_MESSAGE_TO_CLIENT_NUM_MAP'
             = DOMAIN OUTGOING_MESSAGE_TO_CLIENT_NUM_MAP \ {k}
  <2> DEFINE new == remove(OUTGOING_MESSAGE_TO_CLIENT_NUM_MAP, {k})
  <2>1. MapInto(OUTGOING_MESSAGE_TO_CLIENT_NUM_MAP, ClientKey, Nat)
      BY <1>1 DEF MapsOK
  <2>2. OUTGOING_MESSAGE_TO_CLIENT_NUM_MAP' = new
      BY DEF remove_from_client_maps
  <2> HIDE DEF MapInto
  <2>3. /\ MapInto(new, ClientKey, Nat)
        /\ DOMAIN new = DOMAIN OUTGOING_MESSAGE_TO_CLIENT_NUM_MAP \ {k}
      BY <2>1, Remove
  <2> HIDE DEF new
  <2> QED BY <2>2, <2>3 DEF MapInto
<1>5. /\ MapInto(INCOMING_MESSAGE_FROM_CLIENT_NUM_MAP, ClientKey, Nat \ {0})'
      /\ DOMAIN INCOMING_MESSAGE_FROM_CLIENT_NUM_MAP'
             = DOMAIN INCOMING_MESSAGE_FROM_CLIENT_NUM_MAP \ {k}
  <2> DEFINE new == remove(INCOMING_MESSAGE_FROM_CLIENT_NUM_MAP, {k})
  <2>1. MapInto(INCOMING_MESSAGE_FROM_CLIENT_NUM_MAP, ClientKey, Nat \ {0})
      BY <1>1 DEF MapsOK
  <2>2. INCOMING_MESSAGE_FROM_CLIENT_NUM_MAP' = new
      BY DEF remove_from_client_maps
  <2> HIDE DEF MapInto
  <2>3. /\ MapInto(new, ClientKey, Nat \ {0})
        /\ DOMAIN new = DOMAIN INCOMING_MESSAGE_FROM_CLIENT_NUM_MAP \ {k}
      BY <2>1, Remove
  <2> HIDE DEF new
  <2> QED BY <2>2, <2>3 DEF MapInto
<1>6. CLIENTS_WAITING_FOR_KEEP_ALIVE' = CLIENTS_WAITING_FOR_KEEP_ALIVE \ {k}
    BY DEF remove_from_client_maps, not_waiting
<1>7. CLIENTS_WAITING_FOR_KEEP_ALIVE' \subseteq ClientKey
    BY <1>1, <1>6 DEF MapsOK
<1>8. IsFiniteSet(DOMAIN REGISTERED_CLIENTS)'
    BY <1>1, <1>2, FS_RemoveElement DEF MapsOK
<1>9. RegistryConsistent'
  <2> USE DEF RegistryConsistent
  <2>1. /\ DOMAIN OUTGOING_MESSAGE_TO_CLIENT_NUM_MAP' = DOMAIN REGISTERED_CLIENTS'
        /\ DOMAIN INCOMING_MESSAGE_FROM_CLIENT_NUM_MAP' = DOMAIN REGISTERED_CLIENTS'
        /\ CLIENTS_WAITING_FOR_KEEP_ALIVE' \subseteq DOMAIN REGISTERED_CLIENTS'
      BY <1>1, <1>2, <1>4, <1>5, <1>6
  <2>2. ASSUME NEW x \in DOMAIN REGISTERED_CLIENTS'
        PROVE  /\ x.client_principal \in DOMAIN CURRENT_CLIENT_KEY_MAP'
               /\ CURRENT_CLIENT_KEY_MAP'[x.client_principal] = x
    <3>1. x.client_principal # k.client_principal
        BY <1>1, <1>2
    <3> QED BY <1>1, <1>2, <1>3, <3>1
  <2>3. ASSUME NEW p \in DOMAIN CURRENT_CLIENT_KEY_MAP'
        PROVE  /\ CURRENT_CLIENT_KEY_MAP'[p] \in DOMAIN REGISTERED_CLIENTS'
               /\ CURRENT_CLIENT_KEY_MAP'[p].client_principal = p
      BY <1>1, <1>2, <1>3
  <2> QED BY <2>1, <2>2, <2>3
<1> QED BY <1>2, <1>3, <1>4, <1>5, <1>7, <1>8, <1>9

\* A registered client is removed, with or without a close message.
LEMMA RemoveStep ==
    ASSUME StateInv, NEW k \in DOMAIN REGISTERED_CLIENTS, UNCHANGED time,
           remove_client(k) \/ \E reason \in CloseMessageReason : close_client(k, reason)
    PROVE  StateInv' /\ DOMAIN REGISTERED_CLIENTS' = DOMAIN REGISTERED_CLIENTS \ {k}
<1> DEFINE g == gateway_of(k)
           after(rg) ==
               /\ REGISTERED_GATEWAYS' = decrement_gateway_clients_count(rg, {k})
               /\ GATEWAYS_TO_REMOVE' = into_gateways_to_remove(GATEWAYS_TO_REMOVE,
                                            REGISTERED_GATEWAYS', {k})
               /\ GatewaysOK(rg)
               /\ DOMAIN rg = DOMAIN REGISTERED_GATEWAYS
               /\ \A x \in DOMAIN rg : rg[x].connected_clients_count
                      = REGISTERED_GATEWAYS[x].connected_clients_count
<1>1. /\ MapsOK /\ GatewaysOK(REGISTERED_GATEWAYS) /\ time \in Nat
      /\ k \in ClientKey /\ g \in DOMAIN REGISTERED_GATEWAYS
      /\ OUTGOING_MESSAGE_TO_CLIENT_NUM_MAP[k] \in Nat
    BY DEF StateInv, MapsOK, MapInto, GatewayCounts, RegistryConsistent
<1>2. /\ remove_from_client_maps(k)
      /\ \E rg : after(rg)
      /\ MapInto(CERT_TREE, Gateway \X Nat, Message)'
      /\ MapInto(certified_data, Gateway \X Nat, Message)'
  <2>1. CASE remove_client(k)
    <3>1. after(REGISTERED_GATEWAYS)
        BY <1>1, <2>1 DEF remove_client
    <3> QED BY <1>1, <2>1, <3>1 DEF remove_client, MapsOK, MapInto
  <2>2. ASSUME NEW reason \in CloseMessageReason, close_client(k, reason)
        PROVE  <1>2!1 /\ <1>2!2 /\ <1>2!3 /\ <1>2!4
    <3> DEFINE m == message_to(REGISTERED_GATEWAYS, g, k,
                        OUTGOING_MESSAGE_TO_CLIENT_NUM_MAP[k], CloseMessage(reason))
               rg == push_message_in_gateway_queue(REGISTERED_GATEWAYS, g, m)
    <3>1. m \in Message /\ m.key \in Gateway \X Nat
      <4>1. m.key = <<g, REGISTERED_GATEWAYS[g].outgoing_message_nonce>> /\ m \in Message
          BY <1>1, MessageTo, ContentOK
      <4>2. g \in Gateway /\ REGISTERED_GATEWAYS[g].outgoing_message_nonce \in Nat
          BY <1>1 DEF GatewaysOK, MapInto, GatewayRecord
      <4> QED BY <4>1, <4>2
    <3>2. /\ REGISTERED_GATEWAYS' = decrement_gateway_clients_count(rg, {k})
          /\ GATEWAYS_TO_REMOVE' = into_gateways_to_remove(GATEWAYS_TO_REMOVE,
                                       REGISTERED_GATEWAYS', {k})
          /\ certify_message(REGISTERED_GATEWAYS, g, m)
          /\ remove_from_client_maps(k)
        BY <2>2 DEF close_client
    <3> HIDE DEF m, g
    <3>3. /\ GatewaysOK(rg) /\ DOMAIN rg = DOMAIN REGISTERED_GATEWAYS
          /\ \A x \in DOMAIN rg : rg[x].connected_clients_count
                 = REGISTERED_GATEWAYS[x].connected_clients_count
        BY <1>1, <3>1, Push
    <3> HIDE DEF rg
    <3>4. after(rg)
        BY <3>2, <3>3
    <3>5. /\ MapInto(CERT_TREE, Gateway \X Nat, Message)'
          /\ MapInto(certified_data, Gateway \X Nat, Message)'
        BY <1>1, <3>1, <3>2, Certify
    <3> QED BY <3>2, <3>4, <3>5
  <2> QED BY <2>1, <2>2
<1>3. PICK rg : after(rg)
    BY <1>2
<1> HIDE DEF g
<1>4. /\ GatewaysOK(REGISTERED_GATEWAYS')
      /\ DOMAIN REGISTERED_GATEWAYS' = DOMAIN REGISTERED_GATEWAYS
      /\ \A x \in DOMAIN REGISTERED_GATEWAYS' :
             REGISTERED_GATEWAYS'[x].connected_clients_count
                 = Cardinality(clients_of(x) \ {k})
      /\ MapInto(GATEWAYS_TO_REMOVE', Gateway, Nat)
      /\ DOMAIN GATEWAYS_TO_REMOVE'
             = {x \in DOMAIN REGISTERED_GATEWAYS : clients_of(x) \ {k} = {}}
  <2> DEFINE keys == {k}
             new == decrement_gateway_clients_count(rg, keys)
             gtr == into_gateways_to_remove(GATEWAYS_TO_REMOVE, new, keys)
  <2>1. /\ REGISTERED_GATEWAYS' = new /\ GATEWAYS_TO_REMOVE' = gtr
        /\ GatewaysOK(rg) /\ DOMAIN rg = DOMAIN REGISTERED_GATEWAYS
        /\ \A x \in DOMAIN rg : rg[x].connected_clients_count
               = REGISTERED_GATEWAYS[x].connected_clients_count
      BY <1>3
  <2>2. keys = {} \/ \E x \in DOMAIN REGISTERED_CLIENTS : keys = {x}
      OBVIOUS
  <2> HIDE DEF keys
  <2>3. /\ GatewaysOK(new)
        /\ DOMAIN new = DOMAIN rg
        /\ \A x \in DOMAIN new :
               new[x].connected_clients_count = Cardinality(clients_of(x) \ keys)
        /\ MapInto(gtr, Gateway, Nat)
        /\ \A x : x \in DOMAIN gtr <=> x \in DOMAIN rg /\ clients_of(x) \ keys = {}
      BY <2>1, <2>2, Leave
  <2> HIDE DEF new, gtr
  <2> QED BY <2>1, <2>3 DEF keys
<1>5. /\ DOMAIN REGISTERED_CLIENTS' = DOMAIN REGISTERED_CLIENTS \ {k}
      /\ \A x \in DOMAIN REGISTERED_CLIENTS \ {k} :
             REGISTERED_CLIENTS'[x] = REGISTERED_CLIENTS[x]
      /\ RegistryConsistent'
    BY <1>2, RemoveFromClientMaps
<1>6. MapsOK'
    BY <1>1, <1>2, <1>4, RemoveFromClientMaps DEF MapsOK, GatewaysOK, MapInto
<1>7. GatewayCounts'
  <2>1. \A x : clients_of(x)' = clients_of(x) \ {k}
      BY <1>5 DEF clients_of, gateway_of
  <2>2. \A x \in DOMAIN REGISTERED_CLIENTS' : gateway_of(x)' = gateway_of(x)
      BY <1>5 DEF gateway_of
  <2> QED BY <1>4, <1>5, <2>1, <2>2 DEF StateInv, GatewayCounts
<1> QED BY <1>5, <1>6, <1>7 DEF StateInv

\* One more client of a gateway, which is registered if it was not.
LEMMA Increment ==
    ASSUME NEW rg, GatewaysOK(rg), NEW g \in Gateway
    PROVE  LET new == increment_gateway_clients_count(rg, g)
           IN  /\ GatewaysOK(new)
               /\ DOMAIN new = DOMAIN rg \cup {g}
               /\ new[g].connected_clients_count
                      = IF g \in DOMAIN rg THEN rg[g].connected_clients_count + 1 ELSE 1
               /\ \A x \in DOMAIN rg : x # g => new[x] = rg[x]
<1> DEFINE gw == IF g \in DOMAIN rg THEN rg[g] ELSE new_gateway
           ga == increment_clients_count(gw)
           new == increment_gateway_clients_count(rg, g)
<1>1. /\ MapInto(rg, Gateway, GatewaysOf(Message))
      /\ \A x \in DOMAIN rg : Len(rg[x].messages_to_delete) = Len(rg[x].messages_queue)
    BY RecordOfGateway DEF GatewaysOK
<1>2. /\ gw \in GatewaysOf(Message)
      /\ Len(gw.messages_to_delete) = Len(gw.messages_queue)
      /\ gw.connected_clients_count
             = IF g \in DOMAIN rg THEN rg[g].connected_clients_count ELSE 0
  <2>1. CASE g \in DOMAIN rg
      BY <1>1, <2>1 DEF MapInto
  <2>2. CASE g \notin DOMAIN rg
      BY <2>2, NewGateway DEF new_gateway
  <2> QED BY <2>1, <2>2
<1> HIDE DEF gw
<1>3. /\ ga \in GatewaysOf(Message)
      /\ Len(ga.messages_to_delete) = Len(ga.messages_queue)
      /\ ga.connected_clients_count = gw.connected_clients_count + 1
    BY <1>2, ClientsCount
<1>4. new = put(rg, g, ga)
    BY DEF increment_gateway_clients_count, gw
<1>. g \in Gateway
    OBVIOUS
<1> HIDE DEF ga, new
<1>5. /\ MapInto(new, Gateway, GatewaysOf(Message))
      /\ DOMAIN new = DOMAIN rg \cup {g}
      /\ new[g] = ga
      /\ \A x \in DOMAIN rg : x # g => new[x] = rg[x]
  <2>1. MapInto(put(rg, g, ga), Gateway, GatewaysOf(Message))
      BY <1>1, <1>3, PutInto
  <2> QED BY <1>4, <2>1 DEF put
<1>6. GatewaysOK(new)
    BY <1>1, <1>3, <1>5, RecordOfGateway DEF GatewaysOK
<1>7. new[g].connected_clients_count
          = IF g \in DOMAIN rg THEN rg[g].connected_clients_count + 1 ELSE 1
    BY <1>2, <1>3, <1>5
<1> QED BY <1>5, <1>6, <1>7 DEF new

\* The sessions of a principal are those that CURRENT_CLIENT_KEY_MAP finds.
LEMMA CurrentKeys ==
    ASSUME StateInv, NEW p
    PROVE  /\ current_keys(p) = {} \/ \E x \in DOMAIN REGISTERED_CLIENTS : current_keys(p) = {x}
           /\ \A x \in DOMAIN REGISTERED_CLIENTS : x \in current_keys(p) <=> x.client_principal = p
BY DEF StateInv, RegistryConsistent, current_keys

\* The maps of clients after ws_open.
LEMMA OpenClientMaps ==
    ASSUME StateInv, NEW p \in Principal, NEW nonce \in ClientNonce, NEW g \in Gateway,
           ws_open(p, nonce, g)
    PROVE  LET k == [client_principal |-> p, client_nonce |-> nonce]
           IN  /\ MapInto(REGISTERED_CLIENTS, ClientKey, RegisteredClient)'
               /\ MapInto(CURRENT_CLIENT_KEY_MAP, Principal, ClientKey)'
               /\ CLIENTS_WAITING_FOR_KEEP_ALIVE' \subseteq ClientKey
               /\ MapInto(OUTGOING_MESSAGE_TO_CLIENT_NUM_MAP, ClientKey, Nat)'
               /\ MapInto(INCOMING_MESSAGE_FROM_CLIENT_NUM_MAP, ClientKey, Nat \ {0})'
               /\ IsFiniteSet(DOMAIN REGISTERED_CLIENTS)'
               /\ DOMAIN REGISTERED_CLIENTS'
                      = (DOMAIN REGISTERED_CLIENTS \ current_keys(p)) \cup {k}
               /\ \A x \in DOMAIN REGISTERED_CLIENTS \ current_keys(p) :
                      REGISTERED_CLIENTS'[x] = REGISTERED_CLIENTS[x]
               /\ REGISTERED_CLIENTS'[k].gateway_principal = g
               /\ k \notin DOMAIN REGISTERED_CLIENTS
               /\ RegistryConsistent'
<1> DEFINE k == [client_principal |-> p, client_nonce |-> nonce]
           old == current_keys(p)
           client == [last_keep_alive_timestamp |-> time, gateway_principal |-> g]
<1>1. /\ MapsOK /\ RegistryConsistent
      /\ k \in ClientKey /\ k.client_principal = p /\ time \in Nat
      /\ client \in RegisteredClient /\ client.gateway_principal = g
    BY DEF StateInv, MapsOK, ClientKey, RegisteredClient
<1>2. /\ REGISTERED_CLIENTS' = put(remove(REGISTERED_CLIENTS, old), k, client)
      /\ CURRENT_CLIENT_KEY_MAP' = put(remove(CURRENT_CLIENT_KEY_MAP, {p}), p, k)
      /\ CLIENTS_WAITING_FOR_KEEP_ALIVE' = CLIENTS_WAITING_FOR_KEEP_ALIVE \ old
      /\ INCOMING_MESSAGE_FROM_CLIENT_NUM_MAP' =
             put(remove(INCOMING_MESSAGE_FROM_CLIENT_NUM_MAP, old), k, 1)
      /\ OUTGOING_MESSAGE_TO_CLIENT_NUM_MAP' =
             put(remove(OUTGOING_MESSAGE_TO_CLIENT_NUM_MAP, old), k, 1)
      /\ k \notin DOMAIN REGISTERED_CLIENTS
    BY DEF ws_open, not_waiting, message_to, INITIAL_CLIENT_SEQUENCE_NUM,
           INITIAL_CANISTER_SEQUENCE_NUM
<1>3. /\ \A x \in DOMAIN REGISTERED_CLIENTS : x \in old <=> x.client_principal = p
      /\ old = {} \/ \E x \in DOMAIN REGISTERED_CLIENTS : old = {x}
    BY CurrentKeys
<1> HIDE DEF k, old, client
<1>4. /\ MapInto(REGISTERED_CLIENTS', ClientKey, RegisteredClient)
      /\ DOMAIN REGISTERED_CLIENTS' = (DOMAIN REGISTERED_CLIENTS \ old) \cup {k}
      /\ REGISTERED_CLIENTS'[k] = client
      /\ \A x \in DOMAIN REGISTERED_CLIENTS \ old :
             x # k => REGISTERED_CLIENTS'[x] = REGISTERED_CLIENTS[x]
  <2>1. MapInto(REGISTERED_CLIENTS, ClientKey, RegisteredClient)
      BY <1>1 DEF MapsOK
  <2>2. MapInto(REGISTERED_CLIENTS', ClientKey, RegisteredClient)
      BY <1>1, <1>2, <2>1, ReplaceInto
  <2> QED BY <1>2, <2>2 DEF put, remove, Restrict
<1>5. /\ MapInto(CURRENT_CLIENT_KEY_MAP', Principal, ClientKey)
      /\ DOMAIN CURRENT_CLIENT_KEY_MAP' = (DOMAIN CURRENT_CLIENT_KEY_MAP \ {p}) \cup {p}
      /\ CURRENT_CLIENT_KEY_MAP'[p] = k
      /\ \A x \in DOMAIN CURRENT_CLIENT_KEY_MAP \ {p} :
             x # p => CURRENT_CLIENT_KEY_MAP'[x] = CURRENT_CLIENT_KEY_MAP[x]
  <2> DEFINE keys == {p}
  <2>1. CURRENT_CLIENT_KEY_MAP' = put(remove(CURRENT_CLIENT_KEY_MAP, keys), p, k)
      BY <1>2
  <2>2. MapInto(CURRENT_CLIENT_KEY_MAP, Principal, ClientKey) /\ p \in Principal
      BY <1>1 DEF MapsOK
  <2> HIDE DEF keys
  <2>3. MapInto(put(remove(CURRENT_CLIENT_KEY_MAP, keys), p, k), Principal, ClientKey)
      BY <1>1, <2>2, ReplaceInto
  <2>4. /\ DOMAIN CURRENT_CLIENT_KEY_MAP' = (DOMAIN CURRENT_CLIENT_KEY_MAP \ keys) \cup {p}
        /\ CURRENT_CLIENT_KEY_MAP'[p] = k
        /\ \A x \in DOMAIN CURRENT_CLIENT_KEY_MAP \ keys :
               x # p => CURRENT_CLIENT_KEY_MAP'[x] = CURRENT_CLIENT_KEY_MAP[x]
      BY <2>1 DEF put, remove, Restrict
  <2> QED BY <2>1, <2>3, <2>4 DEF keys
<1>6. /\ MapInto(INCOMING_MESSAGE_FROM_CLIENT_NUM_MAP', ClientKey, Nat \ {0})
      /\ DOMAIN INCOMING_MESSAGE_FROM_CLIENT_NUM_MAP'
             = (DOMAIN INCOMING_MESSAGE_FROM_CLIENT_NUM_MAP \ old) \cup {k}
  <2> DEFINE T == Nat \ {0}
  <2>1. MapInto(INCOMING_MESSAGE_FROM_CLIENT_NUM_MAP, ClientKey, T) /\ 1 \in T
      BY <1>1 DEF MapsOK
  <2> HIDE DEF T
  <2>2. MapInto(INCOMING_MESSAGE_FROM_CLIENT_NUM_MAP', ClientKey, T)
      BY <1>1, <1>2, <2>1, ReplaceInto
  <2> QED BY <1>2, <2>2 DEF put, remove, Restrict, T
<1>7. /\ MapInto(OUTGOING_MESSAGE_TO_CLIENT_NUM_MAP', ClientKey, Nat)
      /\ DOMAIN OUTGOING_MESSAGE_TO_CLIENT_NUM_MAP'
             = (DOMAIN OUTGOING_MESSAGE_TO_CLIENT_NUM_MAP \ old) \cup {k}
  <2>1. MapInto(OUTGOING_MESSAGE_TO_CLIENT_NUM_MAP, ClientKey, Nat) /\ 1 \in Nat
      BY <1>1 DEF MapsOK
  <2>2. MapInto(OUTGOING_MESSAGE_TO_CLIENT_NUM_MAP', ClientKey, Nat)
      BY <1>1, <1>2, <2>1, ReplaceInto
  <2> QED BY <1>2, <2>2 DEF put, remove, Restrict
<1>8. /\ CLIENTS_WAITING_FOR_KEEP_ALIVE' \subseteq ClientKey
      /\ IsFiniteSet(DOMAIN REGISTERED_CLIENTS')
  <2>1. /\ IsFiniteSet(DOMAIN REGISTERED_CLIENTS)
        /\ DOMAIN REGISTERED_CLIENTS \ old \in SUBSET DOMAIN REGISTERED_CLIENTS
      BY <1>1 DEF MapsOK
  <2>2. IsFiniteSet(DOMAIN REGISTERED_CLIENTS \ old)
      BY <2>1, FS_Subset
  <2>3. IsFiniteSet((DOMAIN REGISTERED_CLIENTS \ old) \cup {k})
      BY <2>2, FS_AddElement
  <2>4. CLIENTS_WAITING_FOR_KEEP_ALIVE' \subseteq ClientKey
      BY <1>1, <1>2 DEF MapsOK
  <2> QED BY <1>4, <2>3, <2>4
<1>9. RegistryConsistent'
  <2>1. /\ DOMAIN OUTGOING_MESSAGE_TO_CLIENT_NUM_MAP' = DOMAIN REGISTERED_CLIENTS'
        /\ DOMAIN INCOMING_MESSAGE_FROM_CLIENT_NUM_MAP' = DOMAIN REGISTERED_CLIENTS'
        /\ CLIENTS_WAITING_FOR_KEEP_ALIVE' \subseteq DOMAIN REGISTERED_CLIENTS'
      BY <1>1, <1>2, <1>4, <1>6, <1>7 DEF RegistryConsistent
  <2>2. ASSUME NEW x \in DOMAIN REGISTERED_CLIENTS'
        PROVE  /\ x.client_principal \in DOMAIN CURRENT_CLIENT_KEY_MAP'
               /\ CURRENT_CLIENT_KEY_MAP'[x.client_principal] = x
    <3>1. CASE x = k
        BY <1>1, <1>5, <3>1 DEF k
    <3>2. CASE x # k
      <4>1. x \in DOMAIN REGISTERED_CLIENTS /\ x.client_principal # p
          BY <1>3, <1>4, <3>2
      <4> QED BY <1>1, <1>5, <4>1 DEF RegistryConsistent
    <3> QED BY <3>1, <3>2
  <2>3. ASSUME NEW q \in DOMAIN CURRENT_CLIENT_KEY_MAP'
        PROVE  /\ CURRENT_CLIENT_KEY_MAP'[q] \in DOMAIN REGISTERED_CLIENTS'
               /\ CURRENT_CLIENT_KEY_MAP'[q].client_principal = q
    <3>1. CASE q = p
        BY <1>1, <1>4, <1>5, <3>1 DEF k
    <3>2. CASE q # p
      <4>1. /\ q \in DOMAIN CURRENT_CLIENT_KEY_MAP
            /\ CURRENT_CLIENT_KEY_MAP'[q] = CURRENT_CLIENT_KEY_MAP[q]
          BY <1>5, <3>2
      <4>2. /\ CURRENT_CLIENT_KEY_MAP[q] \in DOMAIN REGISTERED_CLIENTS
            /\ CURRENT_CLIENT_KEY_MAP[q].client_principal = q
          BY <1>1, <4>1 DEF RegistryConsistent
      <4> QED BY <1>3, <1>4, <3>2, <4>1, <4>2
    <3> QED BY <3>1, <3>2
  <2> QED BY <2>1, <2>2, <2>3 DEF RegistryConsistent
<1>10. \A x \in DOMAIN REGISTERED_CLIENTS \ old :
           REGISTERED_CLIENTS'[x] = REGISTERED_CLIENTS[x]
    BY <1>2, <1>4
<1> QED BY <1>1, <1>2, <1>4, <1>5, <1>6, <1>7, <1>8, <1>9, <1>10
        DEF k, old, MapInto

\* A client opens a session, and its old one is removed.
LEMMA OpenStep ==
    ASSUME StateInv, NEW p \in Principal, NEW nonce \in ClientNonce, NEW g \in Gateway,
           ws_open(p, nonce, g)
    PROVE  StateInv'
<1> DEFINE k   == [client_principal |-> p, client_nonce |-> nonce]
           old == current_keys(p)
           rg1 == decrement_gateway_clients_count(REGISTERED_GATEWAYS, old)
           gtr == into_gateways_to_remove(GATEWAYS_TO_REMOVE, rg1, old)
           rg2 == increment_gateway_clients_count(rg1, g)
           m   == message_to(rg2, g, k, INITIAL_CANISTER_SEQUENCE_NUM, OpenMessage)
<1>. g \in Gateway
    OBVIOUS
<1>1. /\ MapsOK /\ GatewaysOK(REGISTERED_GATEWAYS) /\ time \in Nat /\ time' = time
      /\ k \in ClientKey /\ INITIAL_CANISTER_SEQUENCE_NUM \in Nat
    BY DEF StateInv, MapsOK, ClientKey, ws_open, INITIAL_CANISTER_SEQUENCE_NUM
<1>2. /\ REGISTERED_GATEWAYS' = push_message_in_gateway_queue(rg2, g, m)
      /\ GATEWAYS_TO_REMOVE' = remove(gtr, {g})
      /\ certify_message(rg2, g, m)
    BY DEF ws_open, out_of_gateways_to_remove
<1>3. /\ old = {} \/ \E x \in DOMAIN REGISTERED_CLIENTS : old = {x}
    BY CurrentKeys
<1>4. /\ MapInto(REGISTERED_CLIENTS, ClientKey, RegisteredClient)'
      /\ MapInto(CURRENT_CLIENT_KEY_MAP, Principal, ClientKey)'
      /\ CLIENTS_WAITING_FOR_KEEP_ALIVE' \subseteq ClientKey
      /\ MapInto(OUTGOING_MESSAGE_TO_CLIENT_NUM_MAP, ClientKey, Nat)'
      /\ MapInto(INCOMING_MESSAGE_FROM_CLIENT_NUM_MAP, ClientKey, Nat \ {0})'
      /\ IsFiniteSet(DOMAIN REGISTERED_CLIENTS)'
      /\ RegistryConsistent'
    BY OpenClientMaps
<1>5. /\ DOMAIN REGISTERED_CLIENTS' = (DOMAIN REGISTERED_CLIENTS \ old) \cup {k}
      /\ \A x \in DOMAIN REGISTERED_CLIENTS \ old :
             REGISTERED_CLIENTS'[x] = REGISTERED_CLIENTS[x]
      /\ REGISTERED_CLIENTS'[k].gateway_principal = g
      /\ k \notin DOMAIN REGISTERED_CLIENTS
    BY OpenClientMaps
<1> HIDE DEF k, old
<1>6. /\ GatewaysOK(rg1)
      /\ DOMAIN rg1 = DOMAIN REGISTERED_GATEWAYS
      /\ \A x \in DOMAIN rg1 :
             rg1[x].connected_clients_count = Cardinality(clients_of(x) \ old)
      /\ MapInto(gtr, Gateway, Nat)
      /\ \A x : x \in DOMAIN gtr
                    <=> x \in DOMAIN REGISTERED_GATEWAYS /\ clients_of(x) \ old = {}
    BY <1>1, <1>3, Leave
<1> HIDE DEF rg1, gtr
<1>7. /\ GatewaysOK(rg2)
      /\ DOMAIN rg2 = DOMAIN rg1 \cup {g}
      /\ rg2[g].connected_clients_count
             = IF g \in DOMAIN rg1 THEN rg1[g].connected_clients_count + 1 ELSE 1
      /\ \A x \in DOMAIN rg1 : x # g => rg2[x] = rg1[x]
    BY <1>6, Increment
<1> HIDE DEF rg2
<1>8. m \in Message /\ m.key \in Gateway \X Nat
  <2>1. g \in DOMAIN rg2 /\ OpenMessage \in Content
      BY <1>7, ContentOK
  <2> DEFINE seq == INITIAL_CANISTER_SEQUENCE_NUM
             content == OpenMessage
  <2>2. seq \in Nat /\ content \in Content
      BY <1>1, <2>1
  <2> HIDE DEF seq, content
  <2>3. /\ message_to(rg2, g, k, seq, content).key = <<g, rg2[g].outgoing_message_nonce>>
        /\ message_to(rg2, g, k, seq, content) \in Message
      BY <1>1, <1>7, <2>1, <2>2, MessageTo
  <2>4. rg2[g].outgoing_message_nonce \in Nat
      BY <1>7 DEF GatewaysOK, MapInto, GatewayRecord
  <2> QED BY <2>3, <2>4 DEF seq, content
<1> HIDE DEF m
<1>9. /\ GatewaysOK(REGISTERED_GATEWAYS')
      /\ DOMAIN REGISTERED_GATEWAYS' = DOMAIN REGISTERED_GATEWAYS \cup {g}
      /\ \A x \in DOMAIN rg2 :
             REGISTERED_GATEWAYS'[x].connected_clients_count
                 = rg2[x].connected_clients_count
  <2> DEFINE new == push_message_in_gateway_queue(rg2, g, m)
  <2>1. g \in DOMAIN rg2
      BY <1>7
  <2>2. /\ GatewaysOK(new) /\ DOMAIN new = DOMAIN rg2
        /\ \A x \in DOMAIN rg2 :
               new[x].connected_clients_count = rg2[x].connected_clients_count
      BY <1>1, <1>7, <1>8, <2>1, Push
  <2>3. REGISTERED_GATEWAYS' = new
      BY <1>2
  <2> HIDE DEF new
  <2> QED BY <1>6, <1>7, <2>2, <2>3
<1>10. /\ MapInto(CERT_TREE, Gateway \X Nat, Message)'
       /\ MapInto(certified_data, Gateway \X Nat, Message)'
    BY <1>1, <1>2, <1>8, Certify
<1>11. /\ MapInto(GATEWAYS_TO_REMOVE', Gateway, Nat)
       /\ DOMAIN GATEWAYS_TO_REMOVE' = DOMAIN gtr \ {g}
    BY <1>2, <1>6, Remove
<1>12. MapsOK'
    BY <1>1, <1>4, <1>9, <1>10, <1>11 DEF MapsOK, GatewaysOK, MapInto
<1>13. \A x \in DOMAIN REGISTERED_CLIENTS' :
           gateway_of(x)' = IF x = k THEN g ELSE gateway_of(x)
    BY <1>5 DEF gateway_of
<1>14. \A x : clients_of(x)' = IF x = g THEN (clients_of(x) \ old) \cup {k}
                                       ELSE clients_of(x) \ old
    BY <1>5, <1>13 DEF clients_of
<1>15. GatewayCounts'
  <2>1. ASSUME NEW x \in DOMAIN REGISTERED_CLIENTS'
        PROVE  gateway_of(x)' \in DOMAIN REGISTERED_GATEWAYS'
      BY <1>5, <1>9, <1>13 DEF StateInv, GatewayCounts
  <2>2. ASSUME NEW x \in DOMAIN REGISTERED_GATEWAYS'
        PROVE  REGISTERED_GATEWAYS'[x].connected_clients_count
                   = Cardinality(clients_of(x)')
    <3>1. CASE x # g
        BY <1>6, <1>7, <1>9, <1>14, <3>1
    <3>2. CASE x = g
      <4>1. /\ IsFiniteSet(clients_of(g) \ old)
            /\ k \notin clients_of(g) \ old
          BY <1>1, <1>5, ClientsAreFinite DEF clients_of
      <4>2. Cardinality(clients_of(g)') = Cardinality(clients_of(g) \ old) + 1
          BY <1>14, <4>1, FS_AddElement
      <4>3. CASE g \in DOMAIN rg1
          BY <1>6, <1>7, <1>9, <3>2, <4>2, <4>3
      <4>4. CASE g \notin DOMAIN rg1
        <5>1. clients_of(g) \ old = {}
            BY <1>6, <4>4 DEF StateInv, GatewayCounts, clients_of
        <5>2. Cardinality(clients_of(g)') = 1
            BY <4>2, <5>1, FS_EmptySet
        <5> QED BY <1>6, <1>7, <1>9, <3>2, <4>4, <5>2
      <4> QED BY <4>3, <4>4
    <3> QED BY <3>1, <3>2
  <2>3. DOMAIN GATEWAYS_TO_REMOVE'
            = {x \in DOMAIN REGISTERED_GATEWAYS' : clients_of(x)' = {}}
    <3>1. ASSUME NEW x
          PROVE  x \in DOMAIN GATEWAYS_TO_REMOVE'
                     <=> x \in DOMAIN REGISTERED_GATEWAYS' /\ clients_of(x)' = {}
      <4>1. CASE x = g
          BY <1>11, <1>14, <4>1
      <4>2. CASE x # g
          BY <1>6, <1>9, <1>11, <1>14, <4>2
      <4> QED BY <4>1, <4>2
    <3> QED BY <3>1
  <2> QED BY <2>1, <2>2, <2>3 DEF GatewayCounts
<1> QED BY <1>4, <1>12, <1>15 DEF StateInv

\* Everything is forgotten: at the end of wipe, when no client is left, and in an
\* upgrade.
LEMMA ResetStep ==
    ASSUME StateInv, UNCHANGED <<certified_data, time>>,
           MapInto(REGISTERED_CLIENTS, ClientKey, RegisteredClient)',
           DOMAIN REGISTERED_CLIENTS' = {},
           CLIENTS_WAITING_FOR_KEEP_ALIVE' = {}, CURRENT_CLIENT_KEY_MAP' = EmptyMap,
           OUTGOING_MESSAGE_TO_CLIENT_NUM_MAP' = EmptyMap,
           INCOMING_MESSAGE_FROM_CLIENT_NUM_MAP' = EmptyMap, CERT_TREE' = EmptyMap,
           REGISTERED_GATEWAYS' = EmptyMap, GATEWAYS_TO_REMOVE' = EmptyMap
    PROVE  StateInv'
<1>1. MapsOK'
  <2>1. GatewaysOK(EmptyMap)
      BY Empty DEF GatewaysOK
  <2>2. IsFiniteSet(DOMAIN REGISTERED_CLIENTS')
      BY FS_EmptySet
  <2> QED BY <2>1, <2>2, Empty DEF StateInv, MapsOK, MapInto, GatewaysOK
<1>2. RegistryConsistent'
    BY Empty DEF RegistryConsistent
<1>3. GatewayCounts'
  <2>1. DOMAIN EmptyMap = {}
      BY DEF EmptyMap
  <2> QED BY <2>1 DEF GatewayCounts
<1> QED BY <1>1, <1>2, <1>3 DEF StateInv

\* The expired gateways are removed: they have no clients.
LEMMA CheckStep ==
    ASSUME StateInv, remove_empty_expired_gateways, UNCHANGED <<client_vars, time>>
    PROVE  StateInv'
<1> DEFINE expired == {g \in DOMAIN GATEWAYS_TO_REMOVE : is_expired_gateway(g)}
           keys == UNION {keys_of(REGISTERED_GATEWAYS[g]) :
                              g \in expired \cap DOMAIN REGISTERED_GATEWAYS}
<1>1. /\ GATEWAYS_TO_REMOVE' = remove(GATEWAYS_TO_REMOVE, expired)
      /\ REGISTERED_GATEWAYS' = remove(REGISTERED_GATEWAYS, expired)
      /\ CERT_TREE' = remove(CERT_TREE, keys)
      /\ certified_data' \in {certified_data, CERT_TREE'}
    BY DEF remove_empty_expired_gateways, certify
<1>2. MapsOK /\ GatewayCounts
    BY DEF StateInv
<1>3. expired \subseteq DOMAIN GATEWAYS_TO_REMOVE
    OBVIOUS
<1> HIDE DEF expired, keys
<1>4. /\ MapInto(GATEWAYS_TO_REMOVE', Gateway, Nat)
      /\ DOMAIN GATEWAYS_TO_REMOVE' = DOMAIN GATEWAYS_TO_REMOVE \ expired
    BY <1>1, <1>2, Remove DEF MapsOK
<1>5. /\ MapInto(REGISTERED_GATEWAYS', Gateway, GatewayRecord)
      /\ DOMAIN REGISTERED_GATEWAYS' = DOMAIN REGISTERED_GATEWAYS \ expired
      /\ \A g \in DOMAIN REGISTERED_GATEWAYS' :
             REGISTERED_GATEWAYS'[g] = REGISTERED_GATEWAYS[g]
  <2>1. MapInto(REGISTERED_GATEWAYS', Gateway, GatewayRecord)
      BY <1>1, <1>2, Remove DEF MapsOK, GatewaysOK
  <2> QED BY <1>1, <2>1 DEF remove, Restrict
<1>6. /\ MapInto(CERT_TREE', Gateway \X Nat, Message)
      /\ MapInto(certified_data', Gateway \X Nat, Message)
  <2>1. MapInto(CERT_TREE', Gateway \X Nat, Message)
      BY <1>1, <1>2, Remove DEF MapsOK
  <2> QED BY <1>1, <1>2, <2>1 DEF MapsOK
<1>7. MapsOK'
    BY <1>2, <1>4, <1>5, <1>6 DEF MapsOK, GatewaysOK, MapInto, client_vars
<1>8. RegistryConsistent'
    BY DEF StateInv, RegistryConsistent, client_vars
<1>9. GatewayCounts'
  <2>1. /\ \A x : clients_of(x)' = clients_of(x)
        /\ \A x : gateway_of(x)' = gateway_of(x)
      BY DEF clients_of, gateway_of, client_vars
  <2>2. \A x \in expired : clients_of(x) = {}
      BY <1>2, <1>3 DEF GatewayCounts
  <2>3. ASSUME NEW k \in DOMAIN REGISTERED_CLIENTS
        PROVE  gateway_of(k) \in DOMAIN REGISTERED_GATEWAYS'
    <3>1. k \in clients_of(gateway_of(k))
        BY DEF clients_of
    <3> QED BY <1>2, <1>5, <2>2, <3>1 DEF GatewayCounts
  <2>4. DOMAIN REGISTERED_CLIENTS' = DOMAIN REGISTERED_CLIENTS
      BY DEF client_vars
  <2>5. \A x \in DOMAIN REGISTERED_GATEWAYS' :
            REGISTERED_GATEWAYS'[x].connected_clients_count = Cardinality(clients_of(x))
      BY <1>2, <1>5 DEF GatewayCounts
  <2>6. DOMAIN GATEWAYS_TO_REMOVE' = {x \in DOMAIN REGISTERED_GATEWAYS' : clients_of(x) = {}}
      BY <1>2, <1>4, <1>5 DEF GatewayCounts
  <2> QED BY <2>1, <2>3, <2>4, <2>5, <2>6 DEF GatewayCounts
<1> QED BY <1>7, <1>8, <1>9 DEF StateInv

\* A message of a client is accepted.
LEMMA MessageStep ==
    ASSUME StateInv, NEW p, NEW k, is_current(p, k), accept_message(k),
           REGISTERED_CLIENTS' \in
               {REGISTERED_CLIENTS,
                [REGISTERED_CLIENTS EXCEPT ![k].last_keep_alive_timestamp = time]}
    PROVE  StateInv'
<1>1. /\ MapsOK /\ RegistryConsistent /\ GatewayCounts /\ time \in Nat
      /\ k \in DOMAIN INCOMING_MESSAGE_FROM_CLIENT_NUM_MAP
    BY DEF StateInv, MapsOK, is_current
<1>2. /\ REGISTERED_CLIENTS' \in [DOMAIN REGISTERED_CLIENTS -> RegisteredClient]
      /\ \A x \in DOMAIN REGISTERED_CLIENTS : REGISTERED_CLIENTS'[x].gateway_principal
                                              = REGISTERED_CLIENTS[x].gateway_principal
  <2> DEFINE client == [REGISTERED_CLIENTS[k] EXCEPT !.last_keep_alive_timestamp = time]
  <2>1. /\ REGISTERED_CLIENTS \in [DOMAIN REGISTERED_CLIENTS -> RegisteredClient]
        /\ k \in DOMAIN REGISTERED_CLIENTS
      BY <1>1 DEF MapsOK, MapInto, RegistryConsistent
  <2>2. /\ client \in RegisteredClient
        /\ client.gateway_principal = REGISTERED_CLIENTS[k].gateway_principal
      BY <1>1, <2>1 DEF RegisteredClient
  <2>3. \/ REGISTERED_CLIENTS' = REGISTERED_CLIENTS
        \/ REGISTERED_CLIENTS' = [REGISTERED_CLIENTS EXCEPT ![k] = client]
      OBVIOUS
  <2> HIDE DEF client
  <2> QED BY <2>1, <2>2, <2>3
<1>3. /\ DOMAIN REGISTERED_CLIENTS' = DOMAIN REGISTERED_CLIENTS
      /\ MapInto(REGISTERED_CLIENTS', ClientKey, RegisteredClient)
    BY <1>1, <1>2 DEF MapsOK, MapInto
<1>4. /\ DOMAIN INCOMING_MESSAGE_FROM_CLIENT_NUM_MAP'
             = DOMAIN INCOMING_MESSAGE_FROM_CLIENT_NUM_MAP
      /\ MapInto(INCOMING_MESSAGE_FROM_CLIENT_NUM_MAP', ClientKey, Nat \ {0})
  <2> DEFINE map == INCOMING_MESSAGE_FROM_CLIENT_NUM_MAP
  <2>1. /\ map \in [DOMAIN map -> Nat \ {0}] /\ DOMAIN map \subseteq ClientKey
        /\ k \in DOMAIN map
      BY <1>1 DEF MapsOK, MapInto
  <2>2. map' = [map EXCEPT ![k] = map[k] + 1]
      BY DEF accept_message
  <2>3. map[k] + 1 \in Nat \ {0}
      BY <2>1
  <2> QED BY <2>1, <2>2, <2>3 DEF MapInto
<1>5. UNCHANGED <<CURRENT_CLIENT_KEY_MAP, CLIENTS_WAITING_FOR_KEEP_ALIVE,
                  OUTGOING_MESSAGE_TO_CLIENT_NUM_MAP, REGISTERED_GATEWAYS,
                  GATEWAYS_TO_REMOVE, CERT_TREE, certified_data, time>>
    BY DEF accept_message, gateway_vars
<1>6. MapsOK'
    BY <1>1, <1>3, <1>4, <1>5 DEF MapsOK, GatewaysOK, MapInto
<1>7. RegistryConsistent'
    BY <1>1, <1>3, <1>4, <1>5 DEF RegistryConsistent
<1>8. GatewayCounts'
  <2>1. \A x \in DOMAIN REGISTERED_CLIENTS : gateway_of(x)' = gateway_of(x)
      BY <1>2 DEF gateway_of
  <2>2. \A x : clients_of(x)' = clients_of(x)
      BY <1>3, <2>1 DEF clients_of
  <2> QED BY <1>1, <1>3, <1>5, <2>1, <2>2 DEF GatewayCounts
<1> QED BY <1>6, <1>7, <1>8 DEF StateInv

----------------------------------------------------------------------------
(***************************************************************************)
(* The invariant holds at the start and is kept by every action.           *)
(***************************************************************************)

LEMMA TimersOK ==
    ASSUME NEW params \in InitParams, time \in Nat
    PROVE  ack_timer(params) \in Timer
           /\ CheckKeepAliveTimer(time + CLIENT_KEEP_ALIVE_TIMEOUT) \in Timer
<1>1. /\ params.send_ack_interval \in Nat /\ CLIENT_KEEP_ALIVE_TIMEOUT \in Nat
    BY InitParamsAssumption, ConstantsAssumption DEF InitParamsAssumption, ConstantsAssumption
<1> QED BY <1>1 DEF ack_timer, SendAckTimer, CheckKeepAliveTimer, Timer

LEMMA InvAtStart == Init => Inv
<1> SUFFICES ASSUME Init PROVE Inv
    OBVIOUS
<1>1. time \in Nat /\ PARAMS \in InitParams
    BY DEF Init
<1>2. StateInv
  <2>1. DOMAIN REGISTERED_CLIENTS = {} /\ IsFiniteSet(DOMAIN REGISTERED_CLIENTS)
      BY FS_EmptySet, Empty DEF Init
  <2>2. MapsOK
      BY <1>1, <2>1, Empty DEF Init, MapsOK, GatewaysOK
  <2>3. RegistryConsistent /\ GatewayCounts
      BY <2>1 DEF Init, RegistryConsistent, GatewayCounts, EmptyMap
  <2> QED BY <2>2, <2>3 DEF StateInv
<1>3. ControlInv
    BY <1>1, TimersOK DEF Init, ControlInv, LoopKeysAreRegistered
<1> QED BY <1>2, <1>3 DEF Inv

\* What runs between loops leaves parameters, timers and loops alone.
LEMMA IdleControl ==
    ASSUME ControlInv, idle, UNCHANGED <<timer_vars, loop_vars, PARAMS>>
    PROVE  ControlInv'
BY DEF ControlInv, LoopKeysAreRegistered, idle, timer_vars, loop_vars

\* A loop comes to a client and removes it: the copy of the client keys still holds
\* registered clients only.
LEMMA LoopControl ==
    ASSUME ControlInv, NEW k, NEW handler, NEW calls_on_close \in BOOLEAN,
           next_iteration(k, handler, calls_on_close), handler # "idle",
           UNCHANGED <<timer_vars, PARAMS>>,
           \/ DOMAIN REGISTERED_CLIENTS' = DOMAIN REGISTERED_CLIENTS \ {k}
           \/ DOMAIN REGISTERED_CLIENTS' = DOMAIN REGISTERED_CLIENTS /\ handler # "wipe"
    PROVE  ControlInv'
<1>1. LoopKeysAreRegistered'
    BY DEF ControlInv, LoopKeysAreRegistered, next_iteration
<1>2. executing' = executing /\ in_on_close' = calls_on_close
    BY DEF next_iteration
<1> QED BY <1>1, <1>2 DEF ControlInv, timer_vars

\* A step that leaves the maps alone.
LEMMA SameMaps ==
    ASSUME StateInv, UNCHANGED <<client_vars, gateway_vars>>, time' \in Nat
    PROVE  StateInv'
<1>. USE DEF client_vars, gateway_vars
<1>1. MapsOK'
    BY DEF StateInv, MapsOK, GatewaysOK, MapInto
<1>2. RegistryConsistent'
    BY DEF StateInv, RegistryConsistent
<1>3. GatewayCounts'
  <2>1. \A x : clients_of(x)' = clients_of(x) /\ gateway_of(x)' = gateway_of(x)
      BY DEF clients_of, gateway_of
  <2> QED BY <2>1 DEF StateInv, GatewayCounts
<1> QED BY <1>1, <1>2, <1>3 DEF StateInv

LEMMA InvInductive == Inv /\ [Next]_vars => Inv'
<1> SUFFICES ASSUME Inv, [Next]_vars PROVE Inv'
    OBVIOUS
<1>. USE DEF Inv
<1>1. /\ StateInv /\ ControlInv /\ MapsOK /\ RegistryConsistent /\ time \in Nat
      /\ PARAMS \in InitParams
    BY DEF StateInv, MapsOK, ControlInv
<1>2. ASSUME NEW p \in Principal, NEW nonce \in ClientNonce, NEW g \in Gateway,
             ws_open(p, nonce, g)
      PROVE  Inv'
  <2>1. idle /\ UNCHANGED <<timer_vars, loop_vars, PARAMS>>
      BY <1>2 DEF ws_open
  <2> QED BY <1>1, <1>2, <2>1, OpenStep, IdleControl
<1>3. ASSUME NEW g \in Gateway, NEW k \in ClientKey, ws_close(g, k)
      PROVE  Inv'
  <2>1. /\ idle /\ UNCHANGED <<timer_vars, loop_vars, PARAMS>> /\ UNCHANGED time
        /\ k \in DOMAIN REGISTERED_CLIENTS /\ remove_client(k)
      BY <1>3 DEF ws_close
  <2> QED BY <1>1, <2>1, RemoveStep, IdleControl
<1>4. ASSUME NEW p \in Principal, NEW k \in ClientKey,
             ws_message(p, k) \/ ws_message_keep_alive(p, k)
      PROVE  Inv'
  <2>1. /\ is_current(p, k) /\ accept_message(k)
        /\ REGISTERED_CLIENTS' \in
               {REGISTERED_CLIENTS,
                [REGISTERED_CLIENTS EXCEPT ![k].last_keep_alive_timestamp = time]}
      BY <1>4 DEF ws_message, ws_message_keep_alive
  <2>2. idle /\ UNCHANGED <<timer_vars, loop_vars, PARAMS>>
      BY <2>1 DEF is_current, accept_message
  <2> QED BY <1>1, <2>1, <2>2, MessageStep, IdleControl
<1>5. ASSUME NEW p \in Principal, NEW k \in ClientKey,
             ws_message_wrong_sequence_number(p, k)
      PROVE  Inv'
  <2>1. /\ idle /\ UNCHANGED <<timer_vars, loop_vars, PARAMS>> /\ UNCHANGED time
        /\ k \in DOMAIN REGISTERED_CLIENTS
        /\ close_client(k, "WrongSequenceNumber")
      BY <1>1, <1>5 DEF ws_message_wrong_sequence_number, is_current, RegistryConsistent
  <2>2. \E reason \in CloseMessageReason : close_client(k, reason)
      BY <2>1 DEF CloseMessageReason
  <2> QED BY <1>1, <2>1, <2>2, RemoveStep, IdleControl
<1>6. ASSUME NEW p \in Principal, send(p)
      PROVE  Inv'
  <2> DEFINE k == CURRENT_CLIENT_KEY_MAP[p]
  <2>1. /\ k \in DOMAIN REGISTERED_CLIENTS /\ ApplicationMessage \in Content
        /\ ws_send(k, ApplicationMessage)
        /\ UNCHANGED <<REGISTERED_CLIENTS, CURRENT_CLIENT_KEY_MAP, GATEWAYS_TO_REMOVE,
                       INCOMING_MESSAGE_FROM_CLIENT_NUM_MAP, time>>
        /\ UNCHANGED <<CLIENTS_WAITING_FOR_KEEP_ALIVE, timer_vars, loop_vars, PARAMS>>
      BY <1>1, <1>6, ContentOK DEF send, RegistryConsistent
  <2> HIDE DEF k
  <2>2. StateInv'
      BY <1>1, <2>1, SendStep
  <2>3. ControlInv'
      BY <1>1, <2>1 DEF ControlInv, LoopKeysAreRegistered, timer_vars, loop_vars
  <2> QED BY <2>2, <2>3
<1>7. ASSUME NEW p \in Principal, close(p)
      PROVE  Inv'
  <2> DEFINE k == CURRENT_CLIENT_KEY_MAP[p]
  <2>1. /\ idle /\ UNCHANGED <<timer_vars, loop_vars, PARAMS>> /\ UNCHANGED time
        /\ k \in DOMAIN REGISTERED_CLIENTS
        /\ close_client(k, "ClosedByApplication")
      BY <1>1, <1>7 DEF close, not_in_on_close, RegistryConsistent
  <2> HIDE DEF k
  <2>2. \E reason \in CloseMessageReason : close_client(k, reason)
      BY <2>1 DEF CloseMessageReason
  <2> QED BY <1>1, <2>1, <2>2, RemoveStep, IdleControl
<1>8. ASSUME NEW params \in InitParams, init(params)
      PROVE  Inv'
  <2>1. StateInv'
      BY <1>1, <1>8, SameMaps DEF init
  <2>2. ControlInv'
      BY <1>1, <1>8, TimersOK
         DEF init, ControlInv, LoopKeysAreRegistered, idle, loop_vars, cancel_timers,
             client_vars
  <2> QED BY <2>1, <2>2
<1>9. ASSUME NEW params \in InitParams, upgrade(params)
      PROVE  Inv'
  <2>1. StateInv' /\ DOMAIN REGISTERED_CLIENTS' = {}
      BY <1>1, <1>9, ResetStep, Empty DEF upgrade, MapInto
  <2>2. ControlInv'
      BY <1>1, <1>9, <2>1, TimersOK
         DEF upgrade, ControlInv, LoopKeysAreRegistered, idle, loop_vars
  <2> QED BY <2>1, <2>2
<1>10. CASE wipe
  <2>1. StateInv'
      BY <1>1, <1>10, SameMaps DEF wipe
  <2>2. ControlInv'
      BY <1>1, <1>10 DEF wipe, start_loop, ControlInv, LoopKeysAreRegistered, MapsOK,
             MapInto, client_vars, timer_vars
  <2> QED BY <2>1, <2>2
<1>11. CASE wipe_end
  <2>1. DOMAIN REGISTERED_CLIENTS' = {} /\ UNCHANGED REGISTERED_CLIENTS
      BY <1>1, <1>11 DEF wipe_end, end_loop, ControlInv, LoopKeysAreRegistered
  <2>2. MapInto(REGISTERED_CLIENTS, ClientKey, RegisteredClient)'
      BY <1>1, <2>1 DEF MapsOK, MapInto
  <2>3. StateInv'
      BY <1>1, <1>11, <2>1, <2>2, ResetStep DEF wipe_end
  <2>4. ControlInv'
      BY <1>1, <1>11, <2>1 DEF wipe_end, end_loop, ControlInv, LoopKeysAreRegistered,
             timer_vars
  <2> QED BY <2>3, <2>4
<1>12. CASE send_ack_to_clients
  <2>1. StateInv'
      BY <1>1, <1>12, SameMaps DEF send_ack_to_clients
  <2>2. ControlInv'
      BY <1>1, <1>12 DEF send_ack_to_clients, start_loop, ControlInv,
             LoopKeysAreRegistered, client_vars, timer_vars
  <2> QED BY <2>1, <2>2
<1>13. CASE send_ack_end
  <2>1. StateInv'
      BY <1>1, <1>13, SameMaps DEF send_ack_end
  <2>2. PICK t \in timers :
            /\ timers' = (timers \ {t}) \cup {ack_timer(PARAMS),
                             CheckKeepAliveTimer(time + CLIENT_KEEP_ALIVE_TIMEOUT)}
            /\ ACK_TIMER' = IF ACK_TIMER = t THEN ack_timer(PARAMS) ELSE ACK_TIMER
      BY <1>13 DEF send_ack_end
  <2>3. /\ PARAMS' = PARAMS
        /\ KEEP_ALIVE_TIMER' = CheckKeepAliveTimer(time + CLIENT_KEEP_ALIVE_TIMEOUT)
        /\ executing' = "idle" /\ in_on_close' = FALSE /\ client_keys' = {}
      BY <1>13 DEF send_ack_end, end_loop
  <2>4. ControlInv'
      BY <1>1, <2>2, <2>3, TimersOK DEF ControlInv, LoopKeysAreRegistered
  <2> QED BY <2>1, <2>4
<1>14. CASE check_keep_alive
  <2>1. StateInv'
      BY <1>1, <1>14, CheckStep DEF check_keep_alive
  <2>2. \E t \in timers : timers' = timers \ {t}
      BY <1>14 DEF check_keep_alive
  <2>3. ControlInv'
      BY <1>1, <1>14, <2>2 DEF check_keep_alive, start_loop, ControlInv,
             LoopKeysAreRegistered, client_vars
  <2> QED BY <2>1, <2>3
<1>15. CASE check_keep_alive_end
  <2>1. StateInv'
      BY <1>1, <1>15, SameMaps DEF check_keep_alive_end
  <2>2. ControlInv'
      BY <1>1, <1>15 DEF check_keep_alive_end, end_loop, ControlInv,
             LoopKeysAreRegistered, timer_vars
  <2> QED BY <2>1, <2>2
<1>16. ASSUME NEW k \in client_keys, wipe_client(k)
       PROVE  Inv'
  <2>1. /\ k \in DOMAIN REGISTERED_CLIENTS /\ next_iteration(k, "wipe", TRUE)
        /\ remove_client(k) /\ UNCHANGED time /\ UNCHANGED <<timer_vars, PARAMS>>
      BY <1>1, <1>16 DEF wipe_client, ControlInv, LoopKeysAreRegistered
  <2>2. StateInv' /\ DOMAIN REGISTERED_CLIENTS' = DOMAIN REGISTERED_CLIENTS \ {k}
      BY <1>1, <2>1, RemoveStep
  <2> QED BY <1>1, <2>1, <2>2, LoopControl
<1>17. ASSUME NEW k \in client_keys, send_ack(k)
       PROVE  Inv'
  <2> DEFINE content == AckMessage(INCOMING_MESSAGE_FROM_CLIENT_NUM_MAP[k] - 1)
  <2>1. /\ k \in DOMAIN REGISTERED_CLIENTS /\ next_iteration(k, "send_ack", FALSE)
        /\ ws_send(k, content) /\ UNCHANGED <<timer_vars, PARAMS>>
        /\ CLIENTS_WAITING_FOR_KEEP_ALIVE' = CLIENTS_WAITING_FOR_KEEP_ALIVE \cup {k}
        /\ UNCHANGED <<REGISTERED_CLIENTS, CURRENT_CLIENT_KEY_MAP, GATEWAYS_TO_REMOVE,
                       INCOMING_MESSAGE_FROM_CLIENT_NUM_MAP, time>>
      BY <1>1, <1>17 DEF send_ack, ControlInv, LoopKeysAreRegistered
  <2>2. INCOMING_MESSAGE_FROM_CLIENT_NUM_MAP[k] - 1 \in Nat
    <3>1. k \in DOMAIN INCOMING_MESSAGE_FROM_CLIENT_NUM_MAP
        BY <1>1, <2>1 DEF RegistryConsistent
    <3>2. INCOMING_MESSAGE_FROM_CLIENT_NUM_MAP[k] \in Nat \ {0}
        BY <1>1, <3>1 DEF MapsOK, MapInto
    <3> QED BY <3>2
  <2>3. content \in Content
      BY <2>2, ContentOK
  <2> HIDE DEF content
  <2>4. StateInv'
      BY <1>1, <2>1, <2>3, SendStep
  <2> QED BY <1>1, <2>1, <2>4, LoopControl
<1>18. ASSUME NEW k \in client_keys, close_silent_client(k)
       PROVE  Inv'
  <2>1. /\ k \in DOMAIN REGISTERED_CLIENTS
        /\ next_iteration(k, "check_keep_alive", TRUE)
        /\ close_client(k, "KeepAliveTimeout")
        /\ UNCHANGED time /\ UNCHANGED <<timer_vars, PARAMS>>
      BY <1>1, <1>18 DEF close_silent_client, ControlInv, LoopKeysAreRegistered
  <2>2. \E reason \in CloseMessageReason : close_client(k, reason)
      BY <2>1 DEF CloseMessageReason
  <2>3. StateInv' /\ DOMAIN REGISTERED_CLIENTS' = DOMAIN REGISTERED_CLIENTS \ {k}
      BY <1>1, <2>1, <2>2, RemoveStep
  <2> QED BY <1>1, <2>1, <2>3, LoopControl
<1>19. CASE tick
  <2>1. time' \in Nat /\ UNCHANGED <<client_vars, gateway_vars>>
      BY <1>1, <1>19 DEF tick
  <2>2. StateInv'
      BY <1>1, <2>1, SameMaps
  <2>3. idle /\ UNCHANGED <<timer_vars, loop_vars, PARAMS>>
      BY <1>19 DEF tick
  <2> QED BY <1>1, <2>2, <2>3, IdleControl
<1>20. CASE UNCHANGED vars
  <2>1. StateInv'
      BY <1>1, <1>20, SameMaps DEF vars
  <2>2. ControlInv'
      BY <1>1, <1>20 DEF vars, client_vars, timer_vars, loop_vars, ControlInv,
             LoopKeysAreRegistered
  <2> QED BY <2>1, <2>2
<1> QED BY <1>2, <1>3, <1>4, <1>5, <1>6, <1>7, <1>8, <1>9, <1>10, <1>11, <1>12, <1>13,
           <1>14, <1>15, <1>16, <1>17, <1>18, <1>19, <1>20 DEF Next

----------------------------------------------------------------------------
(***************************************************************************)
(* The theorems.                                                           *)
(***************************************************************************)

LEMMA Invariant == Spec => []Inv
<1>1. Init => Inv
    BY InvAtStart
<1>2. Inv /\ [Next]_vars => Inv'
    BY InvInductive
<1> QED BY <1>1, <1>2, PTL DEF Spec

\* The type invariant is a part of the inductive one.
LEMMA TypesOfInv == Inv => TypeOK
BY DEF Inv, StateInv, MapsOK, GatewaysOK, ControlInv, LoopKeysAreRegistered, MapInto, TypeOK

\* Every handler keeps the types.  In particular the number expected from a client is
\* never 0, so that the subtraction in an acknowledgement (timers.rs:84) does not
\* underflow.
THEOREM TypeCorrect == Spec => []TypeOK
BY TypesOfInv, Invariant, PTL

\* The maps of clients agree in every reachable state, whatever clients, gateways,
\* timers and the application do.
THEOREM RegistryIsConsistent == Spec => []RegistryConsistent
<1>1. Inv => RegistryConsistent
    BY DEF Inv, StateInv
<1> QED BY <1>1, Invariant, PTL

\* A gateway counts its clients exactly and is due for removal exactly while it has
\* none, so that removing it takes no client's gateway away.
THEOREM GatewaysCountClients == Spec => []GatewayCounts
<1>1. Inv => GatewayCounts
    BY DEF Inv, StateInv
<1> QED BY <1>1, Invariant, PTL

\* The copy of the client keys a loop runs over never holds one that is gone.
THEOREM LoopsMeetRegisteredClients == Spec => []LoopKeysAreRegistered
<1>1. Inv => LoopKeysAreRegistered
    BY DEF Inv, ControlInv
<1> QED BY <1>1, Invariant, PTL
=============================================================================
