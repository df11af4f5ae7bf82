---------------------------- MODULE QueueProofs ----------------------------
(***************************************************************************)
(* Theorems about the queues of messages, on top of the invariant Inv of   *)
(* WsCdkProofs, and about the certification tree: the keys of the messages *)
(* in the queues are all different.                                        *)
(***************************************************************************)
EXTENDS WsCdkProofs

----------------------------------------------------------------------------
(***************************************************************************)
(* The queue of one gateway.                                               *)
(***************************************************************************)

\* Records with the same queues and the same nonce.
SameQueue(a, b) ==
    /\ a.messages_queue = b.messages_queue
    /\ a.messages_to_delete = b.messages_to_delete
    /\ a.outgoing_message_nonce = b.outgoing_message_nonce

LEMMA SameInOrder ==
    ASSUME NEW a, NEW b, SameQueue(a, b), NEW g, NEW now, QueueInOrder(b, g, now)
    PROVE  QueueInOrder(a, g, now)
BY DEF SameQueue, QueueInOrder

LEMMA NewInOrder ==
    ASSUME NEW g, NEW now
    PROVE  QueueInOrder(new_gateway, g, now)
BY DEF QueueInOrder, new_gateway, INITIAL_OUTGOING_MESSAGE_NONCE

\* The ages do not get ahead of a clock that moves on.
LEMMA LaterInOrder ==
    ASSUME NEW gw \in GatewaysOf(Message), NEW g, NEW now \in Nat, NEW later \in Nat,
           now <= later, QueueInOrder(gw, g, now)
    PROVE  QueueInOrder(gw, g, later)
<1>1. \A i \in 1..Len(gw.messages_queue) : gw.messages_to_delete[i] \in Nat
    BY DEF GatewaysOf, QueueInOrder
<1> QED BY <1>1 DEF QueueInOrder

\* Deleting old messages leaves a suffix of the queue.
LEMMA DeleteInOrder ==
    ASSUME NEW gw \in GatewaysOf(Message), NEW g, NEW now \in Nat,
           QueueInOrder(gw, g, now), NEW n \in Nat, NEW max_age
    PROVE  QueueInOrder(delete_old_messages(gw, n, now, max_age), g, now)
<1> DEFINE d   == delete_count(gw, n, now, max_age)
           gd  == delete_old_messages(gw, n, now, max_age)
           len == Len(gw.messages_queue)
<1>1. /\ len \in Nat /\ gw.outgoing_message_nonce \in Nat
      /\ Len(gw.messages_to_delete) = len /\ len <= gw.outgoing_message_nonce
      /\ \A i \in 1..len :
             /\ gw.messages_queue[i].key
                    = <<g, gw.outgoing_message_nonce - len + i - 1>>
             /\ gw.messages_to_delete[i] = gw.messages_queue[i].timestamp
             /\ gw.messages_to_delete[i] <= now
      /\ \A i, j \in 1..len :
             i <= j => gw.messages_to_delete[i] <= gw.messages_to_delete[j]
    BY DEF GatewaysOf, QueueInOrder
<1>2. /\ gd.outgoing_message_nonce = gw.outgoing_message_nonce
      /\ d \in 0..len
      /\ Len(gd.messages_queue) = len - d /\ Len(gd.messages_to_delete) = len - d
      /\ \A i \in 1..len - d :
             /\ gd.messages_queue[i] = gw.messages_queue[i + d]
             /\ gd.messages_to_delete[i] = gw.messages_to_delete[i + d]
    BY <1>1, DeleteOldMessages
<1> HIDE DEF d, gd, len
<1>3. \A i \in 1..len - d : i + d \in 1..len
    BY <1>1, <1>2
<1>4. \A i \in 1..len - d :
          gw.outgoing_message_nonce - len + (i + d) - 1
              = gw.outgoing_message_nonce - (len - d) + i - 1
    BY <1>1, <1>2
<1>5. \A i, j \in 1..len - d : i <= j => i + d <= j + d
    BY <1>1, <1>2
<1>6. QueueInOrder(gd, g, now)
  <2>1. \A i \in 1..len - d :
            /\ gd.messages_queue[i].key
                   = <<g, gw.outgoing_message_nonce - (len - d) + i - 1>>
            /\ gd.messages_to_delete[i] = gd.messages_queue[i].timestamp
            /\ gd.messages_to_delete[i] <= now
      BY <1>1, <1>2, <1>3, <1>4
  <2>2. \A i, j \in 1..len - d :
            i <= j => gd.messages_to_delete[i] <= gd.messages_to_delete[j]
      BY <1>1, <1>2, <1>3, <1>5
  <2>3. len - d <= gw.outgoing_message_nonce
      BY <1>1, <1>2
  <2> QED BY <1>2, <2>1, <2>2, <2>3 DEF QueueInOrder
<1> QED BY <1>6 DEF gd

\* A message with the next nonce, stamped now, keeps the order.
LEMMA AppendInOrder ==
    ASSUME NEW gw \in GatewaysOf(Message), NEW g, NEW now \in Nat,
           QueueInOrder(gw, g, now), NEW m \in Message,
           m.key = <<g, gw.outgoing_message_nonce>>, m.timestamp = now
    PROVE  QueueInOrder(add_message_to_queue(gw, m, now), g, now)
<1> DEFINE ga    == add_message_to_queue(gw, m, now)
           len   == Len(gw.messages_queue)
           nonce == gw.outgoing_message_nonce
<1>1. /\ gw.messages_queue \in Seq(Message) /\ gw.messages_to_delete \in Seq(Nat)
      /\ len \in Nat /\ nonce \in Nat
    BY DEF GatewaysOf
<1>2. /\ Len(gw.messages_to_delete) = len /\ len <= nonce
      /\ \A i \in 1..len :
             /\ gw.messages_queue[i].key = <<g, nonce - len + i - 1>>
             /\ gw.messages_to_delete[i] = gw.messages_queue[i].timestamp
             /\ gw.messages_to_delete[i] <= now
      /\ \A i, j \in 1..len :
             i <= j => gw.messages_to_delete[i] <= gw.messages_to_delete[j]
    BY DEF QueueInOrder
<1>3. /\ ga.outgoing_message_nonce = nonce + 1
      /\ ga.messages_queue = Append(gw.messages_queue, m)
      /\ ga.messages_to_delete = Append(gw.messages_to_delete, now)
    BY AddMessageToQueue
<1> HIDE DEF ga
<1>4. /\ Len(ga.messages_queue) = len + 1 /\ Len(ga.messages_to_delete) = len + 1
      /\ \A i \in 1..len : /\ ga.messages_queue[i] = gw.messages_queue[i]
                           /\ ga.messages_to_delete[i] = gw.messages_to_delete[i]
      /\ ga.messages_queue[len + 1] = m /\ ga.messages_to_delete[len + 1] = now
    BY <1>1, <1>2, <1>3
<1> HIDE DEF len, nonce
<1>5. ASSUME NEW i \in 1..len + 1
      PROVE  /\ ga.messages_queue[i].key = <<g, (nonce + 1) - (len + 1) + i - 1>>
             /\ ga.messages_to_delete[i] = ga.messages_queue[i].timestamp
             /\ ga.messages_to_delete[i] <= now
  <2>1. CASE i = len + 1
    <3>1. nonce = (nonce + 1) - (len + 1) + i - 1
        BY <1>1, <2>1
    <3> QED BY <1>4, <2>1, <3>1 DEF nonce
  <2>2. CASE i \in 1..len
    <3>1. nonce - len + i - 1 = (nonce + 1) - (len + 1) + i - 1
        BY <1>1, <2>2
    <3> QED BY <1>2, <1>4, <2>2, <3>1
  <2> QED BY <1>1, <2>1, <2>2
<1>6. ASSUME NEW i \in 1..len + 1, NEW j \in 1..len + 1, i <= j
      PROVE  ga.messages_to_delete[i] <= ga.messages_to_delete[j]
  <2>1. CASE j = len + 1
      BY <1>4, <1>5, <2>1
  <2>2. CASE j \in 1..len
    <3>1. i \in 1..len
        BY <1>1, <1>6, <2>2
    <3> QED BY <1>2, <1>4, <1>6, <2>2, <3>1
  <2> QED BY <1>1, <2>1, <2>2
<1>7. len + 1 <= nonce + 1
    BY <1>1, <1>2
<1>8. QueueInOrder(ga, g, now)
    BY <1>3, <1>4, <1>5, <1>6, <1>7 DEF QueueInOrder
<1> QED BY <1>8 DEF ga

----------------------------------------------------------------------------
(***************************************************************************)
(* The queues of all gateways.                                             *)
(***************************************************************************)

AllInOrder(rg, now) == \A g \in DOMAIN rg : QueueInOrder(rg[g], g, now)

\* Sending a message keeps every queue in order.
LEMMA PushInOrder ==
    ASSUME NEW rg, GatewaysOK(rg), time \in Nat, AllInOrder(rg, time),
           NEW g \in DOMAIN rg, NEW k \in ClientKey, NEW seq \in Nat,
           NEW content \in Content
    PROVE  AllInOrder(push_message_in_gateway_queue(rg, g,
                          message_to(rg, g, k, seq, content)), time)
<1> DEFINE m  == message_to(rg, g, k, seq, content)
           gd == delete_old_messages(rg[g], MESSAGES_TO_DELETE_COUNT, time,
                                     PARAMS.send_ack_interval)
           ga == add_message_to_queue(gd, m, time)
           new == push_message_in_gateway_queue(rg, g, m)
<1>. time \in Nat
    OBVIOUS
<1>1. /\ rg[g] \in GatewaysOf(Message) /\ QueueInOrder(rg[g], g, time)
      /\ Len(rg[g].messages_to_delete) = Len(rg[g].messages_queue)
      /\ MESSAGES_TO_DELETE_COUNT \in Nat
    BY RecordOfGateway, ConstantsAssumption
       DEF GatewaysOK, MapInto, AllInOrder, ConstantsAssumption
<1>2. /\ m \in Message /\ m.timestamp = time
      /\ m.key = <<g, rg[g].outgoing_message_nonce>>
    BY MessageTo
<1>3. /\ gd \in GatewaysOf(Message)
      /\ gd.outgoing_message_nonce = rg[g].outgoing_message_nonce
    BY <1>1, DeleteOldMessages
<1>4. QueueInOrder(gd, g, time)
    BY <1>1, DeleteInOrder
<1>5. new = [rg EXCEPT ![g] = ga]
    BY DEF push_message_in_gateway_queue
<1> HIDE DEF m, gd
<1>6. QueueInOrder(ga, g, time)
    BY <1>2, <1>3, <1>4, AppendInOrder
<1> HIDE DEF ga, new
<1>7. AllInOrder(new, time)
    BY <1>5, <1>6 DEF AllInOrder
<1> QED BY <1>7 DEF m, new

\* Counting one client less leaves the queues alone.
LEMMA DecrementInOrder ==
    ASSUME NEW rg, GatewaysOK(rg), NEW now, AllInOrder(rg, now), NEW keys
    PROVE  AllInOrder(decrement_gateway_clients_count(rg, keys), now)
<1> DEFINE new == decrement_gateway_clients_count(rg, keys)
<1>1. /\ DOMAIN new = DOMAIN rg
      /\ \A g \in DOMAIN rg : new[g] \in {rg[g], decrement_clients_count(rg[g])}
    BY DEF decrement_gateway_clients_count
<1>2. \A g \in DOMAIN rg : rg[g] \in GatewaysOf(Message)
    BY RecordOfGateway DEF GatewaysOK, MapInto
<1> HIDE DEF new
<1>3. ASSUME NEW g \in DOMAIN rg
      PROVE  SameQueue(new[g], rg[g])
    BY <1>1, <1>2, ClientsCount DEF SameQueue
<1>4. AllInOrder(new, now)
    BY <1>1, <1>3, SameInOrder DEF AllInOrder
<1> QED BY <1>4 DEF new

\* Counting one client more leaves the queues alone; a new gateway has an empty one.
LEMMA IncrementInOrder ==
    ASSUME NEW rg, GatewaysOK(rg), NEW now, AllInOrder(rg, now), NEW g \in Gateway
    PROVE  AllInOrder(increment_gateway_clients_count(rg, g), now)
<1> DEFINE gw  == IF g \in DOMAIN rg THEN rg[g] ELSE new_gateway
           new == increment_gateway_clients_count(rg, g)
<1>1. gw \in GatewaysOf(Message) /\ QueueInOrder(gw, g, now)
    BY RecordOfGateway, NewGateway, NewInOrder DEF GatewaysOK, MapInto, AllInOrder
<1>2. new = put(rg, g, increment_clients_count(gw))
    BY DEF increment_gateway_clients_count
<1> HIDE DEF gw, new
<1>3. QueueInOrder(increment_clients_count(gw), g, now)
  <2>1. SameQueue(increment_clients_count(gw), gw)
      BY <1>1, ClientsCount DEF SameQueue
  <2> QED BY <1>1, <2>1, SameInOrder
<1>4. AllInOrder(new, now)
    BY <1>2, <1>3 DEF AllInOrder, put
<1> QED BY <1>4 DEF new

\* A registered client is removed, with or without a close message.
LEMMA RemoveInOrder ==
    ASSUME StateInv, QueuesInOrder, NEW k \in DOMAIN REGISTERED_CLIENTS,
           UNCHANGED time,
           remove_client(k) \/ \E reason \in CloseMessageReason : close_client(k, reason)
    PROVE  QueuesInOrder'
<1>1. /\ GatewaysOK(REGISTERED_GATEWAYS) /\ AllInOrder(REGISTERED_GATEWAYS, time)
      /\ time \in Nat /\ k \in ClientKey /\ gateway_of(k) \in DOMAIN REGISTERED_GATEWAYS
      /\ OUTGOING_MESSAGE_TO_CLIENT_NUM_MAP[k] \in Nat
    BY DEF StateInv, MapsOK, MapInto, GatewayCounts, RegistryConsistent, QueuesInOrder,
           AllInOrder
<1>2. AllInOrder(REGISTERED_GATEWAYS', time)
  <2>1. CASE remove_client(k)
      BY <1>1, <2>1, DecrementInOrder DEF remove_client
  <2>2. ASSUME NEW reason \in CloseMessageReason, close_client(k, reason)
        PROVE  AllInOrder(REGISTERED_GATEWAYS', time)
    <3> DEFINE g == gateway_of(k)
               m == message_to(REGISTERED_GATEWAYS, g, k,
                               OUTGOING_MESSAGE_TO_CLIENT_NUM_MAP[k], CloseMessage(reason))
               rg == push_message_in_gateway_queue(REGISTERED_GATEWAYS, g, m)
    <3>1. REGISTERED_GATEWAYS' = decrement_gateway_clients_count(rg, {k})
        BY <2>2 DEF close_client
    <3>2. CloseMessage(reason) \in Content
        BY ContentOK
    <3>3. m \in Message
        BY <1>1, <3>2, MessageTo
    <3>4. AllInOrder(rg, time)
        BY <1>1, <3>2, PushInOrder
    <3> HIDE DEF m
    <3>5. GatewaysOK(rg)
        BY <1>1, <3>3, Push
    <3> HIDE DEF rg
    <3> QED BY <3>1, <3>4, <3>5, DecrementInOrder
  <2> QED BY <2>1, <2>2
<1> QED BY <1>2 DEF QueuesInOrder, AllInOrder

\* A message to a registered client.
LEMMA SendInOrder ==
    ASSUME StateInv, QueuesInOrder, NEW k \in DOMAIN REGISTERED_CLIENTS,
           NEW content \in Content, ws_send(k, content), UNCHANGED time
    PROVE  QueuesInOrder'
<1>1. /\ GatewaysOK(REGISTERED_GATEWAYS) /\ AllInOrder(REGISTERED_GATEWAYS, time)
      /\ time \in Nat /\ k \in ClientKey /\ gateway_of(k) \in DOMAIN REGISTERED_GATEWAYS
      /\ OUTGOING_MESSAGE_TO_CLIENT_NUM_MAP[k] \in Nat
    BY DEF StateInv, MapsOK, MapInto, GatewayCounts, RegistryConsistent, QueuesInOrder,
           AllInOrder
<1>2. AllInOrder(REGISTERED_GATEWAYS', time)
    BY <1>1, PushInOrder DEF ws_send
<1> QED BY <1>2 DEF QueuesInOrder, AllInOrder

\* A session is opened: a client leaves its gateway, one joins, and a message is sent.
LEMMA OpenInOrder ==
    ASSUME StateInv, QueuesInOrder, NEW p \in Principal, NEW nonce \in ClientNonce,
           NEW g \in Gateway, ws_open(p, nonce, g)
    PROVE  QueuesInOrder'
<1> DEFINE k   == [client_principal |-> p, client_nonce |-> nonce]
           old == current_keys(p)
           rg1 == decrement_gateway_clients_count(REGISTERED_GATEWAYS, old)
           rg2 == increment_gateway_clients_count(rg1, g)
           m   == message_to(rg2, g, k, INITIAL_CANISTER_SEQUENCE_NUM, OpenMessage)
<1>1. /\ GatewaysOK(REGISTERED_GATEWAYS) /\ AllInOrder(REGISTERED_GATEWAYS, time)
      /\ time \in Nat /\ k \in ClientKey /\ INITIAL_CANISTER_SEQUENCE_NUM \in Nat
      /\ OpenMessage \in Content
    BY ContentOK DEF StateInv, MapsOK, QueuesInOrder, AllInOrder, ClientKey,
           INITIAL_CANISTER_SEQUENCE_NUM
<1>2. REGISTERED_GATEWAYS' = push_message_in_gateway_queue(rg2, g, m) /\ time' = time
    BY DEF ws_open
<1>3. GatewaysOK(rg1) /\ AllInOrder(rg1, time)
  <2>1. old = {} \/ \E x \in DOMAIN REGISTERED_CLIENTS : old = {x}
      BY CurrentKeys
  <2> HIDE DEF old
  <2> QED BY <1>1, <2>1, Leave, DecrementInOrder
<1> HIDE DEF rg1, k
<1>. g \in Gateway
    OBVIOUS
<1>4. GatewaysOK(rg2) /\ g \in DOMAIN rg2 /\ AllInOrder(rg2, time)
  <2>1. GatewaysOK(rg2) /\ DOMAIN rg2 = DOMAIN rg1 \cup {g}
      BY <1>3, Increment
  <2>2. AllInOrder(rg2, time)
      BY <1>3, IncrementInOrder
  <2> QED BY <2>1, <2>2
<1> HIDE DEF rg2
<1>5. AllInOrder(REGISTERED_GATEWAYS', time)
    BY <1>1, <1>2, <1>4, PushInOrder
<1> QED BY <1>2, <1>5 DEF QueuesInOrder, AllInOrder

----------------------------------------------------------------------------
(***************************************************************************)
(* Every action keeps the queues in order.                                 *)
(***************************************************************************)

\* A step that leaves the gateways alone.
LEMMA SameGateways ==
    ASSUME StateInv, QueuesInOrder, UNCHANGED REGISTERED_GATEWAYS,
           time' \in {time, time + 1}
    PROVE  QueuesInOrder'
<1>1. /\ time \in Nat
      /\ \A g \in DOMAIN REGISTERED_GATEWAYS :
             REGISTERED_GATEWAYS[g] \in GatewaysOf(Message)
    BY RecordOfGateway DEF StateInv, MapsOK, GatewaysOK, MapInto
<1>2. time' \in Nat /\ time <= time'
    BY <1>1
<1>3. \A g \in DOMAIN REGISTERED_GATEWAYS :
          QueueInOrder(REGISTERED_GATEWAYS[g], g, time')
    BY <1>1, <1>2, LaterInOrder DEF QueuesInOrder
<1> QED BY <1>3 DEF QueuesInOrder

LEMMA OrderInductive == Inv /\ QueuesInOrder /\ [Next]_vars => QueuesInOrder'
<1> SUFFICES ASSUME Inv, QueuesInOrder, [Next]_vars PROVE QueuesInOrder'
    OBVIOUS
<1>1. /\ StateInv /\ ControlInv /\ RegistryConsistent
      /\ client_keys \subseteq DOMAIN REGISTERED_CLIENTS
    BY DEF Inv, StateInv, ControlInv, LoopKeysAreRegistered
<1>2. ASSUME NEW p \in Principal, NEW nonce \in ClientNonce, NEW g \in Gateway,
             ws_open(p, nonce, g)
      PROVE  QueuesInOrder'
    BY <1>1, <1>2, OpenInOrder
<1>3. ASSUME NEW g \in Gateway, NEW k \in ClientKey, ws_close(g, k)
      PROVE  QueuesInOrder'
    BY <1>1, <1>3, RemoveInOrder DEF ws_close
<1>4. ASSUME NEW p \in Principal, NEW k \in ClientKey,
             ws_message(p, k) \/ ws_message_keep_alive(p, k)
      PROVE  QueuesInOrder'
    BY <1>1, <1>4, SameGateways
       DEF ws_message, ws_message_keep_alive, accept_message, gateway_vars
<1>5. ASSUME NEW p \in Principal, NEW k \in ClientKey,
             ws_message_wrong_sequence_number(p, k)
      PROVE  QueuesInOrder'
  <2>1. /\ UNCHANGED time /\ k \in DOMAIN REGISTERED_CLIENTS
        /\ "WrongSequenceNumber" \in CloseMessageReason
        /\ close_client(k, "WrongSequenceNumber")
      BY <1>1, <1>5 DEF ws_message_wrong_sequence_number, is_current,
             RegistryConsistent, CloseMessageReason
  <2> QED BY <1>1, <2>1, RemoveInOrder
<1>6. ASSUME NEW p \in Principal, send(p)
      PROVE  QueuesInOrder'
  <2> DEFINE k == CURRENT_CLIENT_KEY_MAP[p]
  <2>1. /\ k \in DOMAIN REGISTERED_CLIENTS /\ ApplicationMessage \in Content
        /\ ws_send(k, ApplicationMessage) /\ UNCHANGED time
      BY <1>1, <1>6, ContentOK DEF send, RegistryConsistent
  <2> HIDE DEF k
  <2> QED BY <1>1, <2>1, SendInOrder
<1>7. ASSUME NEW p \in Principal, close(p)
      PROVE  QueuesInOrder'
  <2> DEFINE k == CURRENT_CLIENT_KEY_MAP[p]
  <2>1. /\ k \in DOMAIN REGISTERED_CLIENTS /\ UNCHANGED time
        /\ "ClosedByApplication" \in CloseMessageReason
        /\ close_client(k, "ClosedByApplication")
      BY <1>1, <1>7 DEF close, RegistryConsistent, CloseMessageReason
  <2> HIDE DEF k
  <2> QED BY <1>1, <2>1, RemoveInOrder
<1>8. ASSUME NEW params \in InitParams, init(params)
      PROVE  QueuesInOrder'
    BY <1>1, <1>8, SameGateways DEF init, gateway_vars
<1>9. CASE wipe_end \/ \E params \in InitParams : upgrade(params)
  <2>1. REGISTERED_GATEWAYS' = EmptyMap
      BY <1>9 DEF wipe_end, upgrade
  <2> QED BY <2>1, Empty DEF QueuesInOrder
<1>10. CASE wipe \/ send_ack_to_clients \/ send_ack_end \/ check_keep_alive_end
  <2>1. UNCHANGED REGISTERED_GATEWAYS /\ UNCHANGED time
      BY <1>10 DEF wipe, send_ack_to_clients, send_ack_end, check_keep_alive_end,
             gateway_vars
  <2> QED BY <1>1, <2>1, SameGateways
<1>11. CASE check_keep_alive
  <2>1. /\ \E expired : REGISTERED_GATEWAYS' = remove(REGISTERED_GATEWAYS, expired)
        /\ time' = time
      BY <1>11 DEF check_keep_alive, remove_empty_expired_gateways
  <2> QED BY <2>1 DEF QueuesInOrder, remove, Restrict
<1>12. ASSUME NEW k \in client_keys, wipe_client(k)
       PROVE  QueuesInOrder'
    BY <1>1, <1>12, RemoveInOrder DEF wipe_client
<1>13. ASSUME NEW k \in client_keys, send_ack(k)
       PROVE  QueuesInOrder'
  <2> DEFINE content == AckMessage(INCOMING_MESSAGE_FROM_CLIENT_NUM_MAP[k] - 1)
  <2>1. k \in DOMAIN REGISTERED_CLIENTS /\ ws_send(k, content) /\ UNCHANGED time
      BY <1>1, <1>13 DEF send_ack
  <2>2. content \in Content
    <3>1. k \in DOMAIN INCOMING_MESSAGE_FROM_CLIENT_NUM_MAP
        BY <1>1, <2>1 DEF RegistryConsistent
    <3>2. INCOMING_MESSAGE_FROM_CLIENT_NUM_MAP[k] \in Nat \ {0}
        BY <1>1, <3>1 DEF StateInv, MapsOK, MapInto
    <3> QED BY <3>2, ContentOK
  <2> HIDE DEF content
  <2> QED BY <1>1, <2>1, <2>2, SendInOrder
<1>14. ASSUME NEW k \in client_keys, close_silent_client(k)
       PROVE  QueuesInOrder'
  <2>1. /\ k \in DOMAIN REGISTERED_CLIENTS /\ UNCHANGED time
        /\ "KeepAliveTimeout" \in CloseMessageReason
        /\ close_client(k, "KeepAliveTimeout")
      BY <1>1, <1>14 DEF close_silent_client, CloseMessageReason
  <2> QED BY <1>1, <2>1, RemoveInOrder
<1>15. CASE tick
    BY <1>1, <1>15, SameGateways DEF tick, gateway_vars
<1>16. CASE UNCHANGED vars
    BY <1>1, <1>16, SameGateways DEF vars, gateway_vars
<1> QED BY <1>2, <1>3, <1>4, <1>5, <1>6, <1>7, <1>8, <1>9, <1>10, <1>11, <1>12, <1>13,
           <1>14, <1>15, <1>16 DEF Next

\* The queues of a gateway are in lockstep and in order, for every number of messages
\* and every interval: the unwrap at types.rs:260 and the subtraction at types.rs:255
\* are safe, and the partition at state.rs:377 finds the first message asked for.
THEOREM QueuesStayInOrder == Spec => []QueuesInOrder
<1>1. Init => QueuesInOrder
    BY Empty DEF Init, QueuesInOrder
<1>2. Inv /\ QueuesInOrder /\ [Next]_vars => QueuesInOrder'
    BY OrderInductive
<1> QED BY <1>1, <1>2, Invariant, PTL DEF Spec

----------------------------------------------------------------------------
(***************************************************************************)
(* The tree holds what the queues hold.                                    *)
(***************************************************************************)

queue_of(rg, g) == rg[g].messages_queue

\* CertTreeMatchesQueues, for any map of gateways and any tree.
Matches(rg, tree) ==
    /\ \A key : key \in DOMAIN tree <=>
           \E g \in DOMAIN rg : \E i \in 1..Len(queue_of(rg, g)) : queue_of(rg, g)[i].key = key
    /\ \A g \in DOMAIN rg : \A i \in 1..Len(queue_of(rg, g)) :
           tree[queue_of(rg, g)[i].key] = queue_of(rg, g)[i]

LEMMA MatchesIsTheProperty ==
    ASSUME GatewaysOK(REGISTERED_GATEWAYS)
    PROVE  CertTreeMatchesQueues <=> Matches(REGISTERED_GATEWAYS, CERT_TREE)
<1>1. \A g \in DOMAIN REGISTERED_GATEWAYS :
          DOMAIN REGISTERED_GATEWAYS[g].messages_queue
              = 1..Len(REGISTERED_GATEWAYS[g].messages_queue)
    BY DEF GatewaysOK, MapInto, GatewayRecord
<1> DEFINE keys == UNION {keys_of(REGISTERED_GATEWAYS[g]) : g \in DOMAIN REGISTERED_GATEWAYS}
           held(key) == \E g \in DOMAIN REGISTERED_GATEWAYS :
                            \E i \in 1..Len(REGISTERED_GATEWAYS[g].messages_queue) :
                                REGISTERED_GATEWAYS[g].messages_queue[i].key = key
<1>2. \A key : key \in keys <=> held(key)
    BY <1>1 DEF keys_of
<1>3. DOMAIN CERT_TREE = keys <=> \A key : key \in DOMAIN CERT_TREE <=> held(key)
  <2> HIDE DEF keys, held
  <2> QED BY <1>2
<1> QED BY <1>1, <1>3 DEF CertTreeMatchesQueues, Matches, queue_of

\* The key of a message tells its gateway and its place.
LEMMA KeysDiffer ==
    ASSUME NEW rg, GatewaysOK(rg), NEW now, AllInOrder(rg, now)
    PROVE  \A g, x \in DOMAIN rg :
               \A i \in 1..Len(queue_of(rg, g)) :
                   /\ queue_of(rg, g)[i].key # <<x, rg[x].outgoing_message_nonce>>
                   /\ \A j \in 1..Len(queue_of(rg, x)) :
                          queue_of(rg, g)[i].key = queue_of(rg, x)[j].key => g = x /\ i = j
<1>1. \A g \in DOMAIN rg :
          /\ rg[g].outgoing_message_nonce \in Nat /\ Len(queue_of(rg, g)) \in Nat
          /\ \A i \in 1..Len(queue_of(rg, g)) :
                 queue_of(rg, g)[i].key =
                     <<g, rg[g].outgoing_message_nonce - Len(queue_of(rg, g)) + i - 1>>
    BY DEF GatewaysOK, MapInto, GatewayRecord, AllInOrder, QueueInOrder, queue_of
<1>2. ASSUME NEW nonce \in Nat, NEW len \in Nat, NEW i \in 1..len, NEW j \in 1..len
      PROVE  /\ nonce - len + i - 1 # nonce
             /\ nonce - len + i - 1 = nonce - len + j - 1 => i = j
    OBVIOUS
<1>3. \A a, b, c, e : <<a, b>> = <<c, e>> => a = c /\ b = e
    OBVIOUS
<1> QED BY <1>1, <1>2, <1>3

\* A message that takes the place of expired ones, in the queue and in the tree.
LEMMA PushMatches ==
    ASSUME NEW rg, GatewaysOK(rg), time \in Nat, AllInOrder(rg, time),
           Matches(rg, CERT_TREE),
           NEW g \in DOMAIN rg, NEW m \in Message,
           m.key = <<g, rg[g].outgoing_message_nonce>>
    PROVE  Matches(push_message_in_gateway_queue(rg, g, m),
                   put_cert_for_message(expired_keys(rg, g), m))
<1> DEFINE n    == MESSAGES_TO_DELETE_COUNT
           age  == PARAMS.send_ack_interval
           d    == delete_count(rg[g], n, time, age)
           gd   == delete_old_messages(rg[g], n, time, age)
           ga   == add_message_to_queue(gd, m, time)
           len  == Len(queue_of(rg, g))
           old  == expired_keys(rg, g)
           new  == push_message_in_gateway_queue(rg, g, m)
           tree == put_cert_for_message(old, m)
<1>. time \in Nat /\ m \in Message
    OBVIOUS
<1>1. /\ rg[g] \in GatewaysOf(Message) /\ n \in Nat
      /\ Len(rg[g].messages_to_delete) = Len(rg[g].messages_queue)
      /\ len \in Nat
    BY RecordOfGateway, ConstantsAssumption
       DEF GatewaysOK, MapInto, ConstantsAssumption, queue_of, GatewaysOf
<1>2. /\ gd \in GatewaysOf(Message)
      /\ d \in 0..len
      /\ Len(gd.messages_queue) = len - d
      /\ \A i \in 1..len - d : gd.messages_queue[i] = queue_of(rg, g)[i + d]
    BY <1>1, DeleteOldMessages DEF queue_of
<1>3. old = {queue_of(rg, g)[i].key : i \in 1..d}
    BY DEF expired_keys, deleted_keys, queue_of
<1>4. new = [rg EXCEPT ![g] = ga]
    BY DEF push_message_in_gateway_queue
<1> HIDE DEF d, gd
<1>5. ga.messages_queue = Append(gd.messages_queue, m)
    BY <1>2, AddMessageToQueue
<1> HIDE DEF ga, new
<1>6. /\ DOMAIN new = DOMAIN rg
      /\ \A x \in DOMAIN rg : x # g => queue_of(new, x) = queue_of(rg, x)
      /\ Len(queue_of(new, g)) = len - d + 1
      /\ \A i \in 1..len - d : queue_of(new, g)[i] = queue_of(rg, g)[i + d]
      /\ queue_of(new, g)[len - d + 1] = m
  <2>1. /\ DOMAIN new = DOMAIN rg
        /\ \A x \in DOMAIN rg : new[x] = IF x = g THEN ga ELSE rg[x]
      BY <1>4
  <2>2. gd.messages_queue \in Seq(Message)
      BY <1>2 DEF GatewaysOf
  <2>3. /\ Len(ga.messages_queue) = len - d + 1
        /\ \A i \in 1..len - d : ga.messages_queue[i] = gd.messages_queue[i]
        /\ ga.messages_queue[len - d + 1] = m
    <3> HIDE DEF len
    <3> QED BY <1>1, <1>2, <1>5, <2>2
  <2> HIDE DEF len
  <2> QED BY <1>2, <2>1, <2>3 DEF queue_of
<1>7. /\ DOMAIN tree = (DOMAIN CERT_TREE \ old) \cup {m.key}
      /\ \A key \in DOMAIN tree :
             tree[key] = IF key = m.key THEN m ELSE CERT_TREE[key]
    BY DEF put_cert_for_message, put, remove, Restrict
<1> HIDE DEF tree, old, len
<1>8. \A x, y \in DOMAIN rg :
          \A i \in 1..Len(queue_of(rg, x)), j \in 1..Len(queue_of(rg, y)) :
              /\ queue_of(rg, x)[i].key # m.key
              /\ queue_of(rg, x)[i].key = queue_of(rg, y)[j].key => x = y /\ i = j
    BY KeysDiffer
<1>9. /\ \A i \in 1..len - d : i + d \in 1..len /\ i + d \notin 1..d
      /\ \A i \in 1..len : i \notin 1..d => i - d \in 1..len - d /\ (i - d) + d = i
      /\ \A i \in 1..d : i \in 1..len
      /\ len - d + 1 \in 1..len - d + 1 /\ \A i \in 1..len - d : i \in 1..len - d + 1
      /\ \A i \in 1..len - d + 1 : i \in 1..len - d \/ i = len - d + 1
    BY <1>1, <1>2
<1>10. \A x \in DOMAIN rg : \A i \in 1..Len(queue_of(rg, x)) :
           queue_of(rg, x)[i].key \in old <=> x = g /\ i \in 1..d
  <2> SUFFICES ASSUME NEW x \in DOMAIN rg, NEW i \in 1..Len(queue_of(rg, x))
               PROVE  queue_of(rg, x)[i].key \in old <=> x = g /\ i \in 1..d
      OBVIOUS
  <2>1. ASSUME queue_of(rg, x)[i].key \in old
        PROVE  x = g /\ i \in 1..d
    <3>1. PICK j \in 1..d : queue_of(rg, x)[i].key = queue_of(rg, g)[j].key
        BY <1>3, <2>1
    <3>2. j \in 1..Len(queue_of(rg, g))
        BY <1>9 DEF len
    <3> QED BY <1>8, <3>1, <3>2
  <2> QED BY <1>3, <2>1
<1>11. ASSUME NEW x \in DOMAIN new, NEW i \in 1..Len(queue_of(new, x))
       PROVE  /\ queue_of(new, x)[i].key \in DOMAIN tree
              /\ tree[queue_of(new, x)[i].key] = queue_of(new, x)[i]
  <2>1. \A y \in DOMAIN rg : \A j \in 1..Len(queue_of(rg, y)) :
            /\ queue_of(rg, y)[j].key \in DOMAIN CERT_TREE
            /\ CERT_TREE[queue_of(rg, y)[j].key] = queue_of(rg, y)[j]
            /\ queue_of(rg, y)[j].key # m.key
      BY <1>8 DEF Matches
  <2>2. CASE x # g
      BY <1>6, <1>7, <1>10, <2>1, <2>2
  <2>3. CASE x = g /\ i \in 1..len - d
    <3>1. /\ queue_of(new, x)[i] = queue_of(rg, g)[i + d]
          /\ i + d \in 1..Len(queue_of(rg, g)) /\ i + d \notin 1..d
        BY <1>6, <1>9, <2>3 DEF len
    <3> QED BY <1>7, <1>10, <2>1, <3>1
  <2>4. CASE x = g /\ i = len - d + 1
      BY <1>6, <1>7, <2>4
  <2> QED BY <1>6, <1>9, <2>2, <2>3, <2>4
<1>12. ASSUME NEW key \in DOMAIN tree
       PROVE  \E x \in DOMAIN new : \E i \in 1..Len(queue_of(new, x)) :
                  queue_of(new, x)[i].key = key
  <2>1. CASE key = m.key
      BY <1>6, <1>9, <2>1
  <2>2. CASE key \in DOMAIN CERT_TREE /\ key \notin old
    <3>0. PICK x \in DOMAIN rg : \E i \in 1..Len(queue_of(rg, x)) :
              queue_of(rg, x)[i].key = key
        BY <2>2 DEF Matches
    <3>1. PICK i \in 1..Len(queue_of(rg, x)) : queue_of(rg, x)[i].key = key
        BY <3>0
    <3>2. CASE x # g
        BY <1>6, <3>1, <3>2
    <3>3. CASE x = g
      <4>1. i \in 1..len /\ i \notin 1..d
          BY <1>10, <2>2, <3>1, <3>3 DEF len
      <4>2. i - d \in 1..len - d /\ queue_of(new, g)[i - d] = queue_of(rg, g)[i]
          BY <1>6, <1>9, <4>1
      <4> QED BY <1>6, <1>9, <3>1, <3>3, <4>2
    <3> QED BY <3>2, <3>3
  <2> QED BY <1>7, <2>1, <2>2
<1>13. Matches(new, tree)
    BY <1>11, <1>12 DEF Matches
<1> QED BY <1>13 DEF new, tree, old

\* Counting clients leaves the queues alone, and a new gateway has an empty one.
LEMMA SameQueuesMatch ==
    ASSUME NEW a, NEW b, NEW tree, Matches(b, tree), DOMAIN b \subseteq DOMAIN a,
           \A g \in DOMAIN b : queue_of(a, g) = queue_of(b, g),
           \A g \in DOMAIN a \ DOMAIN b : queue_of(a, g) = << >>
    PROVE  Matches(a, tree)
<1>1. \A g \in DOMAIN a : \A i \in 1..Len(queue_of(a, g)) :
          g \in DOMAIN b /\ i \in 1..Len(queue_of(b, g))
    OBVIOUS
<1> QED BY <1>1 DEF Matches

LEMMA DecrementQueues ==
    ASSUME NEW rg, GatewaysOK(rg), NEW keys
    PROVE  LET new == decrement_gateway_clients_count(rg, keys)
           IN  /\ DOMAIN new = DOMAIN rg
               /\ \A g \in DOMAIN rg : queue_of(new, g) = queue_of(rg, g)
<1> DEFINE new == decrement_gateway_clients_count(rg, keys)
<1>1. /\ DOMAIN new = DOMAIN rg
      /\ \A g \in DOMAIN rg : new[g] \in {rg[g], decrement_clients_count(rg[g])}
    BY DEF decrement_gateway_clients_count
<1>2. \A g \in DOMAIN rg : rg[g] \in GatewaysOf(Message)
    BY RecordOfGateway DEF GatewaysOK, MapInto
<1> HIDE DEF new
<1>3. \A g \in DOMAIN rg : queue_of(new, g) = queue_of(rg, g)
    BY <1>1, <1>2, ClientsCount DEF queue_of
<1> QED BY <1>1, <1>3 DEF new

LEMMA IncrementQueues ==
    ASSUME NEW rg, GatewaysOK(rg), NEW g \in Gateway
    PROVE  LET new == increment_gateway_clients_count(rg, g)
           IN  /\ DOMAIN new = DOMAIN rg \cup {g}
               /\ \A x \in DOMAIN rg : queue_of(new, x) = queue_of(rg, x)
               /\ g \notin DOMAIN rg => queue_of(new, g) = << >>
<1> DEFINE gw  == IF g \in DOMAIN rg THEN rg[g] ELSE new_gateway
           ga  == increment_clients_count(gw)
           new == increment_gateway_clients_count(rg, g)
<1>1. /\ gw \in GatewaysOf(Message)
      /\ g \in DOMAIN rg => gw.messages_queue = rg[g].messages_queue
      /\ g \notin DOMAIN rg => gw.messages_queue = << >>
    BY RecordOfGateway, NewGateway DEF GatewaysOK, MapInto, new_gateway
<1>2. new = put(rg, g, ga)
    BY DEF increment_gateway_clients_count
<1> HIDE DEF gw, new
<1>3. ga.messages_queue = gw.messages_queue
    BY <1>1, ClientsCount
<1> HIDE DEF ga
<1>4. /\ DOMAIN new = DOMAIN rg \cup {g}
      /\ \A x \in DOMAIN new : new[x] = IF x = g THEN ga ELSE rg[x]
    BY <1>2 DEF put
<1>5. /\ \A x \in DOMAIN rg : queue_of(new, x) = queue_of(rg, x)
      /\ g \notin DOMAIN rg => queue_of(new, g) = << >>
    BY <1>1, <1>3, <1>4 DEF queue_of
<1> QED BY <1>4, <1>5 DEF new

----------------------------------------------------------------------------
(***************************************************************************)
(* Tree and certified data together.                                       *)
(***************************************************************************)

Waiting(rg) == \E g \in DOMAIN rg : queue_of(rg, g) # << >>

CertInv ==
    /\ Matches(REGISTERED_GATEWAYS, CERT_TREE)
    /\ Waiting(REGISTERED_GATEWAYS) => certified_data = CERT_TREE

\* A step that leaves the queues and the tree alone.
LEMMA SameCert ==
    ASSUME CertInv, UNCHANGED <<CERT_TREE, certified_data>>,
           DOMAIN REGISTERED_GATEWAYS' = DOMAIN REGISTERED_GATEWAYS,
           \A g \in DOMAIN REGISTERED_GATEWAYS :
               queue_of(REGISTERED_GATEWAYS', g) = queue_of(REGISTERED_GATEWAYS, g)
    PROVE  CertInv'
<1>1. Matches(REGISTERED_GATEWAYS', CERT_TREE)
    BY SameQueuesMatch DEF CertInv
<1>2. Waiting(REGISTERED_GATEWAYS') => Waiting(REGISTERED_GATEWAYS)
    BY DEF Waiting
<1>3. Matches(REGISTERED_GATEWAYS', CERT_TREE')
    BY <1>1
<1> QED BY <1>2, <1>3 DEF CertInv, Matches, Waiting, queue_of

\* A step that sends a message m through gateway g, on the gateways rg with the same
\* queues, and then changes nothing but counts.
LEMMA PushCert ==
    ASSUME CertInv, time \in Nat,
           NEW rg, GatewaysOK(rg), AllInOrder(rg, time), Matches(rg, CERT_TREE),
           NEW g \in DOMAIN rg, NEW m \in Message,
           m.key = <<g, rg[g].outgoing_message_nonce>>, certify_message(rg, g, m),
           NEW new, new = push_message_in_gateway_queue(rg, g, m),
           DOMAIN REGISTERED_GATEWAYS' = DOMAIN new,
           \A x \in DOMAIN new : queue_of(REGISTERED_GATEWAYS', x) = queue_of(new, x)
    PROVE  CertInv'
<1>1. Matches(new, put_cert_for_message(expired_keys(rg, g), m))
    BY PushMatches
<1>2. /\ CERT_TREE' = put_cert_for_message(expired_keys(rg, g), m)
      /\ certified_data' = CERT_TREE'
    BY DEF certify_message, certify
<1>3. Matches(REGISTERED_GATEWAYS', CERT_TREE')
    BY <1>1, <1>2, SameQueuesMatch
<1> QED BY <1>2, <1>3 DEF CertInv, Matches, Waiting, queue_of

LEMMA RemoveCert ==
    ASSUME StateInv, QueuesInOrder, CertInv, NEW k \in DOMAIN REGISTERED_CLIENTS,
           remove_client(k) \/ \E reason \in CloseMessageReason : close_client(k, reason)
    PROVE  CertInv'
<1>1. /\ GatewaysOK(REGISTERED_GATEWAYS) /\ AllInOrder(REGISTERED_GATEWAYS, time)
      /\ time \in Nat /\ k \in ClientKey /\ gateway_of(k) \in DOMAIN REGISTERED_GATEWAYS
      /\ OUTGOING_MESSAGE_TO_CLIENT_NUM_MAP[k] \in Nat
      /\ Matches(REGISTERED_GATEWAYS, CERT_TREE)
    BY DEF StateInv, MapsOK, MapInto, GatewayCounts, RegistryConsistent, QueuesInOrder,
           AllInOrder, CertInv
<1>2. CASE remove_client(k)
  <2>1. /\ REGISTERED_GATEWAYS' = decrement_gateway_clients_count(REGISTERED_GATEWAYS, {k})
        /\ UNCHANGED <<CERT_TREE, certified_data>>
      BY <1>2 DEF remove_client
  <2> QED BY <1>1, <2>1, DecrementQueues, SameCert
<1>3. ASSUME NEW reason \in CloseMessageReason, close_client(k, reason)
      PROVE  CertInv'
  <2> DEFINE g == gateway_of(k)
             m == message_to(REGISTERED_GATEWAYS, g, k,
                             OUTGOING_MESSAGE_TO_CLIENT_NUM_MAP[k], CloseMessage(reason))
             new == push_message_in_gateway_queue(REGISTERED_GATEWAYS, g, m)
  <2>1. /\ REGISTERED_GATEWAYS' = decrement_gateway_clients_count(new, {k})
        /\ certify_message(REGISTERED_GATEWAYS, g, m)
      BY <1>3 DEF close_client
  <2>2. CloseMessage(reason) \in Content
      BY ContentOK
  <2>3. m \in Message /\ m.key = <<g, REGISTERED_GATEWAYS[g].outgoing_message_nonce>>
      BY <1>1, <2>2, MessageTo
  <2> HIDE DEF m
  <2>4. GatewaysOK(new)
      BY <1>1, <2>3, Push
  <2> HIDE DEF new
  <2>5. /\ DOMAIN REGISTERED_GATEWAYS' = DOMAIN new
        /\ \A x \in DOMAIN new : queue_of(REGISTERED_GATEWAYS', x) = queue_of(new, x)
      BY <2>1, <2>4, DecrementQueues
  <2> QED BY <1>1, <2>1, <2>3, <2>5, PushCert DEF new
<1> QED BY <1>2, <1>3

LEMMA SendCert ==
    ASSUME StateInv, QueuesInOrder, CertInv, NEW k \in DOMAIN REGISTERED_CLIENTS,
           NEW content \in Content, ws_send(k, content)
    PROVE  CertInv'
<1> DEFINE g == gateway_of(k)
           m == message_to(REGISTERED_GATEWAYS, g, k,
                           OUTGOING_MESSAGE_TO_CLIENT_NUM_MAP[k], content)
<1>1. /\ GatewaysOK(REGISTERED_GATEWAYS) /\ AllInOrder(REGISTERED_GATEWAYS, time)
      /\ time \in Nat /\ k \in ClientKey /\ g \in DOMAIN REGISTERED_GATEWAYS
      /\ OUTGOING_MESSAGE_TO_CLIENT_NUM_MAP[k] \in Nat
      /\ Matches(REGISTERED_GATEWAYS, CERT_TREE)
    BY DEF StateInv, MapsOK, MapInto, GatewayCounts, RegistryConsistent, QueuesInOrder,
           AllInOrder, CertInv
<1>2. m \in Message /\ m.key = <<g, REGISTERED_GATEWAYS[g].outgoing_message_nonce>>
    BY <1>1, MessageTo
<1>3. /\ REGISTERED_GATEWAYS' = push_message_in_gateway_queue(REGISTERED_GATEWAYS, g, m)
      /\ certify_message(REGISTERED_GATEWAYS, g, m)
    BY DEF ws_send
<1> HIDE DEF m, g
<1> QED BY <1>1, <1>2, <1>3, PushCert

LEMMA OpenCert ==
    ASSUME StateInv, QueuesInOrder, CertInv, NEW p \in Principal,
           NEW nonce \in ClientNonce, NEW g \in Gateway, ws_open(p, nonce, g)
    PROVE  CertInv'
<1> DEFINE k   == [client_principal |-> p, client_nonce |-> nonce]
           old == current_keys(p)
           rg1 == decrement_gateway_clients_count(REGISTERED_GATEWAYS, old)
           rg2 == increment_gateway_clients_count(rg1, g)
           m   == message_to(rg2, g, k, INITIAL_CANISTER_SEQUENCE_NUM, OpenMessage)
<1>. g \in Gateway
    OBVIOUS
<1>1. /\ GatewaysOK(REGISTERED_GATEWAYS) /\ AllInOrder(REGISTERED_GATEWAYS, time)
      /\ time \in Nat /\ k \in ClientKey /\ INITIAL_CANISTER_SEQUENCE_NUM \in Nat
      /\ OpenMessage \in Content /\ Matches(REGISTERED_GATEWAYS, CERT_TREE)
    BY ContentOK DEF StateInv, MapsOK, QueuesInOrder, AllInOrder, ClientKey,
           INITIAL_CANISTER_SEQUENCE_NUM, CertInv
<1>2. /\ REGISTERED_GATEWAYS' = push_message_in_gateway_queue(rg2, g, m)
      /\ certify_message(rg2, g, m)
    BY DEF ws_open
<1>3. GatewaysOK(rg1) /\ AllInOrder(rg1, time) /\ Matches(rg1, CERT_TREE)
  <2>1. old = {} \/ \E x \in DOMAIN REGISTERED_CLIENTS : old = {x}
      BY CurrentKeys
  <2> HIDE DEF old
  <2>2. GatewaysOK(rg1)
      BY <1>1, <2>1, Leave
  <2>3. AllInOrder(rg1, time)
      BY <1>1, DecrementInOrder
  <2>4. /\ DOMAIN rg1 = DOMAIN REGISTERED_GATEWAYS
        /\ \A x \in DOMAIN REGISTERED_GATEWAYS :
               queue_of(rg1, x) = queue_of(REGISTERED_GATEWAYS, x)
      BY <1>1, DecrementQueues
  <2> HIDE DEF rg1
  <2>5. Matches(rg1, CERT_TREE)
      BY <1>1, <2>4, SameQueuesMatch
  <2> QED BY <2>2, <2>3, <2>5
<1> HIDE DEF rg1, k
<1>4. /\ GatewaysOK(rg2) /\ g \in DOMAIN rg2 /\ AllInOrder(rg2, time)
      /\ Matches(rg2, CERT_TREE)
  <2>1. GatewaysOK(rg2) /\ DOMAIN rg2 = DOMAIN rg1 \cup {g}
      BY <1>3, Increment
  <2>2. AllInOrder(rg2, time)
      BY <1>3, IncrementInOrder
  <2>3. /\ \A x \in DOMAIN rg1 : queue_of(rg2, x) = queue_of(rg1, x)
        /\ g \notin DOMAIN rg1 => queue_of(rg2, g) = << >>
      BY <1>3, IncrementQueues
  <2> HIDE DEF rg2
  <2>4. Matches(rg2, CERT_TREE)
      BY <1>3, <2>1, <2>3, SameQueuesMatch
  <2> QED BY <2>1, <2>2, <2>4
<1> HIDE DEF rg2
<1>5. m \in Message /\ m.key = <<g, rg2[g].outgoing_message_nonce>>
    BY <1>1, <1>4, MessageTo
<1> HIDE DEF m
<1> QED BY <1>1, <1>2, <1>4, <1>5, PushCert

\* A gateway is removed with its messages and their entries in the tree.
LEMMA CheckCert ==
    ASSUME StateInv, QueuesInOrder, CertInv, remove_empty_expired_gateways
    PROVE  CertInv'
<1> DEFINE rg      == REGISTERED_GATEWAYS
           expired == {g \in DOMAIN GATEWAYS_TO_REMOVE : is_expired_gateway(g)}
           removed == expired \cap DOMAIN rg
           keys    == UNION {keys_of(rg[g]) : g \in removed}
           rest    == REGISTERED_GATEWAYS'
<1>1. /\ rest = remove(rg, expired)
      /\ CERT_TREE' = remove(CERT_TREE, keys)
      /\ IF removed = {} THEN UNCHANGED certified_data ELSE certified_data' = CERT_TREE'
    BY DEF remove_empty_expired_gateways, certify
<1>2. /\ GatewaysOK(rg) /\ AllInOrder(rg, time) /\ Matches(rg, CERT_TREE)
      /\ MapInto(CERT_TREE, Gateway \X Nat, Message)
    BY DEF StateInv, MapsOK, QueuesInOrder, AllInOrder, CertInv
<1> HIDE DEF expired
<1>3. /\ \A g : g \in DOMAIN rest <=> g \in DOMAIN rg /\ g \notin expired
      /\ \A g \in DOMAIN rest : queue_of(rest, g) = queue_of(rg, g)
    BY <1>1 DEF remove, Restrict, queue_of
<1>4. /\ \A key : key \in DOMAIN CERT_TREE' <=> key \in DOMAIN CERT_TREE /\ key \notin keys
      /\ \A key \in DOMAIN CERT_TREE' : CERT_TREE'[key] = CERT_TREE[key]
    BY <1>1 DEF remove, Restrict
<1>5. \A key : key \in keys <=> \E g \in removed : \E i \in 1..Len(queue_of(rg, g)) :
                                   queue_of(rg, g)[i].key = key
  <2>1. \A g \in DOMAIN rg : DOMAIN rg[g].messages_queue = 1..Len(rg[g].messages_queue)
      BY <1>2 DEF GatewaysOK, MapInto, GatewayRecord
  <2> QED BY <2>1 DEF keys_of, queue_of
<1>6. \A g \in DOMAIN rest : \A i \in 1..Len(queue_of(rg, g)) :
          queue_of(rg, g)[i].key \notin keys
  <2>1. \A g, x \in DOMAIN rg : \A i \in 1..Len(queue_of(rg, g)) :
            \A j \in 1..Len(queue_of(rg, x)) :
                queue_of(rg, g)[i].key = queue_of(rg, x)[j].key => g = x
      BY <1>2, KeysDiffer
  <2> HIDE DEF keys, rg, rest
  <2> QED BY <1>3, <1>5, <2>1
<1>7. Matches(rest, CERT_TREE')
  <2> HIDE DEF rg, rest, keys, removed
  <2>1. ASSUME NEW g \in DOMAIN rest, NEW i \in 1..Len(queue_of(rest, g))
        PROVE  /\ queue_of(rest, g)[i].key \in DOMAIN CERT_TREE'
               /\ CERT_TREE'[queue_of(rest, g)[i].key] = queue_of(rest, g)[i]
    <3>1. /\ g \in DOMAIN rg /\ queue_of(rest, g) = queue_of(rg, g)
          /\ i \in 1..Len(queue_of(rg, g))
        BY <1>3
    <3>2. /\ queue_of(rg, g)[i].key \in DOMAIN CERT_TREE
          /\ CERT_TREE[queue_of(rg, g)[i].key] = queue_of(rg, g)[i]
        BY <1>2, <3>1 DEF Matches
    <3> QED BY <1>4, <1>6, <3>1, <3>2
  <2>2. ASSUME NEW key \in DOMAIN CERT_TREE'
        PROVE  \E g \in DOMAIN rest : \E i \in 1..Len(queue_of(rest, g)) :
                   queue_of(rest, g)[i].key = key
    <3>1. key \in DOMAIN CERT_TREE /\ key \notin keys
        BY <1>4
    <3>2. PICK g \in DOMAIN rg : \E i \in 1..Len(queue_of(rg, g)) :
              queue_of(rg, g)[i].key = key
        BY <1>2, <3>1 DEF Matches
    <3>3. g \notin expired
        BY <1>5, <3>1, <3>2 DEF removed
    <3> QED BY <1>3, <3>2, <3>3
  <2> QED BY <2>1, <2>2 DEF Matches
<1>8. Waiting(rest) => certified_data' = CERT_TREE'
  <2>1. CASE removed = {}
    <3>1. keys = {}
        BY <2>1
    <3> HIDE DEF keys, removed
    <3>2. CERT_TREE' = CERT_TREE /\ certified_data' = certified_data
        BY <1>1, <1>2, <2>1, <3>1 DEF remove, Restrict, MapInto
    <3> HIDE DEF rg, rest
    <3>3. Waiting(rest) => Waiting(rg)
        BY <1>3 DEF Waiting
    <3> QED BY <3>2, <3>3 DEF CertInv, rg
  <2>2. CASE removed # {}
      BY <1>1, <2>2
  <2> QED BY <2>1, <2>2
<1> QED BY <1>7, <1>8 DEF CertInv, Matches, Waiting, queue_of

----------------------------------------------------------------------------
(***************************************************************************)
(* Every action keeps tree, queues and certified data together.            *)
(***************************************************************************)

LEMMA CertInductive == Inv /\ QueuesInOrder /\ CertInv /\ [Next]_vars => CertInv'
<1> SUFFICES ASSUME Inv, QueuesInOrder, CertInv, [Next]_vars PROVE CertInv'
    OBVIOUS
<1>1. /\ StateInv /\ ControlInv /\ RegistryConsistent
      /\ client_keys \subseteq DOMAIN REGISTERED_CLIENTS
    BY DEF Inv, StateInv, ControlInv, LoopKeysAreRegistered
<1>2. ASSUME UNCHANGED <<REGISTERED_GATEWAYS, CERT_TREE, certified_data>>
      PROVE  CertInv'
    BY <1>2 DEF CertInv, Matches, Waiting, queue_of
<1>3. ASSUME NEW p \in Principal, NEW nonce \in ClientNonce, NEW g \in Gateway,
             ws_open(p, nonce, g)
      PROVE  CertInv'
    BY <1>1, <1>3, OpenCert
<1>4. ASSUME NEW g \in Gateway, NEW k \in ClientKey, ws_close(g, k)
      PROVE  CertInv'
    BY <1>1, <1>4, RemoveCert DEF ws_close
<1>5. ASSUME NEW p \in Principal, NEW k \in ClientKey,
             ws_message(p, k) \/ ws_message_keep_alive(p, k)
      PROVE  CertInv'
    BY <1>2, <1>5 DEF ws_message, ws_message_keep_alive, accept_message, gateway_vars
<1>6. ASSUME NEW p \in Principal, NEW k \in ClientKey,
             ws_message_wrong_sequence_number(p, k)
      PROVE  CertInv'
  <2>1. /\ k \in DOMAIN REGISTERED_CLIENTS
        /\ "WrongSequenceNumber" \in CloseMessageReason
        /\ close_client(k, "WrongSequenceNumber")
      BY <1>1, <1>6 DEF ws_message_wrong_sequence_number, is_current,
             RegistryConsistent, CloseMessageReason
  <2> QED BY <1>1, <2>1, RemoveCert
<1>7. ASSUME NEW p \in Principal, send(p)
      PROVE  CertInv'
  <2> DEFINE k == CURRENT_CLIENT_KEY_MAP[p]
  <2>1. /\ k \in DOMAIN REGISTERED_CLIENTS /\ ApplicationMessage \in Content
        /\ ws_send(k, ApplicationMessage)
      BY <1>1, <1>7, ContentOK DEF send, RegistryConsistent
  <2> HIDE DEF k
  <2> QED BY <1>1, <2>1, SendCert
<1>8. ASSUME NEW p \in Principal, close(p)
      PROVE  CertInv'
  <2> DEFINE k == CURRENT_CLIENT_KEY_MAP[p]
  <2>1. /\ k \in DOMAIN REGISTERED_CLIENTS
        /\ "ClosedByApplication" \in CloseMessageReason
        /\ close_client(k, "ClosedByApplication")
      BY <1>1, <1>8 DEF close, RegistryConsistent, CloseMessageReason
  <2> HIDE DEF k
  <2> QED BY <1>1, <2>1, RemoveCert
<1>9. ASSUME NEW params \in InitParams, init(params)
      PROVE  CertInv'
    BY <1>2, <1>9 DEF init, gateway_vars
<1>10. CASE wipe_end \/ \E params \in InitParams : upgrade(params)
  <2>1. REGISTERED_GATEWAYS' = EmptyMap /\ CERT_TREE' = EmptyMap
      BY <1>10 DEF wipe_end, upgrade
  <2> QED BY <2>1, Empty DEF CertInv, Matches, Waiting
<1>11. CASE wipe \/ send_ack_to_clients \/ send_ack_end \/ check_keep_alive_end
    BY <1>2, <1>11 DEF wipe, send_ack_to_clients, send_ack_end, check_keep_alive_end,
           gateway_vars
<1>12. CASE check_keep_alive
    BY <1>1, <1>12, CheckCert DEF check_keep_alive
<1>13. ASSUME NEW k \in client_keys, wipe_client(k)
       PROVE  CertInv'
    BY <1>1, <1>13, RemoveCert DEF wipe_client
<1>14. ASSUME NEW k \in client_keys, send_ack(k)
       PROVE  CertInv'
  <2> DEFINE content == AckMessage(INCOMING_MESSAGE_FROM_CLIENT_NUM_MAP[k] - 1)
  <2>1. k \in DOMAIN REGISTERED_CLIENTS /\ ws_send(k, content)
      BY <1>1, <1>14 DEF send_ack
  <2>2. content \in Content
    <3>1. k \in DOMAIN INCOMING_MESSAGE_FROM_CLIENT_NUM_MAP
        BY <1>1, <2>1 DEF RegistryConsistent
    <3>2. INCOMING_MESSAGE_FROM_CLIENT_NUM_MAP[k] \in Nat \ {0}
        BY <1>1, <3>1 DEF StateInv, MapsOK, MapInto
    <3> QED BY <3>2, ContentOK
  <2> HIDE DEF content
  <2> QED BY <1>1, <2>1, <2>2, SendCert
<1>15. ASSUME NEW k \in client_keys, close_silent_client(k)
       PROVE  CertInv'
  <2>1. /\ k \in DOMAIN REGISTERED_CLIENTS
        /\ "KeepAliveTimeout" \in CloseMessageReason
        /\ close_client(k, "KeepAliveTimeout")
      BY <1>1, <1>15 DEF close_silent_client, CloseMessageReason
  <2> QED BY <1>1, <2>1, RemoveCert
<1>16. CASE tick \/ UNCHANGED vars
    BY <1>2, <1>16 DEF tick, vars, gateway_vars
<1> QED BY <1>3, <1>4, <1>5, <1>6, <1>7, <1>8, <1>9, <1>10, <1>11, <1>12, <1>13,
           <1>14, <1>15, <1>16 DEF Next

LEMMA CertInvariant == Spec => [](Inv /\ CertInv)
<1>1. Init => CertInv
    BY Empty DEF Init, CertInv, Matches, Waiting
<1>2. Inv /\ QueuesInOrder /\ CertInv /\ [Next]_vars => CertInv'
    BY CertInductive
<1> QED BY <1>1, <1>2, Invariant, QueuesStayInOrder, PTL DEF Spec

\* The tree holds exactly the messages that can be polled, for any number of gateways
\* and messages: what is pruned, or removed with its gateway, leaves no hash behind.
THEOREM TreeHoldsTheQueues == Spec => []CertTreeMatchesQueues
<1>1. Inv /\ CertInv => CertTreeMatchesQueues
    BY MatchesIsTheProperty DEF Inv, StateInv, MapsOK, CertInv
<1> QED BY <1>1, CertInvariant, PTL

\* Whatever forgets the tree without certifying it (wipe, an upgrade) leaves nothing
\* to poll before the next message certifies the tree again.
THEOREM NothingIsServedUncertified == Spec => []ServedMessagesAreCertified
<1>1. CertInv => ServedMessagesAreCertified
    BY DEF CertInv, Waiting, queue_of, ServedMessagesAreCertified
<1> QED BY <1>1, CertInvariant, PTL
=============================================================================
