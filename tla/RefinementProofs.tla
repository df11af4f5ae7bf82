-------------------------- MODULE RefinementProofs --------------------------
(***************************************************************************)
(* The CDK does nothing that the service (WsService) does not allow; it    *)
(* forgets no message too early, and numbers the messages of a client      *)
(* without a gap.                                                          *)
(***************************************************************************)
EXTENDS WsRefinement, TimerProofs, QueueProofs

----------------------------------------------------------------------------
(***************************************************************************)
(* The logs of the gateways.                                               *)
(***************************************************************************)

logs_of(rg) == [g \in DOMAIN rg |-> log_of(rg[g])]

\* Every message of a prefix is older than the interval.
all_old(queue, d) ==
    \A i \in 1..d : time - queue[i].timestamp > PARAMS.send_ack_interval

\* Sending a message adds it to the log of its gateway, and forgets old ones.
LEMMA PushLog ==
    ASSUME NEW rg, GatewaysOK(rg), time \in Nat, AllInOrder(rg, time),
           NEW g \in DOMAIN rg, NEW m \in Message
    PROVE  LET new == push_message_in_gateway_queue(rg, g, m)
               queue == rg[g].messages_queue
           IN  /\ DOMAIN new = DOMAIN rg
               /\ \A x \in DOMAIN rg : x # g => new[x] = rg[x]
               /\ \E d \in 0..Len(queue) :
                      /\ all_old(queue, d)
                      /\ new[g].messages_queue = Append(SubSeq(queue, d + 1, Len(queue)), m)
                      /\ log_of(new[g]) =
                             [start    |-> log_of(rg[g]).start + d,
                              messages |-> Append(SubSeq(queue, d + 1, Len(queue)), m)]
<1> DEFINE new   == push_message_in_gateway_queue(rg, g, m)
           gw    == rg[g]
           queue == gw.messages_queue
           d     == delete_count(gw, MESSAGES_TO_DELETE_COUNT, time, PARAMS.send_ack_interval)
           gd    == delete_old_messages(gw, MESSAGES_TO_DELETE_COUNT, time,
                                        PARAMS.send_ack_interval)
           ga    == add_message_to_queue(gd, m, time)
<1>1. /\ gw \in GatewaysOf(Message) /\ QueueInOrder(gw, g, time)
      /\ Len(gw.messages_to_delete) = Len(queue)
      /\ MESSAGES_TO_DELETE_COUNT \in Nat
    BY RecordOfGateway, ConstantsAssumption
       DEF GatewaysOK, MapInto, AllInOrder, ConstantsAssumption
<1>2. /\ queue \in Seq(Message) /\ gw.messages_to_delete \in Seq(Nat)
      /\ gw.outgoing_message_nonce \in Nat /\ Len(queue) \in Nat
    BY <1>1 DEF GatewaysOf
<1>3. new = [rg EXCEPT ![g] = ga]
    BY DEF push_message_in_gateway_queue
<1>4. /\ gd \in GatewaysOf(Message) /\ d \in 0..Len(queue)
      /\ gd.outgoing_message_nonce = gw.outgoing_message_nonce
    BY <1>1, DeleteOldMessages
<1>5. gd.messages_queue = SubSeq(queue, d + 1, Len(queue))
    BY <1>1 DEF delete_old_messages, GatewaysOf
<1>6. all_old(queue, d)
  <2>1. \A i \in 1..d : older_than(gw.messages_to_delete[i], time, PARAMS.send_ack_interval)
      BY <1>1, <1>2, DeleteCount
  <2>2. \A i \in 1..Len(queue) : gw.messages_to_delete[i] = queue[i].timestamp
      BY <1>1 DEF QueueInOrder
  <2>3. \A i \in 1..d : i \in 1..Len(queue)
      BY <1>2, <1>4
  <2> HIDE DEF d, queue
  <2> QED BY <2>1, <2>2, <2>3 DEF all_old, older_than
<1> HIDE DEF d, gd, queue, gw
<1>. m \in Message /\ time \in Nat
    OBVIOUS
<1>7. /\ ga.messages_queue = Append(gd.messages_queue, m)
      /\ ga.outgoing_message_nonce = gd.outgoing_message_nonce + 1
    BY <1>4, AddMessageToQueue
<1>8. Len(ga.messages_queue) = Len(queue) - d + 1
  <2>1. Len(gd.messages_queue) = Len(queue) - d
      BY <1>1, DeleteOldMessages DEF gd, d, queue, gw
  <2>2. gd.messages_queue \in Seq(Message)
      BY <1>4 DEF GatewaysOf
  <2>3. Len(ga.messages_queue) = Len(gd.messages_queue) + 1
      BY <1>7, <2>2, AppendProperties
  <2> QED BY <2>1, <2>3
<1> HIDE DEF ga
<1>9. log_of(ga) = [start    |-> log_of(gw).start + d,
                    messages |-> Append(SubSeq(queue, d + 1, Len(queue)), m)]
  <2>1. ga.outgoing_message_nonce - Len(ga.messages_queue)
            = gw.outgoing_message_nonce - Len(queue) + d
      BY <1>2, <1>4, <1>7, <1>8
  <2> QED BY <1>5, <1>7, <2>1 DEF log_of, queue
<1>10. /\ DOMAIN new = DOMAIN rg /\ new[g] = ga
       /\ \A x \in DOMAIN rg : x # g => new[x] = rg[x]
    BY <1>3
<1> HIDE DEF new
<1>11. \E e \in 0..Len(queue) :
           /\ all_old(queue, e)
           /\ new[g].messages_queue = Append(SubSeq(queue, e + 1, Len(queue)), m)
           /\ log_of(new[g]) = [start    |-> log_of(rg[g]).start + e,
                                messages |-> Append(SubSeq(queue, e + 1, Len(queue)), m)]
    BY <1>4, <1>5, <1>6, <1>7, <1>9, <1>10 DEF gw
<1> QED BY <1>10, <1>11 DEF new, queue, gw

\* In the terms of the service.
LEMMA PushRefines ==
    ASSUME NEW rg, GatewaysOK(rg), time \in Nat, AllInOrder(rg, time),
           NEW g \in DOMAIN rg, NEW k \in ClientKey, NEW seq \in Nat,
           NEW content \in Content
    PROVE  logs_of(push_message_in_gateway_queue(rg, g, message_to(rg, g, k, seq, content)))
               \in Service!with_message(logs_of(rg), g, k.client_principal, k.client_nonce,
                                        seq + 1, content)
<1> DEFINE m == message_to(rg, g, k, seq, content)
           new == push_message_in_gateway_queue(rg, g, m)
           log == log_of(rg[g])
           msg == [key |-> <<g, log.start + Len(log.messages)>>,
                   client_key |-> [client_principal |-> k.client_principal,
                                   client_nonce |-> k.client_nonce],
                   sequence_num |-> seq + 1, timestamp |-> time, content |-> content]
<1>1. /\ rg[g].outgoing_message_nonce \in Nat /\ Len(rg[g].messages_queue) \in Nat
      /\ log.messages = rg[g].messages_queue
    BY DEF GatewaysOK, MapInto, GatewayRecord, log_of
<1>2. m = msg
  <2>1. log.start + Len(log.messages) = rg[g].outgoing_message_nonce
      BY <1>1 DEF log_of
  <2>2. k = [client_principal |-> k.client_principal, client_nonce |-> k.client_nonce]
      BY DEF ClientKey
  <2> QED BY <2>1, <2>2 DEF message_to
<1>3. m \in Message
    BY MessageTo
<1> HIDE DEF m, msg
<1>4. PICK d \in 0..Len(rg[g].messages_queue) :
          /\ all_old(rg[g].messages_queue, d)
          /\ log_of(new[g]) =
                 [start    |-> log.start + d,
                  messages |-> Append(SubSeq(rg[g].messages_queue, d + 1,
                                             Len(rg[g].messages_queue)), m)]
    BY <1>3, PushLog
<1>5. DOMAIN new = DOMAIN rg /\ \A x \in DOMAIN rg : x # g => new[x] = rg[x]
    BY <1>3, PushLog
<1> HIDE DEF new, log
<1>6. logs_of(new) = [logs_of(rg) EXCEPT ![g] =
          [start    |-> log.start + d,
           messages |-> Append(SubSeq(log.messages, d + 1, Len(log.messages)), msg)]]
    BY <1>1, <1>2, <1>4, <1>5 DEF logs_of
<1>7. logs_of(rg)[g] = log
    BY DEF logs_of, log
<1>8. d \in 0..Len(log.messages) /\ Service!may_forget(log, d)
    BY <1>1, <1>4 DEF all_old, Service!may_forget
<1>9. logs_of(new) \in Service!with_message(logs_of(rg), g, k.client_principal,
                                            k.client_nonce, seq + 1, content)
    BY <1>6, <1>7, <1>8 DEF Service!with_message, msg
<1> QED BY <1>9 DEF new, m

----------------------------------------------------------------------------
(***************************************************************************)
(* The sessions of the principals.                                         *)
(***************************************************************************)

Sessions == [p \in DOMAIN CURRENT_CLIENT_KEY_MAP |-> session_of(p)]
Logs == logs_of(REGISTERED_GATEWAYS)

\* The session of a registered client.
LEMMA SessionOfClient ==
    ASSUME StateInv, NEW k \in DOMAIN REGISTERED_CLIENTS
    PROVE  /\ k.client_principal \in DOMAIN CURRENT_CLIENT_KEY_MAP
           /\ CURRENT_CLIENT_KEY_MAP[k.client_principal] = k
           /\ k \in ClientKey
           /\ \A q \in DOMAIN CURRENT_CLIENT_KEY_MAP :
                  q # k.client_principal => CURRENT_CLIENT_KEY_MAP[q] # k
           /\ gateway_of(k) \in DOMAIN REGISTERED_GATEWAYS
           /\ OUTGOING_MESSAGE_TO_CLIENT_NUM_MAP[k] \in Nat
           /\ INCOMING_MESSAGE_FROM_CLIENT_NUM_MAP[k] \in Nat \ {0}
BY DEF StateInv, RegistryConsistent, GatewayCounts, MapsOK, MapInto

LEMMA SameSessions ==
    ASSUME UNCHANGED client_vars
    PROVE  Sessions' = Sessions
BY DEF client_vars, Sessions, session_of, gateway_of

session(n, g, s, r, h, a) ==
    [nonce |-> n, gateway |-> g, sent |-> s, received |-> r, heard |-> h, asked |-> a]

\* A message is sent to k, which may be waited for from then on.
LEMMA SentSessions ==
    ASSUME StateInv, NEW k \in DOMAIN REGISTERED_CLIENTS,
           OUTGOING_MESSAGE_TO_CLIENT_NUM_MAP' =
               [OUTGOING_MESSAGE_TO_CLIENT_NUM_MAP EXCEPT ![k] = @ + 1],
           UNCHANGED <<REGISTERED_CLIENTS, CURRENT_CLIENT_KEY_MAP,
                       INCOMING_MESSAGE_FROM_CLIENT_NUM_MAP>>
    PROVE  /\ CLIENTS_WAITING_FOR_KEEP_ALIVE' = CLIENTS_WAITING_FOR_KEEP_ALIVE
                  => Sessions' = [Sessions EXCEPT ![k.client_principal].sent = @ + 1]
           /\ CLIENTS_WAITING_FOR_KEEP_ALIVE' = CLIENTS_WAITING_FOR_KEEP_ALIVE \cup {k}
                  => \E s : /\ s = [Sessions EXCEPT ![k.client_principal].sent = @ + 1]
                           /\ Sessions' = [s EXCEPT ![k.client_principal].asked = TRUE]
<1> DEFINE p == k.client_principal
           out == OUTGOING_MESSAGE_TO_CLIENT_NUM_MAP
<1>1. /\ p \in DOMAIN CURRENT_CLIENT_KEY_MAP /\ CURRENT_CLIENT_KEY_MAP[p] = k
      /\ \A q \in DOMAIN CURRENT_CLIENT_KEY_MAP : q # p => CURRENT_CLIENT_KEY_MAP[q] # k
    BY SessionOfClient
<1>2. /\ \A x \in DOMAIN REGISTERED_CLIENTS : out'[x] = IF x = k THEN out[x] + 1 ELSE out[x]
      /\ \A q \in DOMAIN CURRENT_CLIENT_KEY_MAP :
             CURRENT_CLIENT_KEY_MAP[q] \in DOMAIN REGISTERED_CLIENTS
    BY DEF StateInv, RegistryConsistent
<1> HIDE DEF p
<1>3. ASSUME CLIENTS_WAITING_FOR_KEEP_ALIVE' \in
                 {CLIENTS_WAITING_FOR_KEEP_ALIVE, CLIENTS_WAITING_FOR_KEEP_ALIVE \cup {k}},
             NEW q \in DOMAIN CURRENT_CLIENT_KEY_MAP, q # p
      PROVE  session_of(q)' = session_of(q)
  <2> DEFINE x == CURRENT_CLIENT_KEY_MAP[q]
  <2>1. x # k /\ x \in DOMAIN REGISTERED_CLIENTS
      BY <1>1, <1>2, <1>3
  <2>2. out'[x] = out[x] /\ (x \in CLIENTS_WAITING_FOR_KEEP_ALIVE'
                                <=> x \in CLIENTS_WAITING_FOR_KEEP_ALIVE)
      BY <1>2, <1>3, <2>1
  <2> QED BY <2>2 DEF session_of, gateway_of
<1>4. /\ DOMAIN Sessions = DOMAIN CURRENT_CLIENT_KEY_MAP
      /\ Sessions' = [q \in DOMAIN CURRENT_CLIENT_KEY_MAP |-> session_of(q)']
      /\ Sessions[p] = session_of(p)
    BY <1>1 DEF Sessions
<1>5. ASSUME CLIENTS_WAITING_FOR_KEEP_ALIVE' = CLIENTS_WAITING_FOR_KEEP_ALIVE
      PROVE  Sessions' = [Sessions EXCEPT ![p].sent = @ + 1]
  <2>1. session_of(p)' = [session_of(p) EXCEPT !.sent = @ + 1]
      BY <1>1, <1>2, <1>5 DEF session_of, gateway_of
  <2> QED BY <1>1, <1>3, <1>4, <1>5, <2>1 DEF Sessions
<1>6. ASSUME CLIENTS_WAITING_FOR_KEEP_ALIVE' = CLIENTS_WAITING_FOR_KEEP_ALIVE \cup {k}
      PROVE  \E s : /\ s = [Sessions EXCEPT ![p].sent = @ + 1]
                    /\ Sessions' = [s EXCEPT ![p].asked = TRUE]
  <2> DEFINE waited == k \in CLIENTS_WAITING_FOR_KEEP_ALIVE
             of_k(sent, asked) ==
                 session(k.client_nonce, gateway_of(k), sent,
                         INCOMING_MESSAGE_FROM_CLIENT_NUM_MAP[k] - 1, heard(k), asked)
             s == [Sessions EXCEPT ![p] = of_k(out[k] + 1, waited)]
  <2>1. waited' = TRUE
      BY <1>6
  <2>2. /\ session_of(p) = of_k(out[k], waited)
        /\ session_of(p)' = of_k(out[k] + 1, waited')
      BY <1>1, <1>2 DEF session_of, session, gateway_of, heard
  <2> HIDE DEF waited, out
  <2>3. session_of(p)' = of_k(out[k] + 1, TRUE)
      BY <2>1, <2>2, Zenon
  <2>4. of_k(out[k] + 1, waited) = [session_of(p) EXCEPT !.sent = @ + 1]
      BY <2>2 DEF session
  <2>5. session_of(p)' = [of_k(out[k] + 1, waited) EXCEPT !.asked = TRUE]
    <3>1. PICK b : b = TRUE
        OBVIOUS
    <3>2. of_k(out[k] + 1, b) = [of_k(out[k] + 1, waited) EXCEPT !.asked = b]
        BY DEF session
    <3>3. session_of(p)' = of_k(out[k] + 1, b)
        BY <2>3, <3>1, Zenon
    <3> HIDE DEF of_k
    <3>4. session_of(p)' = [of_k(out[k] + 1, waited) EXCEPT !.asked = b]
        BY <3>2, <3>3
    <3> QED BY <3>1, <3>4
  <2> HIDE DEF of_k
  <2>6. s = [Sessions EXCEPT ![p].sent = @ + 1]
      BY <1>4, <2>4
  <2>7. s[p] = of_k(out[k] + 1, waited) /\ \A q \in DOMAIN Sessions : q # p => s[q] = Sessions[q]
      BY <1>1, <1>4
  <2>8. DOMAIN s = DOMAIN CURRENT_CLIENT_KEY_MAP
      BY <1>4
  <2> HIDE DEF s
  <2>9. Sessions' = [s EXCEPT ![p].asked = TRUE]
      BY <1>1, <1>3, <1>4, <1>6, <2>5, <2>6, <2>7, <2>8 DEF Sessions
  <2> QED BY <2>6, <2>9
<1> QED BY <1>5, <1>6 DEF p

\* A client is removed: its principal has no session.
LEMMA RemovedSessions ==
    ASSUME StateInv, NEW k \in DOMAIN REGISTERED_CLIENTS, remove_from_client_maps(k)
    PROVE  Sessions' = Service!delete(Sessions, {k.client_principal})
<1> DEFINE p == k.client_principal
           ccm == CURRENT_CLIENT_KEY_MAP
           P == {p}
           K == {k}
<1>1. /\ p \in DOMAIN ccm /\ ccm[p] = k
      /\ \A q \in DOMAIN ccm : q # p => ccm[q] # k /\ ccm[q] \in DOMAIN REGISTERED_CLIENTS
      /\ DOMAIN OUTGOING_MESSAGE_TO_CLIENT_NUM_MAP = DOMAIN REGISTERED_CLIENTS
      /\ DOMAIN INCOMING_MESSAGE_FROM_CLIENT_NUM_MAP = DOMAIN REGISTERED_CLIENTS
    BY SessionOfClient DEF StateInv, RegistryConsistent
<1>2. /\ CLIENTS_WAITING_FOR_KEEP_ALIVE' = CLIENTS_WAITING_FOR_KEEP_ALIVE \ K
      /\ ccm' = remove(ccm, P)
      /\ OUTGOING_MESSAGE_TO_CLIENT_NUM_MAP' = remove(OUTGOING_MESSAGE_TO_CLIENT_NUM_MAP, K)
      /\ INCOMING_MESSAGE_FROM_CLIENT_NUM_MAP' =
             remove(INCOMING_MESSAGE_FROM_CLIENT_NUM_MAP, K)
      /\ REGISTERED_CLIENTS' = remove(REGISTERED_CLIENTS, K)
    BY DEF remove_from_client_maps, not_waiting
<1>3. \A x : x \in K <=> x = k
    OBVIOUS
<1>4. \A q : q \in P <=> q = p
    OBVIOUS
<1> HIDE DEF P, K, p
<1>5. DOMAIN ccm' = DOMAIN ccm \ P /\ \A q \in DOMAIN ccm \ P : ccm'[q] = ccm[q]
    BY <1>2 DEF remove, Restrict
<1>6. \A x \in DOMAIN REGISTERED_CLIENTS : x # k =>
          /\ REGISTERED_CLIENTS'[x] = REGISTERED_CLIENTS[x]
          /\ OUTGOING_MESSAGE_TO_CLIENT_NUM_MAP'[x] = OUTGOING_MESSAGE_TO_CLIENT_NUM_MAP[x]
          /\ INCOMING_MESSAGE_FROM_CLIENT_NUM_MAP'[x]
                 = INCOMING_MESSAGE_FROM_CLIENT_NUM_MAP[x]
          /\ x \in CLIENTS_WAITING_FOR_KEEP_ALIVE' <=> x \in CLIENTS_WAITING_FOR_KEEP_ALIVE
    BY <1>1, <1>2, <1>3 DEF remove, Restrict
<1>7. \A q \in DOMAIN ccm' : session_of(q)' = session_of(q)
  <2> SUFFICES ASSUME NEW q \in DOMAIN ccm'
               PROVE  session_of(q)' = session_of(q)
      OBVIOUS
  <2> DEFINE x == ccm[q]
  <2>1. ccm'[q] = x /\ x # k /\ x \in DOMAIN REGISTERED_CLIENTS
      BY <1>1, <1>4, <1>5
  <2> QED BY <1>6, <2>1 DEF session_of, gateway_of
<1>8. Sessions' = [q \in DOMAIN ccm \ P |-> Sessions[q]]
    BY <1>5, <1>7 DEF Sessions
<1>9. Sessions' = Service!delete(Sessions, P)
    BY <1>8 DEF Service!delete, Service!Restrict, Sessions
<1> QED BY <1>9 DEF P, p

\* A message of k has arrived, a keep alive or another.
LEMMA ReceivedSessions ==
    ASSUME StateInv, NEW k \in DOMAIN REGISTERED_CLIENTS,
           INCOMING_MESSAGE_FROM_CLIENT_NUM_MAP' =
               [INCOMING_MESSAGE_FROM_CLIENT_NUM_MAP EXCEPT ![k] = @ + 1],
           UNCHANGED <<CURRENT_CLIENT_KEY_MAP, CLIENTS_WAITING_FOR_KEEP_ALIVE,
                       OUTGOING_MESSAGE_TO_CLIENT_NUM_MAP>>
    PROVE  /\ REGISTERED_CLIENTS' = REGISTERED_CLIENTS
                  => Sessions' = [Sessions EXCEPT ![k.client_principal].received = @ + 1]
           /\ REGISTERED_CLIENTS' =
                  [REGISTERED_CLIENTS EXCEPT ![k].last_keep_alive_timestamp = time]
                  => \E s : /\ s = [Sessions EXCEPT ![k.client_principal].received = @ + 1]
                            /\ Sessions' = [s EXCEPT ![k.client_principal].heard = time]
<1> DEFINE p == k.client_principal
           in == INCOMING_MESSAGE_FROM_CLIENT_NUM_MAP
           waited == k \in CLIENTS_WAITING_FOR_KEEP_ALIVE
           of_k(received, h) ==
               session(k.client_nonce, gateway_of(k), OUTGOING_MESSAGE_TO_CLIENT_NUM_MAP[k],
                       received, h, waited)
<1>1. /\ p \in DOMAIN CURRENT_CLIENT_KEY_MAP /\ CURRENT_CLIENT_KEY_MAP[p] = k
      /\ \A q \in DOMAIN CURRENT_CLIENT_KEY_MAP : q # p => CURRENT_CLIENT_KEY_MAP[q] # k
      /\ in[k] \in Nat
    BY SessionOfClient
<1>2. /\ \A x \in DOMAIN REGISTERED_CLIENTS : in'[x] = IF x = k THEN in[x] + 1 ELSE in[x]
      /\ \A q \in DOMAIN CURRENT_CLIENT_KEY_MAP :
             CURRENT_CLIENT_KEY_MAP[q] \in DOMAIN REGISTERED_CLIENTS
      /\ REGISTERED_CLIENTS \in [DOMAIN REGISTERED_CLIENTS -> RegisteredClient]
    BY DEF StateInv, RegistryConsistent, MapsOK, MapInto
<1>3. in'[k] - 1 = (in[k] - 1) + 1
    BY <1>1, <1>2
<1> HIDE DEF p
<1>4. ASSUME \/ REGISTERED_CLIENTS' = REGISTERED_CLIENTS
             \/ REGISTERED_CLIENTS' =
                    [REGISTERED_CLIENTS EXCEPT ![k].last_keep_alive_timestamp = time],
             NEW q \in DOMAIN CURRENT_CLIENT_KEY_MAP, q # p
      PROVE  session_of(q)' = session_of(q)
  <2> DEFINE x == CURRENT_CLIENT_KEY_MAP[q]
  <2>1. x # k /\ x \in DOMAIN REGISTERED_CLIENTS
      BY <1>1, <1>2, <1>4
  <2>2. in'[x] = in[x] /\ REGISTERED_CLIENTS'[x] = REGISTERED_CLIENTS[x]
      BY <1>2, <1>4, <2>1
  <2> QED BY <2>2 DEF session_of, gateway_of
<1>5. /\ DOMAIN Sessions = DOMAIN CURRENT_CLIENT_KEY_MAP
      /\ Sessions' = [q \in DOMAIN CURRENT_CLIENT_KEY_MAP |-> session_of(q)']
      /\ Sessions[p] = session_of(p)
    BY <1>1 DEF Sessions
<1>6. session_of(p) = of_k(in[k] - 1, heard(k))
    BY <1>1 DEF session_of, session, gateway_of, heard
<1>7. ASSUME REGISTERED_CLIENTS' = REGISTERED_CLIENTS
      PROVE  Sessions' = [Sessions EXCEPT ![p].received = @ + 1]
  <2>1. session_of(p)' = of_k(in'[k] - 1, heard(k))
      BY <1>1, <1>7 DEF session_of, session, gateway_of, heard
  <2>2. session_of(p)' = [session_of(p) EXCEPT !.received = @ + 1]
      BY <1>3, <1>6, <2>1 DEF session
  <2> QED BY <1>1, <1>4, <1>5, <1>7, <2>2 DEF Sessions
<1>8. ASSUME REGISTERED_CLIENTS' =
                 [REGISTERED_CLIENTS EXCEPT ![k].last_keep_alive_timestamp = time]
      PROVE  \E s : /\ s = [Sessions EXCEPT ![p].received = @ + 1]
                    /\ Sessions' = [s EXCEPT ![p].heard = time]
  <2> DEFINE s == [Sessions EXCEPT ![p] = of_k((in[k] - 1) + 1, heard(k))]
  <2>1. gateway_of(k)' = gateway_of(k) /\ heard(k)' = time
      BY <1>2, <1>8 DEF gateway_of, heard, RegisteredClient
  <2>2. session_of(p)' = of_k(in'[k] - 1, time)
      BY <1>1, <2>1 DEF session_of, session, heard
  <2>3. of_k((in[k] - 1) + 1, heard(k)) = [session_of(p) EXCEPT !.received = @ + 1]
      BY <1>6 DEF session
  <2>4. session_of(p)' = [of_k((in[k] - 1) + 1, heard(k)) EXCEPT !.heard = time]
      BY <1>3, <2>2 DEF session
  <2> HIDE DEF of_k, in
  <2>5. s = [Sessions EXCEPT ![p].received = @ + 1]
      BY <1>5, <2>3
  <2>6. /\ s[p] = of_k((in[k] - 1) + 1, heard(k))
        /\ \A q \in DOMAIN Sessions : q # p => s[q] = Sessions[q]
        /\ DOMAIN s = DOMAIN CURRENT_CLIENT_KEY_MAP
      BY <1>1, <1>5
  <2> HIDE DEF s
  <2> DEFINE x == [s[p] EXCEPT !.heard = time]
             r == [s EXCEPT ![p] = x]
             D == DOMAIN CURRENT_CLIENT_KEY_MAP
  <2>7. \A q \in D : q # p => session_of(q)' = Sessions[q]
      BY <1>4, <1>5, <1>8 DEF Sessions
  <2>8. r = [q \in D |-> r[q]]
      BY <2>6
  <2>9. \A q \in D : r[q] = session_of(q)'
    <3>1. x = session_of(p)'
        BY <2>4, <2>6
    <3> HIDE DEF x
    <3>2. r[p] = x
        BY <1>1, <2>6, Zenon
    <3>3. ASSUME NEW q \in D, q # p
          PROVE  r[q] = Sessions[q]
      <4>1. q \in DOMAIN s /\ q \in DOMAIN Sessions
          BY <1>5, <2>6
      <4>2. r[q] = s[q]
          BY <3>3, <4>1, Zenon
      <4> QED BY <2>6, <3>3, <4>1, <4>2, Zenon
    <3> HIDE DEF r
    <3> QED BY <2>7, <3>1, <3>2, <3>3
  <2> HIDE DEF r
  <2>10. Sessions' = r
      BY <1>5, <2>8, <2>9
  <2> QED BY <2>5, <2>10 DEF r, x
<1> QED BY <1>7, <1>8 DEF p

\* A session is opened, in the place of the one its principal has.
LEMMA OpenedSessions ==
    ASSUME StateInv, NEW p \in Principal, NEW nonce \in ClientNonce, NEW g \in Gateway,
           ws_open(p, nonce, g)
    PROVE  /\ Sessions' = Service!insert(Sessions, p, session(nonce, g, 1, 0, time, FALSE))
           /\ p \in DOMAIN Sessions => Sessions[p].nonce # nonce
<1> DEFINE k   == [client_principal |-> p, client_nonce |-> nonce]
           old == current_keys(p)
           ccm == CURRENT_CLIENT_KEY_MAP
           out == OUTGOING_MESSAGE_TO_CLIENT_NUM_MAP
           in  == INCOMING_MESSAGE_FROM_CLIENT_NUM_MAP
           client == [last_keep_alive_timestamp |-> time, gateway_principal |-> g]
           seq == INITIAL_CANISTER_SEQUENCE_NUM + 1
           waited(x) == x \in CLIENTS_WAITING_FOR_KEEP_ALIVE
<1>1. /\ REGISTERED_CLIENTS' = put(remove(REGISTERED_CLIENTS, old), k, client)
      /\ ccm' = put(remove(ccm, {p}), p, k)
      /\ in' = put(remove(in, old), k, INITIAL_CLIENT_SEQUENCE_NUM)
      /\ out' = put(remove(out, old), k, seq)
      /\ CLIENTS_WAITING_FOR_KEEP_ALIVE' = CLIENTS_WAITING_FOR_KEEP_ALIVE \ old
      /\ k \notin DOMAIN REGISTERED_CLIENTS
    BY DEF ws_open, not_waiting, message_to
<1>2. k.client_principal = p /\ k.client_nonce = nonce
    OBVIOUS
<1>3. \A q \in DOMAIN ccm : /\ ccm[q] \in DOMAIN REGISTERED_CLIENTS
                            /\ ccm[q].client_principal = q
    BY DEF StateInv, RegistryConsistent
<1>4. /\ DOMAIN out = DOMAIN REGISTERED_CLIENTS /\ DOMAIN in = DOMAIN REGISTERED_CLIENTS
      /\ CLIENTS_WAITING_FOR_KEEP_ALIVE \subseteq DOMAIN REGISTERED_CLIENTS
    BY DEF StateInv, RegistryConsistent
<1>5. \A x \in old : p \in DOMAIN ccm /\ x = ccm[p]
    BY DEF current_keys
<1>6. /\ client.last_keep_alive_timestamp = time /\ client.gateway_principal = g
      /\ seq = 1 /\ INITIAL_CLIENT_SEQUENCE_NUM - 1 = 0
    BY DEF INITIAL_CANISTER_SEQUENCE_NUM, INITIAL_CLIENT_SEQUENCE_NUM
<1>7. p \in DOMAIN Sessions => Sessions[p].nonce # nonce
  <2>1. CASE p \in DOMAIN ccm
    <3>1. ccm[p] # k /\ ccm[p].client_principal = p /\ ccm[p] \in ClientKey
        BY <1>1, <1>3, <2>1 DEF StateInv, MapsOK, MapInto
    <3>2. ccm[p].client_nonce # nonce
        BY <3>1 DEF ClientKey
    <3> QED BY <2>1, <3>2 DEF Sessions, session_of
  <2> QED BY <2>1 DEF Sessions
<1> HIDE DEF k, old, client, seq
<1>8. /\ DOMAIN ccm' = DOMAIN ccm \cup {p} /\ ccm'[p] = k
      /\ \A q \in DOMAIN ccm : q # p => ccm'[q] = ccm[q]
    BY <1>1 DEF put, remove, Restrict
<1>9. REGISTERED_CLIENTS'[k] = client /\ in'[k] = INITIAL_CLIENT_SEQUENCE_NUM /\ out'[k] = seq
    BY <1>1 DEF put
<1>10. ASSUME NEW x \in DOMAIN REGISTERED_CLIENTS, x \notin old, x # k
       PROVE  /\ REGISTERED_CLIENTS'[x] = REGISTERED_CLIENTS[x]
              /\ in'[x] = in[x] /\ out'[x] = out[x]
              /\ x \in CLIENTS_WAITING_FOR_KEEP_ALIVE'
                     <=> x \in CLIENTS_WAITING_FOR_KEEP_ALIVE
    BY <1>1, <1>4, <1>10 DEF put, remove, Restrict
<1>11. ASSUME NEW q \in DOMAIN ccm, q # p
       PROVE  session_of(q)' = session_of(q)
  <2> DEFINE x == ccm[q]
  <2>1. x \in DOMAIN REGISTERED_CLIENTS /\ x \notin old /\ x # k /\ ccm'[q] = x
      BY <1>1, <1>3, <1>5, <1>8, <1>11
  <2> QED BY <1>10, <2>1 DEF session_of, gateway_of
<1>12. session_of(p)' = session(nonce, g, 1, 0, time, FALSE)
  <2>1. waited(k)' = FALSE
      BY <1>1, <1>4
  <2> HIDE DEF waited
  <2>2. /\ gateway_of(k)' = g /\ heard(k)' = time
        /\ out'[k] = 1 /\ in'[k] - 1 = 0
      BY <1>6, <1>9 DEF gateway_of, heard
  <2>3. session_of(p)' = session(nonce, gateway_of(k)', out'[k], in'[k] - 1, heard(k)', waited(k)')
      BY <1>2, <1>8 DEF session_of, session, gateway_of, heard, waited
  <2>4. session_of(p)' = session(nonce, g, 1, 0, time, waited(k)')
      BY <2>2, <2>3, Zenon
  <2> QED BY <2>1, <2>4, Zenon
<1>13. Sessions' = [q \in DOMAIN ccm \cup {p} |->
                        IF q = p THEN session(nonce, g, 1, 0, time, FALSE) ELSE Sessions[q]]
  <2> DEFINE s == session(nonce, g, 1, 0, time, FALSE)
  <2>1. session_of(p)' = s
      BY <1>12
  <2> HIDE DEF s
  <2>2. Sessions' = [q \in DOMAIN ccm \cup {p} |-> IF q = p THEN s ELSE Sessions[q]]
      BY <1>8, <1>11, <2>1 DEF Sessions
  <2> QED BY <2>2 DEF s
<1>14. DOMAIN Sessions = DOMAIN ccm
    BY DEF Sessions
<1>15. Sessions' = Service!insert(Sessions, p, session(nonce, g, 1, 0, time, FALSE))
    BY <1>13, <1>14, Zenon DEF Service!insert
<1> QED BY <1>7, <1>15

----------------------------------------------------------------------------
(***************************************************************************)
(* What the handlers do to the logs.                                       *)
(***************************************************************************)

\* A log does not tell how many clients its gateway has.
LEMMA SameLog ==
    ASSUME NEW gw \in GatewaysOf(Message)
    PROVE  /\ log_of(increment_clients_count(gw)) = log_of(gw)
           /\ log_of(decrement_clients_count(gw)) = log_of(gw)
BY ClientsCount DEF log_of

LEMMA DecrementLogs ==
    ASSUME NEW rg, GatewaysOK(rg), NEW keys
    PROVE  logs_of(decrement_gateway_clients_count(rg, keys)) = logs_of(rg)
<1> DEFINE new == decrement_gateway_clients_count(rg, keys)
<1>1. /\ DOMAIN new = DOMAIN rg
      /\ \A g \in DOMAIN rg : new[g] \in {rg[g], decrement_clients_count(rg[g])}
    BY DEF decrement_gateway_clients_count
<1>2. \A g \in DOMAIN rg : rg[g] \in GatewaysOf(Message)
    BY RecordOfGateway DEF GatewaysOK, MapInto
<1> HIDE DEF new
<1>3. \A g \in DOMAIN rg : log_of(new[g]) = log_of(rg[g])
    BY <1>1, <1>2, SameLog
<1>4. logs_of(new) = logs_of(rg)
    BY <1>1, <1>3 DEF logs_of
<1> QED BY <1>4 DEF new

\* The log of a gateway that is new is empty.
LEMMA IncrementLogs ==
    ASSUME NEW rg, GatewaysOK(rg), NEW g \in Gateway
    PROVE  logs_of(increment_gateway_clients_count(rg, g)) =
               IF g \in DOMAIN logs_of(rg) THEN logs_of(rg)
               ELSE Service!insert(logs_of(rg), g, [start |-> 0, messages |-> << >>])
<1> DEFINE gw  == IF g \in DOMAIN rg THEN rg[g] ELSE new_gateway
           ga  == increment_clients_count(gw)
           new == increment_gateway_clients_count(rg, g)
           empty == [start |-> 0, messages |-> << >>]
<1>1. /\ gw \in GatewaysOf(Message)
      /\ g \in DOMAIN rg => log_of(gw) = log_of(rg[g])
      /\ g \notin DOMAIN rg => log_of(gw) = empty
  <2>1. log_of(new_gateway) = empty
    <3>1. Len(<< >>) = 0
        OBVIOUS
    <3> QED BY <3>1 DEF log_of, new_gateway, INITIAL_OUTGOING_MESSAGE_NONCE
  <2> HIDE DEF empty
  <2> QED BY <2>1, RecordOfGateway, NewGateway DEF GatewaysOK, MapInto
<1>2. new = put(rg, g, ga)
    BY DEF increment_gateway_clients_count
<1> HIDE DEF gw
<1>3. log_of(ga) = log_of(gw)
    BY <1>1, SameLog
<1> HIDE DEF ga, new, empty
<1>4. /\ DOMAIN new = DOMAIN rg \cup {g} /\ new[g] = ga
      /\ \A x \in DOMAIN rg : x # g => new[x] = rg[x]
    BY <1>2 DEF put
<1>5. CASE g \in DOMAIN rg
  <2>1. logs_of(new) = logs_of(rg) /\ DOMAIN logs_of(rg) = DOMAIN rg
      BY <1>1, <1>3, <1>4, <1>5 DEF logs_of
  <2> QED BY <1>5, <2>1 DEF new
<1>6. CASE g \notin DOMAIN rg
  <2>1. DOMAIN logs_of(rg) = DOMAIN rg
      BY DEF logs_of
  <2>2. \A x \in DOMAIN rg : logs_of(rg)[x] = log_of(rg[x])
      BY DEF logs_of
  <2>3. logs_of(new) = [x \in DOMAIN rg \cup {g} |->
                            IF x = g THEN empty ELSE logs_of(rg)[x]]
      BY <1>1, <1>3, <1>4, <1>6, <2>2 DEF logs_of
  <2>4. logs_of(new) = Service!insert(logs_of(rg), g, empty)
      BY <2>1, <2>3 DEF Service!insert
  <2> QED BY <1>6, <2>1, <2>4 DEF new, empty
<1> QED BY <1>5, <1>6

\* What the lemmas on gateways need of a registered client.
LEMMA GatewayOfClient ==
    ASSUME StateInv, QueuesInOrder, NEW k \in DOMAIN REGISTERED_CLIENTS
    PROVE  /\ GatewaysOK(REGISTERED_GATEWAYS) /\ AllInOrder(REGISTERED_GATEWAYS, time)
           /\ time \in Nat /\ k \in ClientKey
           /\ gateway_of(k) \in DOMAIN REGISTERED_GATEWAYS
           /\ OUTGOING_MESSAGE_TO_CLIENT_NUM_MAP[k] \in Nat
BY SessionOfClient DEF StateInv, MapsOK, QueuesInOrder, AllInOrder

\* The logs with the next message of a registered client.
with_content(k, content) ==
    Service!with_message(Logs, gateway_of(k), k.client_principal, k.client_nonce,
                         OUTGOING_MESSAGE_TO_CLIENT_NUM_MAP[k] + 1, content)

LEMMA SendLogs ==
    ASSUME StateInv, QueuesInOrder, NEW k \in DOMAIN REGISTERED_CLIENTS,
           NEW content \in Content, ws_send(k, content)
    PROVE  Logs' \in with_content(k, content)
BY GatewayOfClient, PushRefines DEF ws_send, Logs, with_content

LEMMA RemoveLogs ==
    ASSUME StateInv, QueuesInOrder, NEW k \in DOMAIN REGISTERED_CLIENTS, remove_client(k)
    PROVE  Logs' = Logs
BY GatewayOfClient, DecrementLogs DEF remove_client, Logs

LEMMA CloseLogs ==
    ASSUME StateInv, QueuesInOrder, NEW k \in DOMAIN REGISTERED_CLIENTS,
           NEW reason \in CloseMessageReason, close_client(k, reason)
    PROVE  Logs' \in with_content(k, CloseMessage(reason))
<1> DEFINE g == gateway_of(k)
           m == message_to(REGISTERED_GATEWAYS, g, k,
                           OUTGOING_MESSAGE_TO_CLIENT_NUM_MAP[k], CloseMessage(reason))
           rg == push_message_in_gateway_queue(REGISTERED_GATEWAYS, g, m)
<1>1. /\ GatewaysOK(REGISTERED_GATEWAYS) /\ AllInOrder(REGISTERED_GATEWAYS, time)
      /\ time \in Nat /\ k \in ClientKey /\ g \in DOMAIN REGISTERED_GATEWAYS
      /\ OUTGOING_MESSAGE_TO_CLIENT_NUM_MAP[k] \in Nat
    BY GatewayOfClient
<1>2. REGISTERED_GATEWAYS' = decrement_gateway_clients_count(rg, {k})
    BY DEF close_client
<1>3. CloseMessage(reason) \in Content
    BY ContentOK
<1>4. m \in Message
    BY <1>1, <1>3, MessageTo
<1>5. logs_of(rg) \in with_content(k, CloseMessage(reason))
    BY <1>1, <1>3, PushRefines DEF with_content, Logs
<1> HIDE DEF m
<1>6. GatewaysOK(rg)
    BY <1>1, <1>4, Push
<1> HIDE DEF rg
<1>7. Logs' = logs_of(rg)
    BY <1>2, <1>6, DecrementLogs DEF Logs
<1> QED BY <1>5, <1>7

LEMMA OpenLogs ==
    ASSUME StateInv, QueuesInOrder, NEW p \in Principal, NEW nonce \in ClientNonce,
           NEW g \in Gateway, ws_open(p, nonce, g)
    PROVE  Logs' \in Service!with_message(
               IF g \in DOMAIN Logs THEN Logs
               ELSE Service!insert(Logs, g, [start |-> 0, messages |-> << >>]),
               g, p, nonce, 1, OpenMessage)
<1> DEFINE k   == [client_principal |-> p, client_nonce |-> nonce]
           old == current_keys(p)
           rg1 == decrement_gateway_clients_count(REGISTERED_GATEWAYS, old)
           rg2 == increment_gateway_clients_count(rg1, g)
           seq == INITIAL_CANISTER_SEQUENCE_NUM
           m   == message_to(rg2, g, k, seq, OpenMessage)
<1>1. /\ GatewaysOK(REGISTERED_GATEWAYS) /\ AllInOrder(REGISTERED_GATEWAYS, time)
      /\ time \in Nat /\ k \in ClientKey /\ seq \in Nat /\ seq + 1 = 1
      /\ OpenMessage \in Content
    BY ContentOK DEF StateInv, MapsOK, QueuesInOrder, AllInOrder, ClientKey,
           INITIAL_CANISTER_SEQUENCE_NUM
<1>2. k.client_principal = p /\ k.client_nonce = nonce
    OBVIOUS
<1>3. REGISTERED_GATEWAYS' = push_message_in_gateway_queue(rg2, g, m)
    BY DEF ws_open
<1>4. GatewaysOK(rg1) /\ AllInOrder(rg1, time) /\ logs_of(rg1) = Logs
  <2>1. old = {} \/ \E x \in DOMAIN REGISTERED_CLIENTS : old = {x}
      BY CurrentKeys
  <2> HIDE DEF old
  <2> QED BY <1>1, <2>1, Leave, DecrementInOrder, DecrementLogs DEF Logs
<1> HIDE DEF rg1, k, seq
<1>. g \in Gateway
    OBVIOUS
<1>5. /\ GatewaysOK(rg2) /\ g \in DOMAIN rg2 /\ AllInOrder(rg2, time)
      /\ logs_of(rg2) = IF g \in DOMAIN Logs THEN Logs
                        ELSE Service!insert(Logs, g, [start |-> 0, messages |-> << >>])
  <2>1. GatewaysOK(rg2) /\ DOMAIN rg2 = DOMAIN rg1 \cup {g}
      BY <1>4, Increment
  <2>2. AllInOrder(rg2, time)
      BY <1>4, IncrementInOrder
  <2>3. logs_of(rg2) = IF g \in DOMAIN logs_of(rg1) THEN logs_of(rg1)
                       ELSE Service!insert(logs_of(rg1), g, [start |-> 0, messages |-> << >>])
      BY <1>4, IncrementLogs
  <2>4. g \in DOMAIN rg2
      BY <2>1
  <2> QED BY <1>4, <2>1, <2>2, <2>3, <2>4, Zenon
<1> HIDE DEF rg2
<1>6. Logs' \in Service!with_message(logs_of(rg2), g, p, nonce, 1, OpenMessage)
  <2>1. Logs' \in Service!with_message(logs_of(rg2), g, k.client_principal, k.client_nonce,
                                       seq + 1, OpenMessage)
      BY <1>1, <1>3, <1>5, PushRefines DEF Logs
  <2>2. k.client_principal = p /\ k.client_nonce = nonce /\ seq + 1 = 1
      BY <1>1, <1>2 DEF k
  <2> QED BY <2>1, <2>2
<1> QED BY <1>5, <1>6

\* The gateways that a check removes, and their logs.
expired_gateways == {g \in DOMAIN GATEWAYS_TO_REMOVE : is_expired_gateway(g)}

LEMMA CheckLogs ==
    ASSUME remove_empty_expired_gateways
    PROVE  Logs' = Service!delete(Logs, expired_gateways)
<1>1. REGISTERED_GATEWAYS' = remove(REGISTERED_GATEWAYS, expired_gateways)
    BY DEF remove_empty_expired_gateways, expired_gateways
<1> HIDE DEF expired_gateways
<1>2. DOMAIN Logs = DOMAIN REGISTERED_GATEWAYS
    BY DEF Logs, logs_of
<1>3. Logs' = [g \in DOMAIN REGISTERED_GATEWAYS \ expired_gateways |-> Logs[g]]
    BY <1>1 DEF Logs, logs_of, remove, Restrict
<1> QED BY <1>2, <1>3 DEF Service!delete, Service!Restrict

----------------------------------------------------------------------------
(***************************************************************************)
(* What the handlers do, in the terms of the service.                      *)
(***************************************************************************)

\* The session of a registered client, and the next message to it.
LEMMA NextMessage ==
    ASSUME StateInv, NEW k \in DOMAIN REGISTERED_CLIENTS
    PROVE  LET p == k.client_principal
           IN  /\ p \in DOMAIN Sessions
               /\ Sessions[p].nonce = k.client_nonce
               /\ Sessions[p].gateway = gateway_of(k)
               /\ Sessions[p].sent = OUTGOING_MESSAGE_TO_CLIENT_NUM_MAP[k]
               /\ Sessions[p].received = INCOMING_MESSAGE_FROM_CLIENT_NUM_MAP[k] - 1
               /\ Sessions[p].heard = heard(k)
               /\ Sessions[p].asked = (k \in CLIENTS_WAITING_FOR_KEEP_ALIVE)
               /\ \A content : Service!next_message(p, content) = with_content(k, content)
<1> DEFINE p == k.client_principal
           waited == k \in CLIENTS_WAITING_FOR_KEEP_ALIVE
<1>1. p \in DOMAIN CURRENT_CLIENT_KEY_MAP /\ CURRENT_CLIENT_KEY_MAP[p] = k
    BY SessionOfClient
<1> HIDE DEF p, waited
<1>2. session_of(p) =
          session(k.client_nonce, gateway_of(k), OUTGOING_MESSAGE_TO_CLIENT_NUM_MAP[k],
                  INCOMING_MESSAGE_FROM_CLIENT_NUM_MAP[k] - 1, heard(k), waited)
    BY <1>1 DEF session_of, session, heard, waited
<1>3. p \in DOMAIN Sessions /\ Sessions[p] = session_of(p)
    BY <1>1 DEF Sessions
<1>4. /\ Sessions[p].nonce = k.client_nonce
      /\ Sessions[p].gateway = gateway_of(k)
      /\ Sessions[p].sent = OUTGOING_MESSAGE_TO_CLIENT_NUM_MAP[k]
      /\ Sessions[p].received = INCOMING_MESSAGE_FROM_CLIENT_NUM_MAP[k] - 1
      /\ Sessions[p].heard = heard(k)
    BY <1>2, <1>3 DEF session
<1>5. Sessions[p].asked = waited
    BY <1>2, <1>3 DEF session
<1>6. ASSUME NEW content
      PROVE  Service!next_message(p, content) = with_content(k, content)
  <2>1. Service!next_message(p, content) =
            Service!with_message(Logs, Sessions[p].gateway, p, Sessions[p].nonce,
                                 Sessions[p].sent + 1, content)
      BY Zenon DEF Service!next_message, Sessions, Logs, logs_of
  <2> QED BY <1>4, <2>1, Zenon DEF with_content, p
<1> QED BY <1>3, <1>4, <1>5, <1>6, Zenon DEF p, waited

LEMMA IsSend ==
    ASSUME StateInv, QueuesInOrder, NEW p \in Principal, send(p)
    PROVE  p \in DOMAIN Sessions /\ Service!Send(p)
<1> DEFINE k == CURRENT_CLIENT_KEY_MAP[p]
<1>1. /\ p \in DOMAIN CURRENT_CLIENT_KEY_MAP
      /\ ws_send(k, ApplicationMessage)
      /\ UNCHANGED <<REGISTERED_CLIENTS, CURRENT_CLIENT_KEY_MAP,
                     CLIENTS_WAITING_FOR_KEEP_ALIVE, INCOMING_MESSAGE_FROM_CLIENT_NUM_MAP,
                     PARAMS, time>>
    BY DEF send
<1>2. k \in DOMAIN REGISTERED_CLIENTS /\ k.client_principal = p
    BY <1>1 DEF StateInv, RegistryConsistent
<1> HIDE DEF k
<1>3. Sessions' = [Sessions EXCEPT ![p].sent = @ + 1]
    BY <1>1, <1>2, SentSessions DEF ws_send
<1>4. Logs' \in with_content(k, ApplicationMessage)
    BY <1>1, <1>2, SendLogs, ContentOK
<1>5. Logs' \in Service!next_message(p, Service!application_content)
    BY <1>2, <1>4, NextMessage DEF ApplicationMessage, Service!application_content
<1> QED BY <1>1, <1>3, <1>5 DEF Service!Send, Sessions, Logs, logs_of

LEMMA IsAcknowledge ==
    ASSUME StateInv, QueuesInOrder, NEW k \in DOMAIN REGISTERED_CLIENTS, send_ack(k)
    PROVE  k.client_principal \in DOMAIN Sessions /\ Service!Acknowledge(k.client_principal)
<1> DEFINE p == k.client_principal
           received == INCOMING_MESSAGE_FROM_CLIENT_NUM_MAP[k] - 1
           content == AckMessage(received)
<1>1. /\ ws_send(k, content)
      /\ CLIENTS_WAITING_FOR_KEEP_ALIVE' = CLIENTS_WAITING_FOR_KEEP_ALIVE \cup {k}
      /\ UNCHANGED <<REGISTERED_CLIENTS, CURRENT_CLIENT_KEY_MAP,
                     INCOMING_MESSAGE_FROM_CLIENT_NUM_MAP, PARAMS, time>>
    BY DEF send_ack
<1>2. received \in Nat
  <2>1. INCOMING_MESSAGE_FROM_CLIENT_NUM_MAP[k] \in Nat \ {0}
      BY SessionOfClient
  <2> QED BY <2>1
<1>3. content \in Content
    BY <1>2, ContentOK
<1>4. content = Service!ack_content(Sessions[p].received) /\ p \in DOMAIN Sessions
    BY NextMessage DEF AckMessage, Service!ack_content
<1> HIDE DEF content
<1>5. Logs' \in Service!next_message(p, content)
    BY <1>1, <1>3, SendLogs, NextMessage
<1>6. PICK s : /\ s = [Sessions EXCEPT ![p].sent = @ + 1]
               /\ Sessions' = [s EXCEPT ![p].asked = TRUE]
    BY <1>1, SentSessions DEF ws_send
<1>7. Sessions' = [Sessions EXCEPT ![p].sent = @ + 1, ![p].asked = TRUE]
    BY <1>6
<1> QED BY <1>1, <1>4, <1>5, <1>7 DEF Service!Acknowledge, Sessions, Logs, logs_of

LEMMA IsReceive ==
    ASSUME StateInv, NEW p \in Principal, NEW k \in ClientKey
    PROVE  /\ ws_message(p, k) => p \in DOMAIN Sessions /\ Service!Receive(p)
           /\ ws_message_keep_alive(p, k) => p \in DOMAIN Sessions /\ Service!ReceiveKeepAlive(p)
<1> SUFFICES ASSUME ws_message(p, k) \/ ws_message_keep_alive(p, k)
             PROVE  /\ ws_message(p, k) => p \in DOMAIN Sessions /\ Service!Receive(p)
                    /\ ws_message_keep_alive(p, k)
                           => p \in DOMAIN Sessions /\ Service!ReceiveKeepAlive(p)
    OBVIOUS
<1>1. /\ is_current(p, k)
      /\ INCOMING_MESSAGE_FROM_CLIENT_NUM_MAP' =
             [INCOMING_MESSAGE_FROM_CLIENT_NUM_MAP EXCEPT ![k] = @ + 1]
      /\ UNCHANGED <<CURRENT_CLIENT_KEY_MAP, CLIENTS_WAITING_FOR_KEEP_ALIVE,
                     OUTGOING_MESSAGE_TO_CLIENT_NUM_MAP, REGISTERED_GATEWAYS, PARAMS, time>>
    BY DEF ws_message, ws_message_keep_alive, accept_message, gateway_vars
<1>2. /\ p \in DOMAIN CURRENT_CLIENT_KEY_MAP /\ CURRENT_CLIENT_KEY_MAP[p] = k
      /\ k \in DOMAIN REGISTERED_CLIENTS /\ k.client_principal = p
    BY <1>1 DEF is_current, StateInv, RegistryConsistent
<1>3. p \in DOMAIN Sessions /\ Logs' = Logs
    BY <1>1, <1>2 DEF Sessions, Logs, logs_of
<1>4. ASSUME ws_message(p, k)
      PROVE  Service!Receive(p)
  <2>1. Sessions' = [Sessions EXCEPT ![p].received = @ + 1]
      BY <1>1, <1>2, <1>4, ReceivedSessions DEF ws_message
  <2> QED BY <1>1, <1>3, <2>1 DEF Service!Receive, Sessions, Logs, logs_of
<1>5. ASSUME ws_message_keep_alive(p, k)
      PROVE  Service!ReceiveKeepAlive(p)
  <2>1. PICK s : /\ s = [Sessions EXCEPT ![k.client_principal].received = @ + 1]
                 /\ Sessions' = [s EXCEPT ![k.client_principal].heard = time]
      BY <1>1, <1>2, <1>5, ReceivedSessions DEF ws_message_keep_alive
  <2>2. s = [Sessions EXCEPT ![p].received = @ + 1]
      BY <1>2, <2>1
  <2>3. Sessions' = [s EXCEPT ![p].heard = time]
      BY <1>2, <2>1
  <2>4. Sessions' = [Sessions EXCEPT ![p].received = @ + 1, ![p].heard = time]
      BY <2>2, <2>3
  <2> QED BY <1>1, <1>3, <2>4 DEF Service!ReceiveKeepAlive, Sessions, Logs, logs_of
<1> QED BY <1>3, <1>4, <1>5

\* The reasons for which a session is closed by the CDK.
ClosingReasons == {"WrongSequenceNumber", "KeepAliveTimeout", "ClosedByApplication"}

LEMMA IsClose ==
    ASSUME StateInv, QueuesInOrder, NEW k \in DOMAIN REGISTERED_CLIENTS,
           NEW reason \in ClosingReasons, close_client(k, reason),
           UNCHANGED <<PARAMS, time>>,
           reason = "KeepAliveTimeout" => k \in CLIENTS_WAITING_FOR_KEEP_ALIVE /\ is_silent(k)
    PROVE  /\ k.client_principal \in DOMAIN Sessions
           /\ Service!Close(k.client_principal, reason)
<1> DEFINE p == k.client_principal
<1>1. reason \in CloseMessageReason
    BY DEF ClosingReasons, CloseMessageReason
<1>2. Sessions' = Service!delete(Sessions, {p})
    BY RemovedSessions DEF close_client
<1>3. Logs' \in Service!next_message(p, Service!close_content(reason))
  <2>1. Service!close_content(reason) = CloseMessage(reason)
      BY DEF Service!close_content, CloseMessage
  <2>2. Logs' \in with_content(k, CloseMessage(reason))
      BY <1>1, CloseLogs
  <2>3. Service!next_message(p, CloseMessage(reason)) = with_content(k, CloseMessage(reason))
      BY NextMessage
  <2> QED BY <2>1, <2>2, <2>3
<1>4. reason = "KeepAliveTimeout" =>
          Sessions[p].asked /\ time - Sessions[p].heard > CLIENT_KEEP_ALIVE_TIMEOUT
  <2>1. ASSUME reason = "KeepAliveTimeout"
        PROVE  k \in CLIENTS_WAITING_FOR_KEEP_ALIVE /\ is_silent(k)
      BY <2>1
  <2>2. Sessions[p].asked = (k \in CLIENTS_WAITING_FOR_KEEP_ALIVE) /\ Sessions[p].heard = heard(k)
      BY NextMessage
  <2> QED BY <2>1, <2>2, Zenon DEF is_silent, heard
<1>5. p \in DOMAIN Sessions
    BY NextMessage
<1> QED BY <1>2, <1>3, <1>4, <1>5 DEF Service!Close, Sessions, Logs, logs_of

LEMMA IsDrop ==
    ASSUME StateInv, QueuesInOrder, NEW k \in DOMAIN REGISTERED_CLIENTS, remove_client(k),
           UNCHANGED <<PARAMS, time>>
    PROVE  k.client_principal \in DOMAIN Sessions /\ Service!Drop(k.client_principal)
<1>1. Sessions' = Service!delete(Sessions, {k.client_principal})
    BY RemovedSessions DEF remove_client
<1>2. Logs' = Logs /\ k.client_principal \in DOMAIN Sessions
    BY RemoveLogs, NextMessage
<1> QED BY <1>1, <1>2 DEF Service!Drop, Sessions, Logs, logs_of

LEMMA IsOpen ==
    ASSUME StateInv, QueuesInOrder, NEW p \in Principal, NEW nonce \in ClientNonce,
           NEW g \in Gateway, ws_open(p, nonce, g)
    PROVE  p # Anonymous /\ Service!Open(p, nonce, g)
<1>1. p # Anonymous /\ UNCHANGED <<PARAMS, time>>
    BY DEF ws_open
<1>2. /\ Sessions' = Service!insert(Sessions, p,
             [nonce |-> nonce, gateway |-> g, sent |-> 1, received |-> 0,
              heard |-> time, asked |-> FALSE])
      /\ p \in DOMAIN Sessions => Sessions[p].nonce # nonce
    BY OpenedSessions, Zenon DEF session
<1>3. Logs' \in Service!with_message(
               IF g \in DOMAIN Logs THEN Logs
               ELSE Service!insert(Logs, g, [start |-> 0, messages |-> << >>]),
               g, p, nonce, 1, Service!open_content)
    BY OpenLogs, Zenon DEF OpenMessage, Service!open_content
<1>4. UNCHANGED <<PARAMS.send_ack_interval, time>>
    BY <1>1
<1> QED BY <1>1, <1>2, <1>3, <1>4, Zenon DEF Service!Open, Sessions, Logs, logs_of

\* A gateway that is due for removal has got no message since its last client left.
RetiredInv ==
    \A g \in DOMAIN GATEWAYS_TO_REMOVE :
        \A i \in 1..Len(REGISTERED_GATEWAYS[g].messages_queue) :
            REGISTERED_GATEWAYS[g].messages_queue[i].timestamp <= GATEWAYS_TO_REMOVE[g]

\* No session uses a gateway that is due for removal.
RetiredUnused ==
    \A g \in DOMAIN GATEWAYS_TO_REMOVE :
        /\ g \in DOMAIN Logs
        /\ \A p \in DOMAIN Sessions : Sessions[p].gateway # g

LEMMA RetiredIsUnused == StateInv => RetiredUnused
<1> SUFFICES ASSUME StateInv, NEW g \in DOMAIN GATEWAYS_TO_REMOVE
             PROVE  /\ g \in DOMAIN Logs
                    /\ \A p \in DOMAIN Sessions : Sessions[p].gateway # g
    BY DEF RetiredUnused
<1>1. g \in DOMAIN REGISTERED_GATEWAYS /\ clients_of(g) = {}
    BY DEF StateInv, GatewayCounts
<1>2. \A p \in DOMAIN CURRENT_CLIENT_KEY_MAP :
          CURRENT_CLIENT_KEY_MAP[p] \in DOMAIN REGISTERED_CLIENTS
    BY DEF StateInv, RegistryConsistent
<1>3. \A p \in DOMAIN Sessions : Sessions[p].gateway # g
    BY <1>1, <1>2 DEF Sessions, session_of, clients_of
<1> QED BY <1>1, <1>3 DEF Logs, logs_of

LEMMA IsRetire ==
    ASSUME StateInv, RetiredInv, PARAMS \in InitParams, remove_empty_expired_gateways,
           UNCHANGED <<client_vars, PARAMS, time>>
    PROVE  expired_gateways \in SUBSET DOMAIN Logs /\ Service!Retire(expired_gateways)
<1>1. \A g \in expired_gateways : g \in DOMAIN GATEWAYS_TO_REMOVE /\ is_expired_gateway(g)
    BY DEF expired_gateways
<1>2. /\ expired_gateways \in SUBSET DOMAIN Logs
      /\ \A g \in expired_gateways : \A p \in DOMAIN Sessions : Sessions[p].gateway # g
    BY <1>1, RetiredIsUnused DEF RetiredUnused
<1>3. Sessions' = Sessions /\ UNCHANGED <<PARAMS.send_ack_interval, time>>
    BY SameSessions
<1>4. Logs' = Service!delete(Logs, expired_gateways)
    BY CheckLogs
<1> HIDE DEF expired_gateways
<1>5. ASSUME NEW g \in expired_gateways
      PROVE  Service!may_forget(Logs[g], Len(Logs[g].messages))
  <2> DEFINE queue == REGISTERED_GATEWAYS[g].messages_queue
  <2>1. g \in DOMAIN REGISTERED_GATEWAYS /\ g \in DOMAIN GATEWAYS_TO_REMOVE
      BY <1>1, <1>2 DEF Logs, logs_of
  <2>2. Logs[g].messages = queue
      BY <2>1 DEF Logs, logs_of, log_of
  <2>3. /\ queue \in Seq(Message) /\ GATEWAYS_TO_REMOVE[g] \in Nat /\ time \in Nat
        /\ PARAMS.send_ack_interval \in Nat
      BY <2>1, InitParamsAssumption
         DEF StateInv, MapsOK, GatewaysOK, MapInto, GatewayRecord, InitParamsAssumption
  <2>4. /\ \A i \in 1..Len(queue) : queue[i].timestamp <= GATEWAYS_TO_REMOVE[g]
        /\ time - GATEWAYS_TO_REMOVE[g] > PARAMS.send_ack_interval
      BY <1>1, <2>1 DEF RetiredInv, is_expired_gateway
  <2> HIDE DEF queue
  <2>5. \A i \in 1..Len(queue) : queue[i].timestamp \in Nat
    <3>1. \A i \in 1..Len(queue) : queue[i] \in Message
        BY <2>3
    <3> QED BY <3>1 DEF Message
  <2>6. \A i \in 1..Len(queue) : time - queue[i].timestamp > PARAMS.send_ack_interval
      BY <2>3, <2>4, <2>5
  <2> QED BY <2>2, <2>6 DEF Service!may_forget
<1> QED BY <1>2, <1>3, <1>4, <1>5 DEF Service!Retire, Sessions, Logs, logs_of

LEMMA IsForgetEverything ==
    ASSUME check_validity(PARAMS), PARAMS \in InitParams, forgets_everything
    PROVE  Service!ForgetEverything
<1>1. CURRENT_CLIENT_KEY_MAP' = EmptyMap /\ REGISTERED_GATEWAYS' = EmptyMap /\ time' = time
    BY DEF forgets_everything, wipe_end, upgrade
<1>2. PARAMS' \in InitParams /\ check_validity(PARAMS')
  <2>1. CASE wipe_end
      BY <2>1 DEF wipe_end
  <2>2. ASSUME NEW params \in InitParams, upgrade(params)
        PROVE  PARAMS' \in InitParams /\ check_validity(PARAMS')
      BY <2>2 DEF upgrade
  <2> QED BY <2>1, <2>2 DEF forgets_everything
<1>3. Sessions' = Service!Empty /\ Logs' = Service!Empty
    BY <1>1 DEF Sessions, Logs, logs_of, Service!Empty, EmptyMap
<1>4. PARAMS.send_ack_interval'
          \in {params.send_ack_interval : params \in {q \in InitParams : check_validity(q)}}
    BY <1>2
<1> QED BY <1>1, <1>3, <1>4 DEF Service!ForgetEverything, Sessions, Logs, logs_of

LEMMA IsSetInterval ==
    ASSUME NEW params \in InitParams, init(params)
    PROVE  Service!SetInterval
<1>1. /\ PARAMS' = params /\ check_validity(params)
      /\ UNCHANGED <<client_vars, REGISTERED_GATEWAYS, time>>
    BY DEF init, gateway_vars
<1>2. Sessions' = Sessions /\ Logs' = Logs
    BY <1>1, SameSessions DEF Logs, logs_of
<1>3. PARAMS.send_ack_interval'
          \in {q.send_ack_interval : q \in {q \in InitParams : check_validity(q)}}
    BY <1>1
<1> QED BY <1>1, <1>2, <1>3 DEF Service!SetInterval, Sessions, Logs, logs_of

----------------------------------------------------------------------------
(***************************************************************************)
(* Every step is a step of the service, or none.                           *)
(***************************************************************************)

\* A check closes only clients that it waits for.
AskedInv ==
    executing = "check_keep_alive" => client_keys \subseteq CLIENTS_WAITING_FOR_KEEP_ALIVE

\* A step of the service that does not forget everything.
KeepingStep ==
    \/ \E p \in Principal \ {Anonymous}, nonce \in ClientNonce, g \in Gateway :
           Service!Open(p, nonce, g)
    \/ \E p \in DOMAIN Sessions :
           \/ Service!Send(p) \/ Service!Acknowledge(p)
           \/ Service!Receive(p) \/ Service!ReceiveKeepAlive(p)
           \/ \E reason \in ClosingReasons : Service!Close(p, reason)
           \/ Service!Drop(p)
    \/ \E gateways \in SUBSET DOMAIN Logs : Service!Retire(gateways)
    \/ Service!SetInterval \/ Service!Tick

KeepingStepOrNone ==
    \/ KeepingStep
    \/ UNCHANGED <<Sessions, Logs, PARAMS.send_ack_interval, time>>

\* A step that the service does not see.
LEMMA Unseen ==
    ASSUME UNCHANGED <<client_vars, REGISTERED_GATEWAYS, PARAMS, time>>
    PROVE  KeepingStepOrNone
BY SameSessions DEF KeepingStepOrNone, Logs, logs_of

LEMMA StepRefines ==
    ASSUME Inv, TimerInv, CheckInv, AskedInv, RetiredInv, QueuesInOrder, [Next]_vars
    PROVE  \/ KeepingStepOrNone
           \/ forgets_everything /\ Service!ForgetEverything
<1>1. /\ StateInv /\ PARAMS \in InitParams /\ check_validity(PARAMS)
      /\ client_keys \subseteq DOMAIN REGISTERED_CLIENTS
      /\ \A p \in DOMAIN CURRENT_CLIENT_KEY_MAP :
             CURRENT_CLIENT_KEY_MAP[p] \in DOMAIN REGISTERED_CLIENTS
      /\ DOMAIN INCOMING_MESSAGE_FROM_CLIENT_NUM_MAP = DOMAIN REGISTERED_CLIENTS
    BY DEF Inv, StateInv, RegistryConsistent, ControlInv, LoopKeysAreRegistered, TimerInv
<1>2. ASSUME NEW p \in Principal, NEW nonce \in ClientNonce, NEW g \in Gateway,
             ws_open(p, nonce, g)
      PROVE  KeepingStepOrNone
    BY <1>1, <1>2, IsOpen DEF KeepingStepOrNone, KeepingStep
<1>3. ASSUME NEW g \in Gateway, NEW k \in ClientKey, ws_close(g, k)
      PROVE  KeepingStepOrNone
    BY <1>1, <1>3, IsDrop DEF ws_close, KeepingStepOrNone, KeepingStep
<1>4. ASSUME NEW p \in Principal, NEW k \in ClientKey,
             ws_message(p, k) \/ ws_message_keep_alive(p, k)
      PROVE  KeepingStepOrNone
    BY <1>1, <1>4, IsReceive DEF KeepingStepOrNone, KeepingStep
<1>5. ASSUME NEW p \in Principal, NEW k \in ClientKey,
             ws_message_wrong_sequence_number(p, k)
      PROVE  KeepingStepOrNone
  <2>1. /\ k \in DOMAIN REGISTERED_CLIENTS /\ UNCHANGED <<PARAMS, time>>
        /\ close_client(k, "WrongSequenceNumber")
      BY <1>1, <1>5 DEF ws_message_wrong_sequence_number, is_current
  <2>2. "WrongSequenceNumber" \in ClosingReasons
        /\ "WrongSequenceNumber" # "KeepAliveTimeout"
      BY DEF ClosingReasons
  <2> QED BY <1>1, <2>1, <2>2, IsClose DEF KeepingStepOrNone, KeepingStep
<1>6. ASSUME NEW p \in Principal, close(p)
      PROVE  KeepingStepOrNone
  <2>1. PICK k \in DOMAIN REGISTERED_CLIENTS :
            close_client(k, "ClosedByApplication") /\ UNCHANGED <<PARAMS, time>>
      BY <1>1, <1>6 DEF close
  <2>2. "ClosedByApplication" \in ClosingReasons
        /\ "ClosedByApplication" # "KeepAliveTimeout"
      BY DEF ClosingReasons
  <2> QED BY <1>1, <2>1, <2>2, IsClose DEF KeepingStepOrNone, KeepingStep
<1>7. ASSUME NEW p \in Principal, send(p)
      PROVE  KeepingStepOrNone
    BY <1>1, <1>7, IsSend DEF KeepingStepOrNone, KeepingStep
<1>8. ASSUME NEW k \in client_keys, wipe_client(k)
      PROVE  KeepingStepOrNone
    BY <1>1, <1>8, IsDrop DEF wipe_client, KeepingStepOrNone, KeepingStep
<1>9. ASSUME NEW k \in client_keys, send_ack(k)
      PROVE  KeepingStepOrNone
    BY <1>1, <1>9, IsAcknowledge DEF KeepingStepOrNone, KeepingStep
<1>10. ASSUME NEW k \in client_keys, close_silent_client(k)
       PROVE  KeepingStepOrNone
  <2>1. /\ k \in DOMAIN REGISTERED_CLIENTS /\ UNCHANGED <<PARAMS, time>>
        /\ close_client(k, "KeepAliveTimeout") /\ executing = "check_keep_alive"
      BY <1>1, <1>10 DEF close_silent_client, next_iteration
  <2>2. k \in CLIENTS_WAITING_FOR_KEEP_ALIVE /\ is_silent(k)
      BY <2>1 DEF AskedInv, CheckInv
  <2>3. "KeepAliveTimeout" \in ClosingReasons
      BY DEF ClosingReasons
  <2> QED BY <1>1, <2>1, <2>2, <2>3, IsClose DEF KeepingStepOrNone, KeepingStep
<1>11. CASE check_keep_alive
  <2>1. /\ remove_empty_expired_gateways
        /\ UNCHANGED <<client_vars, PARAMS, time>>
      BY <1>11 DEF check_keep_alive
  <2> QED BY <1>1, <2>1, IsRetire DEF KeepingStepOrNone, KeepingStep
<1>12. ASSUME NEW params \in InitParams, init(params)
       PROVE  KeepingStepOrNone
    BY <1>12, IsSetInterval DEF KeepingStepOrNone, KeepingStep
<1>13. CASE forgets_everything
    BY <1>1, <1>13, IsForgetEverything
<1>14. CASE tick
  <2>1. /\ time' = time + 1 /\ UNCHANGED <<client_vars, REGISTERED_GATEWAYS, PARAMS>>
      BY <1>14 DEF tick, gateway_vars
  <2>2. Sessions' = Sessions /\ Logs' = Logs
      BY <2>1, SameSessions DEF Logs, logs_of
  <2>3. Service!Tick
      BY <2>1, <2>2 DEF Service!Tick, Sessions, Logs, logs_of
  <2> QED BY <2>3 DEF KeepingStepOrNone, KeepingStep
<1>15. CASE wipe \/ send_ack_to_clients \/ send_ack_end \/ check_keep_alive_end
            \/ UNCHANGED vars
  <2>1. UNCHANGED <<client_vars, REGISTERED_GATEWAYS, PARAMS, time>>
      BY <1>15 DEF wipe, send_ack_to_clients, send_ack_end, check_keep_alive_end,
                   gateway_vars, vars
  <2> QED BY <2>1, Unseen
<1> QED BY <1>2, <1>3, <1>4, <1>5, <1>6, <1>7, <1>8, <1>9, <1>10, <1>11, <1>12, <1>13,
           <1>14, <1>15 DEF Next, forgets_everything

----------------------------------------------------------------------------
(***************************************************************************)
(* The logs after a step of the service.                                   *)
(***************************************************************************)

is_young(m) == time - m.timestamp <= PARAMS.send_ack_interval

\* ls are the logs, perhaps with an empty one for g, and a message is added to that of g.
AddsTo(ls, g) ==
    /\ \A x \in DOMAIN Logs : x \in DOMAIN ls /\ ls[x] = Logs[x]
    /\ g \in DOMAIN ls /\ ls[g].messages \in Seq(Message)
    /\ \E p, nonce, n, content : Logs' \in Service!with_message(ls, g, p, nonce, n, content)

\* Some session uses g, before or after the step.
IsUsed(g) ==
    \/ \E p \in DOMAIN Sessions : Sessions[p].gateway = g
    \/ \E p \in DOMAIN Sessions' : Sessions'[p].gateway = g

LEMMA LogTypes ==
    ASSUME Inv
    PROVE  /\ time \in Nat /\ PARAMS.send_ack_interval \in Nat
           /\ \A g \in DOMAIN Logs : Logs[g].messages \in Seq(Message)
           /\ \A p \in DOMAIN Sessions : Sessions[p].gateway \in DOMAIN Logs
           /\ DOMAIN Logs = DOMAIN REGISTERED_GATEWAYS
           /\ \A g \in DOMAIN Logs :
                  Logs[g].messages = REGISTERED_GATEWAYS[g].messages_queue
<1>1. /\ DOMAIN Logs = DOMAIN REGISTERED_GATEWAYS
      /\ \A g \in DOMAIN Logs : Logs[g].messages = REGISTERED_GATEWAYS[g].messages_queue
    BY DEF Logs, logs_of, log_of
<1>2. \A g \in DOMAIN REGISTERED_GATEWAYS :
          REGISTERED_GATEWAYS[g].messages_queue \in Seq(Message)
    BY DEF Inv, StateInv, MapsOK, GatewaysOK, MapInto, GatewayRecord
<1>3. \A p \in DOMAIN Sessions : Sessions[p].gateway \in DOMAIN Logs
  <2>1. \A p \in DOMAIN CURRENT_CLIENT_KEY_MAP :
            gateway_of(CURRENT_CLIENT_KEY_MAP[p]) \in DOMAIN REGISTERED_GATEWAYS
      BY DEF Inv, StateInv, RegistryConsistent, GatewayCounts
  <2> QED BY <1>1, <2>1 DEF Sessions, session_of
<1> QED BY <1>1, <1>2, <1>3, TimerTypes

\* The logs stay, or a message is added to one that is in use, or old ones go.
LEMMA LogsOfStep ==
    ASSUME Inv, KeepingStepOrNone
    PROVE  \/ Logs' = Logs
           \/ \E ls, g : AddsTo(ls, g) /\ IsUsed(g)
           \/ \E gateways :
                  /\ Logs' = Service!delete(Logs, gateways)
                  /\ \A g \in gateways \cap DOMAIN Logs :
                         Service!may_forget(Logs[g], Len(Logs[g].messages))
<1>1. ASSUME NEW p, NEW nonce, NEW g, Service!Open(p, nonce, g)
      PROVE  \E ls : AddsTo(ls, g) /\ IsUsed(g)
  <2> DEFINE empty == [start |-> 0, messages |-> << >>]
             ls == IF g \in DOMAIN Logs THEN Logs ELSE Service!insert(Logs, g, empty)
             s  == [nonce |-> nonce, gateway |-> g, sent |-> 1, received |-> 0,
                    heard |-> time, asked |-> FALSE]
  <2>1. /\ Sessions' = Service!insert(Sessions, p, s)
        /\ Logs' \in Service!with_message(ls, g, p, nonce, 1, Service!open_content)
      BY <1>1, Zenon DEF Service!Open, Sessions, Logs, logs_of
  <2>2. s.gateway = g /\ empty.messages = << >>
      OBVIOUS
  <2> HIDE DEF s, empty
  <2>3. IsUsed(g)
    <3>1. p \in DOMAIN Sessions' /\ Sessions'[p] = s
        BY <2>1 DEF Service!insert
    <3> QED BY <2>2, <3>1 DEF IsUsed
  <2>4. /\ \A x \in DOMAIN Logs : x \in DOMAIN ls /\ ls[x] = Logs[x]
        /\ g \in DOMAIN ls
        /\ g \notin DOMAIN Logs => ls[g] = empty
      BY DEF Service!insert
  <2>5. ls[g].messages \in Seq(Message)
    <3>1. CASE g \in DOMAIN Logs
        BY <2>4, <3>1, LogTypes
    <3>2. CASE g \notin DOMAIN Logs
      <4>1. << >> \in Seq(Message)
          OBVIOUS
      <4> QED BY <2>2, <2>4, <3>2, <4>1
    <3> QED BY <3>1, <3>2
  <2> HIDE DEF ls
  <2> QED BY <2>1, <2>3, <2>4, <2>5 DEF AddsTo
<1>2. ASSUME NEW p \in DOMAIN Sessions,
             NEW content, Logs' \in Service!next_message(p, content)
      PROVE  \E ls, g : AddsTo(ls, g) /\ IsUsed(g)
  <2> DEFINE g == Sessions[p].gateway
  <2>1. g \in DOMAIN Logs /\ Logs[g].messages \in Seq(Message)
      BY LogTypes
  <2>2. Logs' \in Service!with_message(Logs, g, p, Sessions[p].nonce,
                                       Sessions[p].sent + 1, content)
      BY <1>2, Zenon DEF Service!next_message, Sessions, Logs, logs_of
  <2>3. AddsTo(Logs, g)
      BY <2>1, <2>2 DEF AddsTo
  <2>4. IsUsed(g)
      BY DEF IsUsed
  <2> QED BY <2>3, <2>4
<1>3. ASSUME NEW p \in DOMAIN Sessions,
             \/ Service!Send(p) \/ Service!Acknowledge(p)
             \/ \E reason \in ClosingReasons : Service!Close(p, reason)
      PROVE  \E content : Logs' \in Service!next_message(p, content)
    BY <1>3 DEF Service!Send, Service!Acknowledge, Service!Close, Logs, logs_of
<1>4. ASSUME NEW p \in DOMAIN Sessions,
             Service!Receive(p) \/ Service!ReceiveKeepAlive(p) \/ Service!Drop(p)
      PROVE  Logs' = Logs
    BY <1>4 DEF Service!Receive, Service!ReceiveKeepAlive, Service!Drop, Logs, logs_of
<1>5. ASSUME NEW gateways \in SUBSET DOMAIN Logs, Service!Retire(gateways)
      PROVE  /\ Logs' = Service!delete(Logs, gateways)
             /\ \A g \in gateways : Service!may_forget(Logs[g], Len(Logs[g].messages))
    BY <1>5, Zenon DEF Service!Retire, Logs, logs_of
<1>6. ASSUME Service!SetInterval \/ Service!Tick
      PROVE  Logs' = Logs
    BY <1>6 DEF Service!SetInterval, Service!Tick, Logs, logs_of
<1> QED BY <1>1, <1>2, <1>3, <1>4, <1>5, <1>6 DEF KeepingStepOrNone, KeepingStep

\* A message that is added to a log pushes no young message out of it.
LEMMA WithMessage ==
    ASSUME Inv, NEW ls, NEW g, AddsTo(ls, g)
    PROVE  /\ DOMAIN Logs \subseteq DOMAIN Logs'
           /\ \A x \in DOMAIN Logs : x # g => Logs'[x] = Logs[x]
           /\ g \in DOMAIN Logs =>
                  \A m \in Range(Logs[g].messages) :
                      is_young(m) => m \in Range(Logs'[g].messages)
<1> DEFINE queue == ls[g].messages
<1>1. PICK p, nonce, n, content : Logs' \in Service!with_message(ls, g, p, nonce, n, content)
    BY DEF AddsTo
<1>2. PICK d, m : /\ d \in 0..Len(queue) /\ Service!may_forget(ls[g], d)
                  /\ m.timestamp = time
                  /\ Logs' = [ls EXCEPT ![g] =
                         [start    |-> ls[g].start + d,
                          messages |-> Append(SubSeq(queue, d + 1, Len(queue)), m)]]
    BY <1>1 DEF Service!with_message
<1>3. /\ DOMAIN Logs' = DOMAIN ls /\ \A x \in DOMAIN ls : x # g => Logs'[x] = ls[x]
      /\ Logs'[g].messages = Append(SubSeq(queue, d + 1, Len(queue)), m)
    BY <1>2 DEF AddsTo
<1>4. \A i \in 1..d : ~is_young(queue[i])
  <2>1. \A i \in 1..d : time - queue[i].timestamp > PARAMS.send_ack_interval
      BY <1>2 DEF Service!may_forget
  <2>2. queue \in Seq(Message) /\ d \in 0..Len(queue)
      BY <1>2 DEF AddsTo
  <2>3. time \in Nat /\ PARAMS.send_ack_interval \in Nat
      BY LogTypes
  <2> HIDE DEF queue
  <2>4. \A i \in 1..d : queue[i].timestamp \in Nat
    <3>1. \A i \in 1..d : queue[i] \in Message
        BY <2>2
    <3> QED BY <3>1 DEF Message
  <2> QED BY <2>1, <2>3, <2>4 DEF is_young
<1>5. queue \in Seq(Message) /\ (g \in DOMAIN Logs => Logs[g].messages = queue)
    BY DEF AddsTo
<1> HIDE DEF queue
<1>6. ASSUME NEW x \in Range(queue), is_young(x)
      PROVE  x \in Range(Append(SubSeq(queue, d + 1, Len(queue)), m))
  <2> DEFINE rest == SubSeq(queue, d + 1, Len(queue))
             new  == Append(rest, m)
  <2>1. PICK i \in 1..Len(queue) : x = queue[i]
      BY <1>5 DEF Range
  <2>2. i \notin 1..d
      BY <1>4, <1>6, <2>1
  <2>3. Len(queue) \in Nat /\ d \in 0..Len(queue)
      BY <1>2, <1>5
  <2>4. i - d \in 1..(Len(queue) - d) /\ d + (i - d) = i
      BY <2>2, <2>3
  <2>5. /\ rest \in Seq(Message) /\ Len(rest) = Len(queue) - d
        /\ rest[i - d] = queue[d + (i - d)]
      BY <1>5, <2>3, <2>4, Suffix
  <2> HIDE DEF rest
  <2>6. i - d \in 1..Len(rest) /\ rest[i - d] = queue[i]
      BY <2>4, <2>5
  <2>7. i - d \in DOMAIN new /\ new[i - d] = rest[i - d]
      BY <2>5, <2>6
  <2> HIDE DEF new
  <2> QED BY <2>1, <2>6, <2>7 DEF Range, new, rest
<1> QED BY <1>3, <1>5, <1>6 DEF AddsTo

----------------------------------------------------------------------------
(***************************************************************************)
(* The two invariants that the refinement needs beside those of the timers *)
(* and the queues.                                                         *)
(***************************************************************************)

LEMMA AskedInductive == Inv /\ AskedInv /\ [Next]_vars => AskedInv'
<1> SUFFICES ASSUME Inv, AskedInv, [Next]_vars, executing' = "check_keep_alive"
             PROVE  client_keys' \subseteq CLIENTS_WAITING_FOR_KEEP_ALIVE'
    BY DEF AskedInv
<1>1. client_keys' \subseteq DOMAIN REGISTERED_CLIENTS'
    BY InvInductive DEF Inv, ControlInv, LoopKeysAreRegistered
<1>2. CASE LeavesTimers
  <2>1. InsideLoop
      BY <1>2 DEF LeavesTimers, OutsideLoops
  <2> QED BY <1>1, <2>1 DEF InsideLoop, AskedInv
<1>3. CASE check_keep_alive
    BY <1>3 DEF check_keep_alive, start_loop, client_vars
<1>4. ASSUME \/ \E params \in InitParams : init(params) \/ upgrade(params)
             \/ send_ack_to_clients \/ send_ack_end \/ tick
      PROVE  executing' \in {"idle", "send_ack"}
    BY <1>4 DEF init, upgrade, send_ack_to_clients, send_ack_end, tick, idle, start_loop,
                end_loop, loop_vars
<1> QED BY <1>2, <1>3, <1>4, Steps

\* A gateway that is due for removal became so in this step, or it was.
LEMMA RetiringStep ==
    ASSUME Inv, [Next]_vars, NEW g \in DOMAIN GATEWAYS_TO_REMOVE'
    PROVE  \/ GATEWAYS_TO_REMOVE'[g] = time /\ time' = time
           \/ g \in DOMAIN GATEWAYS_TO_REMOVE /\ GATEWAYS_TO_REMOVE'[g] = GATEWAYS_TO_REMOVE[g]
<1>1. CASE LeavesTimers
    BY <1>1 DEF LeavesTimers, KeepsRetirements
<1>2. CASE check_keep_alive
    BY <1>2 DEF check_keep_alive, remove_empty_expired_gateways, remove, Restrict
<1>3. ASSUME NEW params \in InitParams, upgrade(params)
      PROVE  FALSE
    BY <1>3, Empty DEF upgrade
<1>4. ASSUME \/ \E params \in InitParams : init(params)
             \/ send_ack_to_clients \/ send_ack_end \/ tick
      PROVE  GATEWAYS_TO_REMOVE' = GATEWAYS_TO_REMOVE
    BY <1>4 DEF init, send_ack_to_clients, send_ack_end, tick, gateway_vars
<1> QED BY <1>1, <1>2, <1>3, <1>4, Steps

LEMMA RetiredInductive ==
    ASSUME Inv, TimerInv, CheckInv, AskedInv, RetiredInv, QueuesInOrder, [Next]_vars
    PROVE  RetiredInv'
<1>1. Inv' /\ QueuesInOrder'
    BY InvInductive, OrderInductive
<1>2. SUFFICES ASSUME NEW g \in DOMAIN GATEWAYS_TO_REMOVE'
               PROVE  \A i \in 1..Len(REGISTERED_GATEWAYS'[g].messages_queue) :
                          REGISTERED_GATEWAYS'[g].messages_queue[i].timestamp
                              <= GATEWAYS_TO_REMOVE'[g]
    BY DEF RetiredInv
<1>3. /\ g \in DOMAIN Logs' /\ g \in DOMAIN REGISTERED_GATEWAYS'
      /\ Logs'[g].messages = REGISTERED_GATEWAYS'[g].messages_queue
      /\ \A p \in DOMAIN Sessions' : Sessions'[p].gateway # g
  <2>1. StateInv' => RetiredUnused'
      BY RetiredIsUnused, PTL
  <2>2. g \in DOMAIN Logs' /\ \A p \in DOMAIN Sessions' : Sessions'[p].gateway # g
      BY <1>1, <2>1 DEF Inv, RetiredUnused
  <2> QED BY <2>2 DEF Logs, logs_of, log_of
<1>4. CASE GATEWAYS_TO_REMOVE'[g] = time /\ time' = time
    BY <1>1, <1>3, <1>4 DEF QueuesInOrder, QueueInOrder
<1>5. CASE g \in DOMAIN GATEWAYS_TO_REMOVE /\ GATEWAYS_TO_REMOVE'[g] = GATEWAYS_TO_REMOVE[g]
  <2>1. /\ g \in DOMAIN Logs /\ \A p \in DOMAIN Sessions : Sessions[p].gateway # g
        /\ Logs[g].messages = REGISTERED_GATEWAYS[g].messages_queue
      BY <1>5, RetiredIsUnused, LogTypes DEF Inv, RetiredUnused
  <2>2. \A i \in 1..Len(Logs[g].messages) :
            Logs[g].messages[i].timestamp <= GATEWAYS_TO_REMOVE[g]
      BY <1>5, <2>1 DEF RetiredInv
  <2>3. Logs'[g] = Logs[g]
    <3>1. KeepingStepOrNone
      <4>1. ASSUME forgets_everything
            PROVE  DOMAIN GATEWAYS_TO_REMOVE' = {}
          BY <4>1, Empty DEF forgets_everything, wipe_end, upgrade
      <4> QED BY <4>1, StepRefines
    <3>2. ~IsUsed(g)
        BY <1>3, <2>1 DEF IsUsed
    <3>3. ASSUME NEW ls, NEW x, AddsTo(ls, x), IsUsed(x)
          PROVE  Logs'[g] = Logs[g]
        BY <2>1, <3>2, <3>3, WithMessage
    <3>4. ASSUME NEW gateways, Logs' = Service!delete(Logs, gateways)
          PROVE  Logs'[g] = Logs[g]
        BY <1>3, <3>4 DEF Service!delete, Service!Restrict
    <3> QED BY <3>1, <3>3, <3>4, LogsOfStep
  <2> QED BY <1>3, <1>5, <2>2, <2>3
<1> QED BY <1>4, <1>5, RetiringStep

ServiceInv == Inv /\ TimerInv /\ CheckInv /\ AskedInv /\ RetiredInv /\ QueuesInOrder

LEMMA ServiceInvariant == Spec => []ServiceInv
<1>1. Init => AskedInv /\ RetiredInv
    BY Empty DEF Init, AskedInv, RetiredInv
<1>2. Inv /\ AskedInv /\ [Next]_vars => AskedInv'
    BY AskedInductive
<1>3. Inv /\ TimerInv /\ CheckInv /\ AskedInv /\ RetiredInv /\ QueuesInOrder /\ [Next]_vars
          => RetiredInv'
    BY RetiredInductive
<1> QED BY <1>1, <1>2, <1>3, DeadlineInvariant, QueuesStayInOrder, PTL
        DEF Spec, ServiceInv

----------------------------------------------------------------------------
(***************************************************************************)
(* The theorems.                                                           *)
(***************************************************************************)

\* The CDK implements the service, for every number of clients, gateways and messages,
\* all intervals, and any sequence of calls, timers, upgrades and wipes: no message is
\* lost, altered, numbered twice or forgotten before the interval has passed, no session
\* ends for silence that was not asked, and no log goes while a session uses it.
THEOREM ServiceIsImplemented == Spec => ImplementsService
<1>1. Init => Service!ServiceInit
  <2> SUFFICES ASSUME Init PROVE Service!ServiceInit
      OBVIOUS
  <2>1. /\ CURRENT_CLIENT_KEY_MAP = EmptyMap /\ REGISTERED_GATEWAYS = EmptyMap /\ time = 0
        /\ PARAMS \in InitParams /\ check_validity(PARAMS)
      BY DEF Init
  <2>2. Sessions = Service!Empty /\ Logs = Service!Empty
      BY <2>1 DEF Sessions, Logs, logs_of, Service!Empty, EmptyMap
  <2>3. PARAMS.send_ack_interval
            \in {params.send_ack_interval : params \in {q \in InitParams : check_validity(q)}}
      BY <2>1
  <2> QED BY <2>1, <2>2, <2>3 DEF Service!ServiceInit, Sessions, Logs, logs_of
<1>2. ServiceInv /\ [Next]_vars => [Service!ServiceNext]_Service!service_vars
  <2> SUFFICES ASSUME ServiceInv, [Next]_vars
               PROVE  Service!ServiceNext \/ UNCHANGED Service!service_vars
      OBVIOUS
  <2>1. CASE KeepingStep
    <3>1. KeepingStep => Service!ServiceNext
        BY Zenon DEF KeepingStep, ClosingReasons, Service!ServiceNext, Sessions, Logs, logs_of
    <3> QED BY <2>1, <3>1
  <2>2. CASE UNCHANGED <<Sessions, Logs, PARAMS.send_ack_interval, time>>
      BY <2>2 DEF Service!service_vars, Sessions, Logs, logs_of
  <2>3. CASE Service!ForgetEverything
      BY <2>3 DEF Service!ServiceNext
  <2> QED BY <2>1, <2>2, <2>3, StepRefines DEF ServiceInv, KeepingStepOrNone
<1> QED BY <1>1, <1>2, ServiceInvariant, PTL DEF Spec, ImplementsService, Service!ServiceSpec

\* The messages that are not yet as old as the interval can be polled after the step.
YoungMessagesKept ==
    \A g \in DOMAIN REGISTERED_GATEWAYS :
        \A m \in Range(REGISTERED_GATEWAYS[g].messages_queue) :
            is_young(m) =>
                /\ g \in DOMAIN REGISTERED_GATEWAYS'
                /\ m \in Range(REGISTERED_GATEWAYS'[g].messages_queue)

LEMMA StepKeepsYoungMessages ==
    ASSUME ServiceInv, [Next]_vars, ~forgets_everything
    PROVE  YoungMessagesKept
<1> SUFFICES ASSUME KeepingStepOrNone,
                    NEW g \in DOMAIN Logs, NEW m \in Range(Logs[g].messages), is_young(m)
             PROVE  g \in DOMAIN Logs' /\ m \in Range(Logs'[g].messages)
  <2>1. /\ DOMAIN Logs = DOMAIN REGISTERED_GATEWAYS
        /\ \A x \in DOMAIN Logs : Logs[x].messages = REGISTERED_GATEWAYS[x].messages_queue
      BY DEF Logs, logs_of, log_of
  <2>2. /\ DOMAIN Logs' = DOMAIN REGISTERED_GATEWAYS'
        /\ \A x \in DOMAIN Logs' : Logs'[x].messages = REGISTERED_GATEWAYS'[x].messages_queue
      BY DEF Logs, logs_of, log_of
  <2> QED BY <2>1, <2>2, StepRefines DEF ServiceInv, YoungMessagesKept
<1>1. CASE Logs' = Logs
    BY <1>1
<1>2. ASSUME NEW ls, NEW x, AddsTo(ls, x)
      PROVE  g \in DOMAIN Logs' /\ m \in Range(Logs'[g].messages)
  <2>1. CASE x = g
      BY <1>2, <2>1, WithMessage DEF ServiceInv
  <2>2. CASE x # g
      BY <1>2, <2>2, WithMessage DEF ServiceInv
  <2> QED BY <2>1, <2>2
<1>3. ASSUME NEW gateways, Logs' = Service!delete(Logs, gateways),
             \A x \in gateways \cap DOMAIN Logs :
                 Service!may_forget(Logs[x], Len(Logs[x].messages))
      PROVE  g \in DOMAIN Logs' /\ m \in Range(Logs'[g].messages)
  <2>1. g \notin gateways
    <3> DEFINE queue == Logs[g].messages
    <3>1. queue \in Seq(Message) /\ time \in Nat /\ PARAMS.send_ack_interval \in Nat
        BY LogTypes DEF ServiceInv
    <3> HIDE DEF queue
    <3>2. PICK i \in 1..Len(queue) : m = queue[i]
        BY <3>1 DEF Range, queue
    <3>3. m.timestamp \in Nat
      <4>1. m \in Message
          BY <3>1, <3>2
      <4> QED BY <4>1 DEF Message
    <3>4. ~(time - m.timestamp > PARAMS.send_ack_interval)
        BY <3>1, <3>3 DEF is_young
    <3> QED BY <1>3, <3>2, <3>4 DEF Service!may_forget, queue
  <2> QED BY <1>3, <2>1 DEF Service!delete, Service!Restrict
<1> QED BY <1>1, <1>2, <1>3, LogsOfStep DEF ServiceInv

\* A message can be polled for the acknowledgement interval after it was sent, also when
\* its gateway is removed, unless the canister forgets everything.
THEOREM YoungMessagesStay == Spec => MessagesAreKept
<1> DEFINE kept ==
        \A g \in DOMAIN REGISTERED_GATEWAYS :
            \A m \in Range(REGISTERED_GATEWAYS[g].messages_queue) :
                time - m.timestamp <= PARAMS.send_ack_interval =>
                    /\ g \in DOMAIN REGISTERED_GATEWAYS'
                    /\ m \in Range(REGISTERED_GATEWAYS'[g].messages_queue)
<1>1. ServiceInv /\ [Next]_vars => [forgets_everything \/ kept]_vars
    BY StepKeepsYoungMessages DEF YoungMessagesKept, is_young
<1> QED BY <1>1, ServiceInvariant, PTL DEF Spec, MessagesAreKept

----------------------------------------------------------------------------
(***************************************************************************)
(* The messages of a client are numbered without a gap.  The steps of the  *)
(* service show this with fewer cases than the handlers do: a message is   *)
(* added to a log, sessions end, logs are forgotten.                       *)
(***************************************************************************)

(***************************************************************************)
(* The messages of one queue.                                              *)
(***************************************************************************)

\* Message n is the last one of k, if there is any, and no close message.
EndsWith(queue, k, n) ==
    \A i \in 1..Len(queue) :
        queue[i].client_key = k /\ last_in(queue, i) =>
            queue[i].content.kind # "CloseMessage" /\ queue[i].sequence_num = n

\* Numbered and EndsWith stay when messages are forgotten from the front,
LEMMA SuffixNumbered ==
    ASSUME NEW queue \in Seq(Message), NEW d \in 0..Len(queue)
    PROVE  LET rest == SubSeq(queue, d + 1, Len(queue))
           IN  /\ Numbered(queue) => Numbered(rest)
               /\ \A k, n : EndsWith(queue, k, n) => EndsWith(rest, k, n)
<1> DEFINE rest == SubSeq(queue, d + 1, Len(queue))
           len == Len(queue)
<1>1. /\ len \in Nat /\ d \in 0..len /\ Len(rest) = len - d
      /\ \A i \in 1..len - d : rest[i] = queue[i + d]
    BY Suffix
<1> HIDE DEF rest, len
<1>2. \A i \in 1..Len(rest) : i + d \in 1..len /\ rest[i] = queue[i + d]
    BY <1>1
<1>3. ASSUME NEW i \in 1..Len(rest), NEW j \in 1..Len(rest), next_in(rest, i, j)
      PROVE  next_in(queue, i + d, j + d)
  <2>1. i + d < j + d
      BY <1>1, <1>3 DEF next_in
  <2>2. queue[i + d].client_key = queue[j + d].client_key
      BY <1>2, <1>3 DEF next_in
  <2>3. ASSUME NEW h \in (i + d) + 1..(j + d) - 1
        PROVE  queue[h].client_key # queue[i + d].client_key
    <3>1. h - d \in i + 1..j - 1 /\ h - d \in 1..Len(rest) /\ (h - d) + d = h
        BY <1>1
    <3>2. rest[h - d] = queue[h] /\ rest[i] = queue[i + d]
        BY <1>2, <3>1
    <3> QED BY <1>3, <3>1, <3>2 DEF next_in
  <2> QED BY <2>1, <2>2, <2>3 DEF next_in
<1>4. ASSUME NEW i \in 1..Len(rest), last_in(rest, i)
      PROVE  last_in(queue, i + d)
  <2>1. ASSUME NEW h \in (i + d) + 1..len
        PROVE  queue[h].client_key # queue[i + d].client_key
    <3>1. h - d \in i + 1..Len(rest) /\ h - d \in 1..Len(rest) /\ (h - d) + d = h
        BY <1>1
    <3>2. rest[h - d] = queue[h] /\ rest[i] = queue[i + d]
        BY <1>2, <3>1
    <3> QED BY <1>4, <3>1, <3>2 DEF last_in
  <2> QED BY <2>1 DEF last_in, len
<1>5. Numbered(queue) => Numbered(rest)
  <2> SUFFICES ASSUME Numbered(queue) PROVE Numbered(rest)
      OBVIOUS
  <2>1. \A i \in 1..Len(rest) : rest[i].content = OpenMessage <=> rest[i].sequence_num = 1
      BY <1>2 DEF Numbered, len
  <2>2. \A i, j \in 1..Len(rest) : next_in(rest, i, j) => may_follow(rest[i], rest[j])
      BY <1>2, <1>3 DEF Numbered, len
  <2> QED BY <2>1, <2>2 DEF Numbered
<1>6. ASSUME NEW k, NEW n, EndsWith(queue, k, n)
      PROVE  EndsWith(rest, k, n)
    BY <1>2, <1>4, <1>6 DEF EndsWith, len
<1> QED BY <1>5, <1>6 DEF rest

\* and when one is added that may follow the last one of its client.
LEMMA AppendNumbered ==
    ASSUME NEW queue \in Seq(Message), Numbered(queue), NEW m, m.sequence_num \in Nat,
           m.content = OpenMessage <=> m.sequence_num = 1,
           \/ m.content = OpenMessage
           \/ EndsWith(queue, m.client_key, m.sequence_num - 1)
    PROVE  /\ Numbered(Append(queue, m))
           /\ m.content.kind # "CloseMessage" =>
                  EndsWith(Append(queue, m), m.client_key, m.sequence_num)
           /\ \A k, n : EndsWith(queue, k, n) /\ k # m.client_key =>
                  EndsWith(Append(queue, m), k, n)
<1> DEFINE new == Append(queue, m)
           len == Len(queue)
<1>1. /\ len \in Nat /\ Len(new) = len + 1 /\ new[len + 1] = m
      /\ \A i \in 1..len : new[i] = queue[i] /\ i \in 1..len + 1
    OBVIOUS
<1>2. \A i \in 1..len + 1 : i \in 1..len \/ i = len + 1
    BY <1>1
<1>3. m.sequence_num \in Nat /\ m.sequence_num = (m.sequence_num - 1) + 1
    OBVIOUS
<1> HIDE DEF new, len
<1>4. \A i \in 1..len + 1 : new[i].content = OpenMessage <=> new[i].sequence_num = 1
    BY <1>1, <1>2 DEF Numbered, len
<1>5. ASSUME NEW i \in 1..len + 1, NEW j \in 1..len + 1, next_in(new, i, j)
      PROVE  may_follow(new[i], new[j])
  <2>1. i \in 1..len /\ i < j
      BY <1>1, <1>5 DEF next_in
  <2>2. CASE j \in 1..len
    <3>1. \A h \in i + 1..j - 1 : h \in 1..len
        BY <1>1, <2>1, <2>2
    <3>2. next_in(queue, i, j)
        BY <1>1, <1>5, <2>1, <2>2, <3>1 DEF next_in
    <3> QED BY <1>1, <2>1, <2>2, <3>2 DEF Numbered, len
  <2>3. CASE j = len + 1
    <3>1. \A h \in i + 1..len : h \in 1..len /\ h \in i + 1..j - 1
        BY <1>1, <2>1, <2>3
    <3>2. last_in(queue, i) /\ queue[i].client_key = m.client_key
        BY <1>1, <1>5, <2>1, <2>3, <3>1 DEF next_in, last_in, len
    <3>3. \/ m.content = OpenMessage
          \/ /\ queue[i].content.kind # "CloseMessage"
             /\ queue[i].sequence_num = m.sequence_num - 1
        BY <2>1, <3>2 DEF EndsWith, len
    <3> QED BY <1>1, <1>3, <2>1, <2>3, <3>3 DEF may_follow
  <2> QED BY <1>2, <2>2, <2>3
<1>6. Numbered(new)
    BY <1>1, <1>4, <1>5 DEF Numbered
<1>7. ASSUME NEW i \in 1..len, last_in(new, i)
      PROVE  last_in(queue, i) /\ queue[i].client_key # m.client_key
  <2>1. \A h \in i + 1..len : h \in i + 1..len + 1 /\ h \in 1..len
      BY <1>1
  <2>2. len + 1 \in i + 1..len + 1
      BY <1>1
  <2>3. \A h \in i + 1..len + 1 : new[h].client_key # new[i].client_key
      BY <1>1, <1>7 DEF last_in
  <2> QED BY <1>1, <2>1, <2>2, <2>3 DEF last_in, len
<1>8. EndsWith(new, m.client_key, m.sequence_num) \/ m.content.kind = "CloseMessage"
    BY <1>1, <1>2, <1>7 DEF EndsWith
<1>9. ASSUME NEW k, NEW n, EndsWith(queue, k, n), k # m.client_key
      PROVE  EndsWith(new, k, n)
    BY <1>1, <1>2, <1>7, <1>9 DEF EndsWith, len
<1> QED BY <1>6, <1>8, <1>9 DEF new

----------------------------------------------------------------------------
(***************************************************************************)
(* The messages of all sessions.                                           *)
(***************************************************************************)

key_of(p, nonce) == [client_principal |-> p, client_nonce |-> nonce]

\* Every log is numbered, and the last message of a session in the log of its gateway
\* carries the number of messages sent in it.
StreamInv ==
    /\ \A g \in DOMAIN Logs : Numbered(Logs[g].messages)
    /\ \A p \in DOMAIN Sessions :
           /\ Sessions[p].sent \in Nat \ {0}
           /\ EndsWith(Logs[Sessions[p].gateway].messages,
                       key_of(p, Sessions[p].nonce), Sessions[p].sent)

\* Session q is as it was, but perhaps for what the client sent and answered.
SameStream(q) ==
    /\ q \in DOMAIN Sessions
    /\ Sessions'[q].nonce = Sessions[q].nonce
    /\ Sessions'[q].gateway = Sessions[q].gateway
    /\ Sessions'[q].sent = Sessions[q].sent

\* A message is added to the log of gateway g, the next one or the first one of p.
AddsNumbered(p, nonce, g, n, content) ==
    /\ \A q \in DOMAIN Sessions' : q # p => SameStream(q)
    /\ p \in DOMAIN Sessions' =>
           /\ content.kind # "CloseMessage"
           /\ Sessions'[p].nonce = nonce /\ Sessions'[p].gateway = g
           /\ Sessions'[p].sent = n
    /\ content = OpenMessage <=> n = 1
    /\ n # 1 =>
           /\ p \in DOMAIN Sessions
           /\ Sessions[p].nonce = nonce /\ Sessions[p].gateway = g
           /\ Sessions[p].sent = n - 1

LEMMA AddedMessage ==
    ASSUME Inv, StreamInv, NEW p, NEW nonce, NEW g, NEW n \in Nat \ {0}, NEW content,
           NEW ls, \A x \in DOMAIN Logs : x \in DOMAIN ls /\ ls[x] = Logs[x],
           \A x \in DOMAIN ls : x \notin DOMAIN Logs => ls[x].messages = << >>,
           g \in DOMAIN ls, ls[g].messages \in Seq(Message),
           Logs' \in Service!with_message(ls, g, p, nonce, n, content),
           AddsNumbered(p, nonce, g, n, content)
    PROVE  StreamInv'
<1> DEFINE queue == ls[g].messages
           k     == key_of(p, nonce)
<1>1. PICK d, m :
          /\ d \in 0..Len(queue)
          /\ m.client_key = k /\ m.sequence_num = n /\ m.content = content
          /\ Logs' = [ls EXCEPT ![g] =
                 [start    |-> ls[g].start + d,
                  messages |-> Append(SubSeq(queue, d + 1, Len(queue)), m)]]
    BY DEF Service!with_message, key_of
<1> DEFINE rest == SubSeq(queue, d + 1, Len(queue))
           new  == Append(rest, m)
<1>2. /\ DOMAIN Logs' = DOMAIN ls /\ \A x \in DOMAIN ls : x # g => Logs'[x] = ls[x]
      /\ Logs'[g].messages = new
    BY <1>1
<1>3. queue \in Seq(Message) /\ rest \in Seq(Message) /\ d \in 0..Len(queue)
    BY <1>1, Suffix
<1>4. /\ \A x \in DOMAIN ls : Numbered(ls[x].messages)
      /\ \A q \in DOMAIN Sessions : Sessions[q].gateway \in DOMAIN Logs
  <2>1. Numbered(<< >>)
      BY DEF Numbered
  <2> QED BY <2>1, LogTypes DEF StreamInv
<1>5. n # 1 => EndsWith(queue, k, n - 1)
    BY <1>4 DEF StreamInv, AddsNumbered
<1> HIDE DEF queue, k
<1>6. Numbered(rest) /\ \A x, y : EndsWith(queue, x, y) => EndsWith(rest, x, y)
    BY <1>3, <1>4, SuffixNumbered DEF queue
<1> HIDE DEF rest
<1>7. /\ Numbered(new)
      /\ content.kind # "CloseMessage" => EndsWith(new, k, n)
      /\ \A x, y : EndsWith(queue, x, y) /\ x # k => EndsWith(new, x, y)
  <2>1. m.content = OpenMessage <=> m.sequence_num = 1
      BY <1>1 DEF AddsNumbered
  <2>2. m.content = OpenMessage \/ EndsWith(rest, m.client_key, m.sequence_num - 1)
      BY <1>1, <1>5, <1>6, <2>1
  <2> QED BY <1>1, <1>3, <1>6, <2>1, <2>2, AppendNumbered
<1> HIDE DEF new
<1>8. \A x \in DOMAIN Logs' : Numbered(Logs'[x].messages)
    BY <1>2, <1>4, <1>7
<1>9. ASSUME NEW q \in DOMAIN Sessions'
      PROVE  /\ Sessions'[q].sent \in Nat \ {0}
             /\ EndsWith(Logs'[Sessions'[q].gateway].messages,
                         key_of(q, Sessions'[q].nonce), Sessions'[q].sent)
  <2>1. CASE q = p
      BY <1>2, <1>7, <2>1 DEF AddsNumbered, k
  <2>2. CASE q # p
    <3> DEFINE x == Sessions[q].gateway
               y == key_of(q, Sessions[q].nonce)
    <3>1. SameStream(q) /\ x \in DOMAIN Logs
        BY <1>4, <2>2 DEF AddsNumbered, SameStream
    <3>2. Sessions[q].sent \in Nat \ {0} /\ EndsWith(Logs[x].messages, y, Sessions[q].sent)
        BY <3>1 DEF SameStream, StreamInv
    <3>3. y # k
        BY <2>2 DEF key_of, k
    <3>4. EndsWith(Logs'[x].messages, y, Sessions[q].sent)
      <4>1. CASE x = g
          BY <1>2, <1>7, <3>1, <3>2, <3>3, <4>1 DEF queue
      <4>2. CASE x # g
          BY <1>2, <3>1, <3>2, <4>2
      <4> QED BY <4>1, <4>2
    <3> QED BY <3>1, <3>2, <3>4 DEF SameStream
  <2> QED BY <2>1, <2>2
<1> QED BY <1>8, <1>9 DEF StreamInv

\* What a session looks like once a message has been sent in it.
LEMMA SentFields ==
    ASSUME NEW p \in DOMAIN Sessions,
           \/ Sessions' = [Sessions EXCEPT ![p].sent = @ + 1]
           \/ Sessions' = [Sessions EXCEPT ![p].sent = @ + 1, ![p].asked = TRUE]
    PROVE  /\ DOMAIN Sessions' = DOMAIN Sessions
           /\ \A q \in DOMAIN Sessions : q # p => Sessions'[q] = Sessions[q]
           /\ Sessions'[p].nonce = Sessions[p].nonce
           /\ Sessions'[p].gateway = Sessions[p].gateway
           /\ Sessions'[p].sent = Sessions[p].sent + 1
<1>1. DOMAIN Sessions[p] = {"nonce", "gateway", "sent", "received", "heard", "asked"}
    BY DEF Sessions, session_of
<1> QED BY <1>1

LEMMA OpenStream ==
    ASSUME Inv, StreamInv, NEW p, NEW nonce, NEW g, Service!Open(p, nonce, g)
    PROVE  StreamInv'
<1> DEFINE empty == [start |-> 0, messages |-> << >>]
           ls == IF g \in DOMAIN Logs THEN Logs ELSE Service!insert(Logs, g, empty)
           s  == [nonce |-> nonce, gateway |-> g, sent |-> 1, received |-> 0,
                  heard |-> time, asked |-> FALSE]
           content == Service!open_content
<1>1. /\ Sessions' = Service!insert(Sessions, p, s)
      /\ Logs' \in Service!with_message(ls, g, p, nonce, 1, content)
    BY Zenon DEF Service!Open, Sessions, Logs, logs_of
<1>2. /\ s.nonce = nonce /\ s.gateway = g /\ s.sent = 1
      /\ empty.messages = << >> /\ << >> \in Seq(Message)
      /\ content = OpenMessage /\ content.kind # "CloseMessage"
    BY DEF Service!open_content, OpenMessage
<1> HIDE DEF s, empty, content
<1>3. /\ \A x \in DOMAIN Logs : x \in DOMAIN ls /\ ls[x] = Logs[x]
      /\ \A x \in DOMAIN ls : x \notin DOMAIN Logs => x = g /\ ls[x] = empty
      /\ g \in DOMAIN ls
    BY DEF Service!insert
<1> HIDE DEF ls
<1>4. ls[g].messages \in Seq(Message)
    BY <1>2, <1>3, LogTypes
<1>5. AddsNumbered(p, nonce, g, 1, content)
  <2>1. /\ DOMAIN Sessions' = DOMAIN Sessions \cup {p} /\ Sessions'[p] = s
        /\ \A q \in DOMAIN Sessions : q # p => Sessions'[q] = Sessions[q]
      BY <1>1 DEF Service!insert
  <2> QED BY <1>2, <2>1 DEF AddsNumbered, SameStream
<1>6. \A x \in DOMAIN ls : x \notin DOMAIN Logs => ls[x].messages = << >>
    BY <1>2, <1>3
<1> QED BY <1>1, <1>3, <1>4, <1>5, <1>6, AddedMessage

LEMMA NextOfStream ==
    ASSUME Inv, StreamInv, NEW p \in DOMAIN Sessions, NEW content, content # OpenMessage,
           Logs' \in Service!next_message(p, content),
           \/ Sessions' = Service!delete(Sessions, {p})
           \/ /\ content.kind # "CloseMessage"
              /\ \/ Sessions' = [Sessions EXCEPT ![p].sent = @ + 1]
                 \/ Sessions' = [Sessions EXCEPT ![p].sent = @ + 1, ![p].asked = TRUE]
    PROVE  StreamInv'
<1> DEFINE g == Sessions[p].gateway
           nonce == Sessions[p].nonce
           sent == Sessions[p].sent
<1>1. g \in DOMAIN Logs /\ Logs[g].messages \in Seq(Message)
    BY LogTypes
<1>2. Logs' \in Service!with_message(Logs, g, p, nonce, sent + 1, content)
    BY Zenon DEF Service!next_message, Sessions, Logs, logs_of
<1>3. sent \in Nat \ {0}
    BY DEF StreamInv
<1>4. /\ DOMAIN Sessions' \subseteq DOMAIN Sessions
      /\ \A q \in DOMAIN Sessions' : q # p => Sessions'[q] = Sessions[q]
      /\ p \in DOMAIN Sessions' =>
             /\ content.kind # "CloseMessage"
             /\ Sessions'[p].nonce = nonce /\ Sessions'[p].gateway = g
             /\ Sessions'[p].sent = sent + 1
  <2>1. CASE Sessions' = Service!delete(Sessions, {p})
      BY <2>1 DEF Service!delete, Service!Restrict
  <2>2. CASE /\ content.kind # "CloseMessage"
             /\ \/ Sessions' = [Sessions EXCEPT ![p].sent = @ + 1]
                \/ Sessions' = [Sessions EXCEPT ![p].sent = @ + 1, ![p].asked = TRUE]
      BY <2>2, SentFields
  <2> QED BY <2>1, <2>2
<1>5. AddsNumbered(p, nonce, g, sent + 1, content)
  <2>1. sent + 1 # 1 /\ (sent + 1) - 1 = sent
      BY <1>3
  <2> HIDE DEF sent, nonce, g
  <2>2. \A q \in DOMAIN Sessions' : q # p => SameStream(q)
      BY <1>4 DEF SameStream
  <2> QED BY <1>4, <2>1, <2>2 DEF AddsNumbered, sent, nonce, g
<1>6. sent + 1 \in Nat \ {0}
    BY <1>3
<1> HIDE DEF sent, nonce, g
<1> QED BY <1>1, <1>2, <1>5, <1>6, AddedMessage

\* Nothing is sent, and sessions and logs stay or end.
LEMMA NothingAdded ==
    ASSUME StreamInv,
           \A g \in DOMAIN Logs' : g \in DOMAIN Logs /\ Logs'[g] = Logs[g],
           \A q \in DOMAIN Sessions' :
               SameStream(q) /\ Sessions[q].gateway \in DOMAIN Logs'
    PROVE  StreamInv'
BY DEF StreamInv, SameStream

LEMMA QuietStream ==
    ASSUME Inv, StreamInv, NEW p \in DOMAIN Sessions,
           Service!Receive(p) \/ Service!ReceiveKeepAlive(p) \/ Service!Drop(p)
    PROVE  StreamInv'
<1>1. Logs' = Logs
    BY DEF Service!Receive, Service!ReceiveKeepAlive, Service!Drop, Logs, logs_of
<1>2. \/ Sessions' = [Sessions EXCEPT ![p].received = @ + 1]
      \/ Sessions' = [Sessions EXCEPT ![p].received = @ + 1, ![p].heard = time]
      \/ Sessions' = Service!delete(Sessions, {p})
    BY Zenon DEF Service!Receive, Service!ReceiveKeepAlive, Service!Drop, Sessions
<1>3. DOMAIN Sessions[p] = {"nonce", "gateway", "sent", "received", "heard", "asked"}
    BY DEF Sessions, session_of
<1>4. \A q \in DOMAIN Sessions' : SameStream(q)
    BY <1>2, <1>3 DEF SameStream, Service!delete, Service!Restrict
<1>5. \A q \in DOMAIN Sessions : Sessions[q].gateway \in DOMAIN Logs
    BY LogTypes
<1> QED BY <1>1, <1>4, <1>5, NothingAdded DEF SameStream

LEMMA StreamInductive ==
    ASSUME ServiceInv, StreamInv, [Next]_vars
    PROVE  StreamInv'
<1>1. Inv
    BY DEF ServiceInv
<1>2. ASSUME NEW p \in DOMAIN Sessions, Service!Send(p) \/ Service!Acknowledge(p)
      PROVE  StreamInv'
  <2>1. PICK content :
            /\ content # OpenMessage /\ content.kind # "CloseMessage"
            /\ Logs' \in Service!next_message(p, content)
    <3>1. CASE Service!Send(p)
      <4>1. /\ Service!application_content # OpenMessage
            /\ Service!application_content.kind # "CloseMessage"
          BY DEF Service!application_content, OpenMessage
      <4>2. Logs' \in Service!next_message(p, Service!application_content)
          BY <3>1, Zenon DEF Service!Send, Logs, logs_of
      <4> QED BY <4>1, <4>2
    <3>2. CASE Service!Acknowledge(p)
      <4>1. \A n : /\ Service!ack_content(n) # OpenMessage
                   /\ Service!ack_content(n).kind # "CloseMessage"
          BY DEF Service!ack_content, OpenMessage
      <4>2. \E n : Logs' \in Service!next_message(p, Service!ack_content(n))
          BY <3>2, Zenon DEF Service!Acknowledge, Logs, logs_of
      <4> QED BY <4>1, <4>2
    <3> QED BY <1>2, <3>1, <3>2
  <2>2. \/ Sessions' = [Sessions EXCEPT ![p].sent = @ + 1]
        \/ Sessions' = [Sessions EXCEPT ![p].sent = @ + 1, ![p].asked = TRUE]
      BY <1>2, Zenon DEF Service!Send, Service!Acknowledge, Sessions
  <2> QED BY <1>1, <2>1, <2>2, NextOfStream
<1>3. ASSUME NEW p \in DOMAIN Sessions, NEW reason, Service!Close(p, reason)
      PROVE  StreamInv'
  <2>1. Service!close_content(reason) # OpenMessage
      BY DEF Service!close_content, OpenMessage
  <2>2. /\ Sessions' = Service!delete(Sessions, {p})
        /\ Logs' \in Service!next_message(p, Service!close_content(reason))
      BY <1>3, Zenon DEF Service!Close, Sessions, Logs, logs_of
  <2> QED BY <1>1, <2>1, <2>2, NextOfStream
<1>4. ASSUME NEW gateways, Service!Retire(gateways)
      PROVE  StreamInv'
  <2>1. /\ Sessions' = Sessions /\ Logs' = Service!delete(Logs, gateways)
        /\ \A g \in gateways : \A p \in DOMAIN Sessions : Sessions[p].gateway # g
      BY <1>4, Zenon DEF Service!Retire, Sessions, Logs, logs_of
  <2>2. /\ DOMAIN Logs' = DOMAIN Logs \ gateways
        /\ \A g \in DOMAIN Logs' : Logs'[g] = Logs[g]
      BY <2>1 DEF Service!delete, Service!Restrict
  <2>3. \A p \in DOMAIN Sessions : Sessions[p].gateway \in DOMAIN Logs
      BY <1>1, LogTypes
  <2> QED BY <2>1, <2>2, <2>3, NothingAdded DEF SameStream
<1>5. ASSUME UNCHANGED <<Sessions, Logs>>
      PROVE  StreamInv'
    BY <1>5 DEF StreamInv
<1>6. ASSUME Service!SetInterval \/ Service!Tick
      PROVE  UNCHANGED <<Sessions, Logs>>
    BY <1>6, Zenon DEF Service!SetInterval, Service!Tick, Sessions, Logs, logs_of
<1>7. CASE KeepingStep
    BY <1>1, <1>2, <1>3, <1>4, <1>5, <1>6, <1>7, OpenStream, QuietStream DEF KeepingStep
<1>8. CASE Service!ForgetEverything
  <2>1. DOMAIN Sessions' = {} /\ DOMAIN Logs' = {}
      BY <1>8 DEF Service!ForgetEverything, Service!Empty, Sessions, Logs, logs_of
  <2> QED BY <2>1 DEF StreamInv
<1> QED BY <1>5, <1>7, <1>8, StepRefines DEF ServiceInv, KeepingStepOrNone

----------------------------------------------------------------------------

LEMMA StreamsAreNumbered == Inv /\ StreamInv => StreamsInOrder
<1> SUFFICES ASSUME Inv, StreamInv PROVE StreamsInOrder
    OBVIOUS
<1> SUFFICES ASSUME NEW g \in DOMAIN REGISTERED_GATEWAYS
             PROVE  StreamInOrder(REGISTERED_GATEWAYS[g].messages_queue, g)
    BY DEF StreamsInOrder
<1> DEFINE queue == REGISTERED_GATEWAYS[g].messages_queue
<1>1. g \in DOMAIN Logs /\ Logs[g].messages = queue
    BY LogTypes
<1>2. ASSUME NEW k \in clients_of(g)
      PROVE  EndsWith(queue, k, OUTGOING_MESSAGE_TO_CLIENT_NUM_MAP[k])
  <2>1. k \in DOMAIN REGISTERED_CLIENTS /\ gateway_of(k) = g /\ k \in ClientKey
      BY <1>2 DEF clients_of, Inv, StateInv, MapsOK, MapInto
  <2>2. key_of(k.client_principal, k.client_nonce) = k
      BY <2>1 DEF key_of, ClientKey
  <2>3. StateInv
      BY DEF Inv
  <2> QED BY <1>1, <2>1, <2>2, <2>3, NextMessage DEF StreamInv
<1> HIDE DEF queue
<1>3. Numbered(queue)
    BY <1>1 DEF StreamInv
<1> QED BY <1>2, <1>3 DEF StreamInOrder, EndsWith, queue

\* In a queue, the messages of one client key carry consecutive numbers from the open
\* message on, nothing follows a close message but the open message of the next session,
\* and the last message of a registered client carries the number of messages sent to it:
\* whatever sends them (the application, the acknowledgement timer, the closing of a
\* client) and whatever was pruned meanwhile.
THEOREM MessagesAreNumbered == Spec => []StreamsInOrder
<1>1. Init => StreamInv
  <2>1. Init => DOMAIN Sessions = {} /\ DOMAIN Logs = {}
      BY Empty DEF Init, Sessions, Logs, logs_of
  <2> QED BY <2>1 DEF StreamInv
<1>2. ServiceInv /\ StreamInv /\ [Next]_vars => StreamInv'
    BY StreamInductive
<1>3. ServiceInv /\ StreamInv => StreamsInOrder
    BY StreamsAreNumbered DEF ServiceInv
<1> QED BY <1>1, <1>2, <1>3, ServiceInvariant, PTL DEF Spec

----------------------------------------------------------------------------
(***************************************************************************)
(* Every client has got an acknowledgement, or its open message, that its  *)
(* gateway can still poll.                                                 *)
(***************************************************************************)

\* The message tells client k that it is acknowledged, and it is not due for the next
\* acknowledgement yet.
acknowledges(m, k) ==
    /\ m.client_key = k /\ m.content.kind \in {"OpenMessage", "AckMessage"}
    /\ IF executing = "send_ack"
       THEN time <= m.timestamp
       ELSE ACK_TIMER.deadline <= m.timestamp + PARAMS.send_ack_interval

IsAcknowledged(k) ==
    \E i \in DOMAIN REGISTERED_GATEWAYS[gateway_of(k)].messages_queue :
        acknowledges(REGISTERED_GATEWAYS[gateway_of(k)].messages_queue[i], k)

\* While the acknowledgements are sent, of the clients that the loop has come to.
AckedInv ==
    \A k \in DOMAIN REGISTERED_CLIENTS :
        IsAcknowledged(k) \/ (executing = "send_ack" /\ k \in client_keys)

\* A message that is added to a log is in the queue of its gateway.
LEMMA AddedToQueue ==
    ASSUME NEW ls, NEW g \in DOMAIN ls, ls[g].messages \in Seq(Message),
           NEW p, NEW nonce, NEW n, NEW content,
           Logs' \in Service!with_message(ls, g, p, nonce, n, content)
    PROVE  \E i \in DOMAIN REGISTERED_GATEWAYS'[g].messages_queue :
               LET m == REGISTERED_GATEWAYS'[g].messages_queue[i]
               IN  /\ m.client_key = key_of(p, nonce)
                   /\ m.content = content /\ m.timestamp = time
<1> DEFINE queue == ls[g].messages
<1>1. PICK d, m : /\ d \in 0..Len(queue)
                  /\ m.client_key = key_of(p, nonce)
                  /\ m.content = content /\ m.timestamp = time
                  /\ Logs' = [ls EXCEPT ![g] =
                         [start    |-> ls[g].start + d,
                          messages |-> Append(SubSeq(queue, d + 1, Len(queue)), m)]]
    BY DEF Service!with_message, key_of
<1> DEFINE rest == SubSeq(queue, d + 1, Len(queue))
<1>2. g \in DOMAIN Logs' /\ Logs'[g].messages = Append(rest, m)
    BY <1>1
<1>3. REGISTERED_GATEWAYS'[g].messages_queue = Append(rest, m)
    BY <1>2 DEF Logs, logs_of, log_of
<1>4. rest \in Seq(Message)
    BY <1>1
<1> HIDE DEF rest
<1>5. /\ Len(rest) + 1 \in DOMAIN Append(rest, m)
      /\ Append(rest, m)[Len(rest) + 1] = m
    BY <1>4
<1> QED BY <1>1, <1>3, <1>5

\* A client is new, or it stays with its gateway.
LEMMA ClientsOfStep ==
    ASSUME Inv, [Next]_vars, NEW k \in DOMAIN REGISTERED_CLIENTS'
    PROVE  \/ k \in DOMAIN REGISTERED_CLIENTS /\ gateway_of(k)' = gateway_of(k)
           \/ \E p \in Principal, nonce \in ClientNonce, g \in Gateway :
                  /\ ws_open(p, nonce, g)
                  /\ k = key_of(p, nonce) /\ gateway_of(k)' = g
<1> DEFINE stays == k \in DOMAIN REGISTERED_CLIENTS /\ gateway_of(k)' = gateway_of(k)
<1>1. /\ client_keys \subseteq DOMAIN REGISTERED_CLIENTS
      /\ \A p \in DOMAIN CURRENT_CLIENT_KEY_MAP :
             CURRENT_CLIENT_KEY_MAP[p] \in DOMAIN REGISTERED_CLIENTS
      /\ DOMAIN INCOMING_MESSAGE_FROM_CLIENT_NUM_MAP = DOMAIN REGISTERED_CLIENTS
      /\ REGISTERED_CLIENTS \in [DOMAIN REGISTERED_CLIENTS -> RegisteredClient]
    BY DEF Inv, StateInv, MapsOK, MapInto, RegistryConsistent, ControlInv,
           LoopKeysAreRegistered
<1>2. ASSUME NEW p \in Principal, NEW nonce \in ClientNonce, NEW g \in Gateway,
             ws_open(p, nonce, g)
      PROVE  stays \/ (k = key_of(p, nonce) /\ gateway_of(k)' = g)
  <2> DEFINE client == [last_keep_alive_timestamp |-> time, gateway_principal |-> g]
  <2>1. REGISTERED_CLIENTS' =
            put(remove(REGISTERED_CLIENTS, current_keys(p)), key_of(p, nonce), client)
      BY <1>2 DEF ws_open, key_of
  <2>2. client.gateway_principal = g
      OBVIOUS
  <2> HIDE DEF client
  <2> QED BY <2>1, <2>2 DEF put, remove, Restrict, gateway_of
<1>3. ASSUME NEW x, REGISTERED_CLIENTS' = remove(REGISTERED_CLIENTS, {x})
      PROVE  stays
    BY <1>3 DEF remove, Restrict, gateway_of
<1>4. ASSUME NEW x, remove_client(x) \/ \E reason : close_client(x, reason)
      PROVE  stays
    BY <1>3, <1>4 DEF remove_client, close_client, remove_from_client_maps
<1>5. ASSUME REGISTERED_CLIENTS' = REGISTERED_CLIENTS
      PROVE  stays
    BY <1>5 DEF gateway_of
<1>6. ASSUME NEW p \in Principal, NEW x \in ClientKey, ws_message_keep_alive(p, x)
      PROVE  stays
  <2>1. /\ x \in DOMAIN REGISTERED_CLIENTS
        /\ REGISTERED_CLIENTS' =
               [REGISTERED_CLIENTS EXCEPT ![x].last_keep_alive_timestamp = time]
      BY <1>1, <1>6 DEF ws_message_keep_alive, is_current
  <2> QED BY <1>1, <2>1 DEF gateway_of, RegisteredClient
<1>7. ASSUME NEW params \in InitParams, upgrade(params)
      PROVE  FALSE
    BY <1>7, Empty DEF upgrade
<1>8. ASSUME \/ \E p \in Principal, x \in ClientKey : ws_message(p, x)
             \/ \E p \in Principal : send(p)
             \/ \E params \in InitParams : init(params)
             \/ wipe \/ wipe_end \/ send_ack_to_clients \/ send_ack_end
             \/ check_keep_alive \/ check_keep_alive_end \/ tick
             \/ \E x \in client_keys : send_ack(x)
             \/ UNCHANGED vars
      PROVE  REGISTERED_CLIENTS' = REGISTERED_CLIENTS
    BY <1>8 DEF ws_message, send, init, wipe, wipe_end, send_ack_to_clients, send_ack_end,
           check_keep_alive, check_keep_alive_end, tick, send_ack, vars, client_vars
<1>9. ASSUME \/ \E g \in Gateway, x \in ClientKey : ws_close(g, x)
             \/ \E p \in Principal, x \in ClientKey : ws_message_wrong_sequence_number(p, x)
             \/ \E p \in Principal : close(p)
             \/ \E x \in client_keys : wipe_client(x) \/ close_silent_client(x)
      PROVE  \E x : remove_client(x) \/ \E reason : close_client(x, reason)
    BY <1>9 DEF ws_close, ws_message_wrong_sequence_number, close, wipe_client,
           close_silent_client
<1> QED BY <1>2, <1>4, <1>5, <1>6, <1>7, <1>8, <1>9 DEF Next

\* The loop that sends acknowledgements comes to k, or it has still to.
LEMMA AckLoopStep ==
    ASSUME [Next]_vars, executing = "send_ack", NEW k \in client_keys
    PROVE  send_ack(k) \/ (executing' = "send_ack" /\ k \in client_keys')
<1>1. ASSUME NEW p \in Principal, send(p)
      PROVE  executing' = "send_ack" /\ k \in client_keys'
    BY <1>1 DEF send, loop_vars
<1>2. ASSUME NEW x \in client_keys, send_ack(x), x # k
      PROVE  executing' = "send_ack" /\ k \in client_keys'
    BY <1>2 DEF send_ack, next_iteration
<1>3. ~ \/ \E p \in Principal, nonce \in ClientNonce, g \in Gateway : ws_open(p, nonce, g)
        \/ \E g \in Gateway, x \in ClientKey : ws_close(g, x)
        \/ \E p \in Principal, x \in ClientKey :
               \/ ws_message(p, x)
               \/ ws_message_keep_alive(p, x)
               \/ ws_message_wrong_sequence_number(p, x)
        \/ \E p \in Principal : close(p)
        \/ \E params \in InitParams : init(params) \/ upgrade(params)
        \/ wipe \/ wipe_end \/ send_ack_to_clients \/ send_ack_end
        \/ check_keep_alive \/ check_keep_alive_end \/ tick
        \/ \E x \in client_keys : wipe_client(x) \/ close_silent_client(x)
    BY DEF ws_open, ws_close, ws_message, ws_message_keep_alive,
           ws_message_wrong_sequence_number, is_current, close, not_in_on_close, init,
           upgrade, wipe, wipe_end, send_ack_to_clients, send_ack_end, check_keep_alive,
           check_keep_alive_end, tick, wipe_client, close_silent_client, next_iteration,
           end_loop, idle
<1>4. ASSUME UNCHANGED vars
      PROVE  executing' = "send_ack" /\ k \in client_keys'
    BY <1>4 DEF vars, loop_vars
<1> QED BY <1>1, <1>2, <1>3, <1>4 DEF Next

\* What can be said of deadlines after a step in which nothing is forgotten.
LEMMA AckStep ==
    ASSUME "init" \notin Maintenance, Inv, TimerInv, DeadlineInv, [Next]_vars,
           DOMAIN REGISTERED_CLIENTS' # {}
    PROVE  /\ PARAMS' = PARAMS
           /\ \/ /\ executing' = "send_ack"
                 /\ \/ executing = "send_ack" /\ time' = time
                    \/ client_keys' = DOMAIN REGISTERED_CLIENTS'
              \/ /\ executing' # "send_ack" /\ executing # "send_ack"
                 /\ ACK_TIMER' = ACK_TIMER
              \/ /\ executing' # "send_ack" /\ executing = "send_ack"
                 /\ ACK_TIMER'.deadline = time + PARAMS.send_ack_interval
                 /\ client_keys = {}
<1>1. CASE LeavesTimers
  <2>1. UNCHANGED <<ACK_TIMER, PARAMS, time>>
      BY <1>1 DEF LeavesTimers, timer_vars
  <2>2. executing' = "send_ack" <=> executing = "send_ack"
      BY <1>1 DEF LeavesTimers, InsideLoop, OutsideLoops, idle
  <2> QED BY <2>1, <2>2
<1>2. ASSUME NEW params \in InitParams, init(params) \/ upgrade(params)
      PROVE  FALSE
    BY <1>2, UpgradeForgets DEF init
<1>3. CASE send_ack_to_clients
    BY <1>3 DEF send_ack_to_clients, start_loop, client_vars
<1>4. CASE send_ack_end
    BY <1>4, AckSets
<1>5. CASE check_keep_alive
    BY <1>5, CheckFires
<1>6. CASE tick
    BY <1>6 DEF tick, timer_vars, loop_vars, idle
<1> QED BY <1>1, <1>2, <1>3, <1>4, <1>5, <1>6, Steps

\* With timers that are on time and without another init, the acknowledgement of a client
\* stays where its gateway finds it until the next one.
LEMMA AckedInductive ==
    ASSUME "init" \notin Maintenance, MaxTimerDelay = 0,
           ServiceInv, DeadlineInv, AckedInv, [Next]_vars
    PROVE  AckedInv'
<1>1. Inv /\ TimerInv /\ StateInv /\ QueuesInOrder /\ Inv'
    BY InvInductive DEF ServiceInv, Inv
<1>2. SUFFICES ASSUME NEW k \in DOMAIN REGISTERED_CLIENTS'
               PROVE  IsAcknowledged(k)' \/ (executing' = "send_ack" /\ k \in client_keys')
    BY DEF AckedInv
<1>3. /\ PARAMS' = PARAMS
      /\ \/ /\ executing' = "send_ack"
            /\ \/ executing = "send_ack" /\ time' = time
               \/ client_keys' = DOMAIN REGISTERED_CLIENTS'
         \/ /\ executing' # "send_ack" /\ executing # "send_ack"
            /\ ACK_TIMER' = ACK_TIMER
         \/ /\ executing' # "send_ack" /\ executing = "send_ack"
            /\ ACK_TIMER'.deadline = time + PARAMS.send_ack_interval
            /\ client_keys = {}
    BY <1>1, AckStep
<1>4. /\ time \in Nat /\ PARAMS.send_ack_interval \in Nat /\ ACK_TIMER.deadline \in Nat
      /\ time <= ACK_TIMER.deadline
      /\ ACK_TIMER.deadline <= time + PARAMS.send_ack_interval
      /\ executing = "send_ack" => ACK_TIMER.deadline <= time
    BY <1>1, TimerTypes DEF TimerInv, DeadlineInv
<1>5. ASSUME NEW p \in Principal, NEW nonce \in ClientNonce, NEW g \in Gateway,
             ws_open(p, nonce, g), k = key_of(p, nonce), gateway_of(k)' = g
      PROVE  IsAcknowledged(k)'
  <2> DEFINE empty == [start |-> 0, messages |-> << >>]
             ls == IF g \in DOMAIN Logs THEN Logs ELSE Service!insert(Logs, g, empty)
  <2>1. Logs' \in Service!with_message(ls, g, p, nonce, 1, OpenMessage)
      BY <1>1, <1>5, OpenLogs
  <2>2. /\ g \in DOMAIN ls
        /\ g \notin DOMAIN Logs => ls[g] = empty
        /\ g \in DOMAIN Logs => ls[g] = Logs[g]
      BY DEF Service!insert
  <2> HIDE DEF ls
  <2>3. ls[g].messages \in Seq(Message)
    <3>1. << >> \in Seq(Message) /\ empty.messages = << >>
        OBVIOUS
    <3> HIDE DEF empty
    <3> QED BY <1>1, <2>2, <3>1, LogTypes
  <2>4. PICK i \in DOMAIN REGISTERED_GATEWAYS'[g].messages_queue :
            LET m == REGISTERED_GATEWAYS'[g].messages_queue[i]
            IN  /\ m.client_key = k /\ m.content = OpenMessage /\ m.timestamp = time
      BY <1>5, <2>1, <2>2, <2>3, AddedToQueue
  <2>5. /\ OpenMessage.kind = "OpenMessage"
        /\ executing = "idle" /\ executing' = "idle" /\ time' = time
        /\ ACK_TIMER' = ACK_TIMER
      BY <1>5 DEF OpenMessage, ws_open, idle, loop_vars, timer_vars
  <2>6. acknowledges(REGISTERED_GATEWAYS[g].messages_queue[i], k)'
      BY <1>3, <1>4, <2>4, <2>5 DEF acknowledges
  <2> QED BY <1>5, <2>4, <2>6 DEF IsAcknowledged
<1>6. ASSUME k \in DOMAIN REGISTERED_CLIENTS, gateway_of(k)' = gateway_of(k),
             executing = "send_ack", send_ack(k)
      PROVE  IsAcknowledged(k)'
  <2> DEFINE g == gateway_of(k)
             n == INCOMING_MESSAGE_FROM_CLIENT_NUM_MAP[k] - 1
  <2>1. ws_send(k, AckMessage(n)) /\ executing' = "send_ack" /\ time' = time
      BY <1>6 DEF send_ack, next_iteration
  <2>2. AckMessage(n) \in Content
    <3>1. n \in Nat
        BY <1>1, <1>6 DEF StateInv, RegistryConsistent, MapsOK, MapInto
    <3> HIDE DEF n
    <3> QED BY <3>1, ContentOK
  <2>3. k \in ClientKey /\ g \in DOMAIN REGISTERED_GATEWAYS
      BY <1>1, <1>6, GatewayOfClient
  <2>4. key_of(k.client_principal, k.client_nonce) = k
      BY <2>3 DEF key_of, ClientKey
  <2>5. /\ Logs' \in with_content(k, AckMessage(n))
        /\ g \in DOMAIN Logs /\ Logs[g].messages \in Seq(Message)
      BY <1>1, <1>6, <2>1, <2>2, <2>3, SendLogs, LogTypes
  <2>6. AckMessage(n).kind = "AckMessage"
      BY DEF AckMessage
  <2> HIDE DEF n
  <2>7. PICK i \in DOMAIN REGISTERED_GATEWAYS'[g].messages_queue :
            LET m == REGISTERED_GATEWAYS'[g].messages_queue[i]
            IN  /\ m.client_key = k /\ m.content = AckMessage(n) /\ m.timestamp = time
      BY <2>4, <2>5, AddedToQueue DEF with_content
  <2>8. acknowledges(REGISTERED_GATEWAYS[g].messages_queue[i], k)'
      BY <1>4, <1>6, <2>1, <2>6, <2>7 DEF acknowledges
  <2> QED BY <1>6, <2>7, <2>8 DEF IsAcknowledged
<1>7. ASSUME k \in DOMAIN REGISTERED_CLIENTS, gateway_of(k)' = gateway_of(k),
             IsAcknowledged(k)
      PROVE  IsAcknowledged(k)' \/ (executing' = "send_ack" /\ k \in client_keys')
  <2> DEFINE g == gateway_of(k)
             queue == REGISTERED_GATEWAYS[g].messages_queue
  <2>1. PICK i \in DOMAIN queue : acknowledges(queue[i], k)
      BY <1>7 DEF IsAcknowledged
  <2> DEFINE m == queue[i]
  <2>2. g \in DOMAIN REGISTERED_GATEWAYS /\ m \in Range(queue) /\ m.timestamp \in Nat
    <3>1. g \in DOMAIN REGISTERED_GATEWAYS /\ queue \in Seq(Message)
        BY <1>1, <1>7, GatewayOfClient DEF GatewaysOK, MapInto, GatewayRecord
    <3>2. m \in Message
        BY <2>1, <3>1
    <3> QED BY <2>1, <3>1, <3>2 DEF Message, Range
  <2>3. /\ m.client_key = k /\ m.content.kind \in {"OpenMessage", "AckMessage"}
        /\ executing = "send_ack" => time <= m.timestamp
        /\ executing # "send_ack" =>
               ACK_TIMER.deadline <= m.timestamp + PARAMS.send_ack_interval
      BY <2>1 DEF acknowledges
  <2>4. is_young(m)
    <3> HIDE DEF m
    <3>1. time <= m.timestamp + PARAMS.send_ack_interval
        BY <1>4, <2>2, <2>3
    <3> QED BY <1>4, <2>2, <3>1 DEF is_young
  <2>5. ~forgets_everything
    <3>1. ASSUME wipe_end PROVE FALSE
      <4>1. REGISTERED_CLIENTS' = REGISTERED_CLIENTS /\ DOMAIN REGISTERED_CLIENTS = {}
          BY <1>1, <3>1 DEF wipe_end, end_loop, Inv, ControlInv, LoopKeysAreRegistered
      <4> QED BY <4>1
    <3> QED BY <3>1, UpgradeForgets DEF forgets_everything
  <2>6. m \in Range(REGISTERED_GATEWAYS'[g].messages_queue)
      BY <2>2, <2>4, <2>5, StepKeepsYoungMessages DEF YoungMessagesKept
  <2>7. PICK j \in DOMAIN REGISTERED_GATEWAYS'[g].messages_queue :
            m = REGISTERED_GATEWAYS'[g].messages_queue[j]
      BY <2>6 DEF Range
  <2> HIDE DEF m
  <2>8. ASSUME executing' = "send_ack" => executing = "send_ack" /\ time' = time
        PROVE  acknowledges(REGISTERED_GATEWAYS[g].messages_queue[j], k)'
    <3>1. REGISTERED_GATEWAYS'[gateway_of(k)'].messages_queue[j] = m
        BY <1>7, <2>7
    <3>2. IF executing' = "send_ack"
          THEN time' <= m.timestamp
          ELSE ACK_TIMER'.deadline <= m.timestamp + PARAMS'.send_ack_interval
        BY <1>3, <1>4, <2>2, <2>3, <2>8
    <3> QED BY <2>3, <3>1, <3>2 DEF acknowledges
  <2> QED BY <1>2, <1>3, <1>7, <2>7, <2>8 DEF IsAcknowledged
<1>8. ASSUME k \in DOMAIN REGISTERED_CLIENTS, executing = "send_ack", k \in client_keys
      PROVE  send_ack(k) \/ (executing' = "send_ack" /\ k \in client_keys')
    BY <1>8, AckLoopStep
<1> QED BY <1>1, <1>2, <1>5, <1>6, <1>7, <1>8, ClientsOfStep DEF AckedInv

----------------------------------------------------------------------------

\* All that these proofs know of a state.
CdkInv == ServiceInv /\ DeadlineInv /\ CertInv /\ StreamInv

LEMMA CdkAtStart == Init => CdkInv
<1> SUFFICES ASSUME Init PROVE CdkInv
    OBVIOUS
<1>1. Inv
    BY InvAtStart
<1>2. TimerInv /\ DeadlineInv /\ CheckInv
    BY TimersAtStart
<1>3. AskedInv /\ RetiredInv /\ QueuesInOrder
    BY Empty DEF Init, AskedInv, RetiredInv, QueuesInOrder
<1>4. CertInv
    BY Empty DEF Init, CertInv, Matches, Waiting
<1>5. StreamInv
  <2>1. DOMAIN Sessions = {} /\ DOMAIN Logs = {}
      BY Empty DEF Init, Sessions, Logs, logs_of
  <2> QED BY <2>1 DEF StreamInv
<1> QED BY <1>1, <1>2, <1>3, <1>4, <1>5 DEF CdkInv, ServiceInv

LEMMA CdkInductive ==
    ASSUME CdkInv, [Next]_vars
    PROVE  CdkInv'
<1> USE DEF CdkInv, ServiceInv
<1>1. Inv' /\ TimerInv' /\ DeadlineInv' /\ CheckInv'
    BY InvInductive, TimerInductive, DeadlineInductive, CheckInductive
<1>2. AskedInv' /\ RetiredInv' /\ QueuesInOrder'
    BY AskedInductive, RetiredInductive, OrderInductive
<1>3. CertInv' /\ StreamInv'
    BY CertInductive, StreamInductive
<1> QED BY <1>1, <1>2, <1>3
=============================================================================
