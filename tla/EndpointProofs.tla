--------------------------- MODULE EndpointProofs ---------------------------
(***************************************************************************)
(* Theorems about what the endpoints and functions of the CDK answer: Ok   *)
(* or an error, and the messages and the certificate of a poll.            *)
(***************************************************************************)
EXTENDS QueueProofs, WsReplies

----------------------------------------------------------------------------
(***************************************************************************)
(* Ok or an error: consequences of the agreement of the maps of clients.   *)
(***************************************************************************)

LEMMA FirstError ==
    /\ \A a, b : a ++ b = IF a = Ok THEN b ELSE a
    /\ \A condition, error : check(condition, error) = IF condition THEN Ok ELSE error
BY DEF ++, check

\* Every check of every call that the holder of a session makes, or that is made for
\* it, passes.
LEMMA HoldersAreServed == StateInv => SessionsAreServed
<1> SUFFICES ASSUME StateInv, NEW k \in DOMAIN REGISTERED_CLIENTS
             PROVE  LET p == k.client_principal
                        n == INCOMING_MESSAGE_FROM_CLIENT_NUM_MAP[k]
                    IN  /\ \A content \in IncomingContent :
                               ws_message_reply(p, k, n, content)
                                   = next_message_reply(content)
                        /\ send_reply(p) = Ok /\ close_reply(p) = Ok
                        /\ get_expected_incoming_message_from_client_num(k) = Ok
                        /\ ws_close_reply(gateway_of(k), k) = Ok
    BY DEF SessionsAreServed
<1> DEFINE p == k.client_principal
           n == INCOMING_MESSAGE_FROM_CLIENT_NUM_MAP[k]
<1>1. /\ p \in DOMAIN CURRENT_CLIENT_KEY_MAP /\ CURRENT_CLIENT_KEY_MAP[p] = k
      /\ k \in DOMAIN OUTGOING_MESSAGE_TO_CLIENT_NUM_MAP
      /\ k \in DOMAIN INCOMING_MESSAGE_FROM_CLIENT_NUM_MAP
      /\ gateway_of(k) \in DOMAIN REGISTERED_GATEWAYS
    BY DEF StateInv, RegistryConsistent, GatewayCounts
<1>2. /\ get_client_key_from_principal(p) = Ok
      /\ check_registered_client_exists(k) = Ok
      /\ check_is_gateway_registered(gateway_of(k)) = Ok
      /\ check_client_registered_to_gateway(k, gateway_of(k)) = Ok
      /\ get_outgoing_message_to_client_num(k) = Ok
      /\ get_expected_incoming_message_from_client_num(k) = Ok
    BY <1>1, FirstError
       DEF get_client_key_from_principal, check_registered_client_exists,
           check_is_gateway_registered, check_client_registered_to_gateway,
           get_outgoing_message_to_client_num,
           get_expected_incoming_message_from_client_num
<1>3. ASSUME NEW content \in IncomingContent
      PROVE  ws_message_reply(p, k, n, content) = next_message_reply(content)
  <2>1. ws_message_reply(p, k, n, content) =
            IF content = "application" THEN Ok
            ELSE handle_received_service_message(content)
      BY <1>1, <1>2, FirstError DEF ws_message_reply
  <2>2. handle_received_service_message(content) =
            IF content = "undecodable" THEN "DecodeServiceMessageContent"
            ELSE IF content = "KeepAliveMessage" THEN Ok ELSE "InvalidServiceMessage"
      BY FirstError DEF handle_received_service_message, Ok
  <2> QED BY <2>1, <2>2 DEF next_message_reply, IncomingContent, Ok
<1>4. send_reply(p) = Ok /\ close_reply(p) = Ok
    BY <1>1, <1>2, FirstError DEF send_reply, close_reply, _ws_send
<1>5. ws_close_reply(gateway_of(k), k) = Ok
    BY <1>2, FirstError DEF ws_close_reply
<1> QED BY <1>2, <1>3, <1>4, <1>5

\* The error of every other call is that of the check that is meant to refuse it.
LEMMA OthersAreRefused == StateInv => OldSessionsAreRefused
<1> SUFFICES ASSUME StateInv, NEW k \in ClientKey
             PROVE  LET p == k.client_principal
                    IN  /\ k \notin DOMAIN REGISTERED_CLIENTS =>
                               \A n \in 1..MaxIncoming + 1, content \in IncomingContent :
                                   ws_message_reply(p, k, n, content) =
                                       IF current_keys(p) = {}
                                       THEN "ClientPrincipalNotConnected"
                                       ELSE "ClientKeyMessageMismatch"
                        /\ \A g \in Gateway : ws_close_reply(g, k) = Ok <=> k \in clients_of(g)
                        /\ ws_open_reply(p, k.client_nonce) = Ok
                               <=> p # Anonymous /\ k \notin DOMAIN REGISTERED_CLIENTS
    BY DEF OldSessionsAreRefused
<1> DEFINE p == k.client_principal
<1>1. ASSUME k \notin DOMAIN REGISTERED_CLIENTS, NEW n, NEW content
      PROVE  ws_message_reply(p, k, n, content) =
                 IF current_keys(p) = {} THEN "ClientPrincipalNotConnected"
                 ELSE "ClientKeyMessageMismatch"
  <2>1. CASE p \notin DOMAIN CURRENT_CLIENT_KEY_MAP
    <3>1. get_client_key_from_principal(p) = "ClientPrincipalNotConnected"
        BY <2>1, FirstError DEF get_client_key_from_principal
    <3>2. current_keys(p) = {}
        BY <2>1 DEF current_keys
    <3> QED BY <3>1, <3>2, FirstError DEF ws_message_reply, Ok
  <2>2. CASE p \in DOMAIN CURRENT_CLIENT_KEY_MAP
    <3>1. get_client_key_from_principal(p) = Ok /\ current_keys(p) # {}
        BY <2>2, FirstError DEF get_client_key_from_principal, current_keys
    <3>2. k # CURRENT_CLIENT_KEY_MAP[p]
        BY <1>1, <2>2 DEF StateInv, RegistryConsistent
    <3>3. check(k = CURRENT_CLIENT_KEY_MAP[p], "ClientKeyMessageMismatch")
              = "ClientKeyMessageMismatch"
        BY <3>2, FirstError
    <3> QED BY <3>1, <3>3, FirstError DEF ws_message_reply, Ok
  <2> QED BY <2>1, <2>2
<1>2. ASSUME NEW g \in Gateway
      PROVE  ws_close_reply(g, k) = Ok <=> k \in clients_of(g)
  <2>1. k \in clients_of(g) =>
            /\ k \in DOMAIN REGISTERED_CLIENTS /\ gateway_of(k) = g
            /\ g \in DOMAIN REGISTERED_GATEWAYS
      BY DEF clients_of, StateInv, GatewayCounts
  <2>2. ws_close_reply(g, k) = Ok <=>
            /\ g \in DOMAIN REGISTERED_GATEWAYS
            /\ k \in DOMAIN REGISTERED_CLIENTS /\ gateway_of(k) = g
      BY FirstError DEF ws_close_reply, check_is_gateway_registered, Ok,
             check_registered_client_exists, check_client_registered_to_gateway
  <2> QED BY <2>1, <2>2 DEF clients_of
<1>3. ws_open_reply(p, k.client_nonce) = Ok
          <=> p # Anonymous /\ k \notin DOMAIN REGISTERED_CLIENTS
  <2>1. [client_principal |-> p, client_nonce |-> k.client_nonce] = k
      BY DEF ClientKey
  <2>2. check_registered_client_exists(k) # Ok <=> k \notin DOMAIN REGISTERED_CLIENTS
      BY FirstError DEF check_registered_client_exists, Ok
  <2> QED BY <2>1, <2>2, FirstError DEF ws_open_reply, Ok
<1> QED BY <1>1, <1>2, <1>3

\* A message of a client with a session, and with the expected number, is refused for
\* its content only, and nothing else that is done with a session is refused; a send
\* never fails half way (timers.rs:79, :100).  For any number of sessions.
THEOREM HoldersOfSessionsAreServed == Spec => []SessionsAreServed
<1>1. Inv => SessionsAreServed
    BY HoldersAreServed DEF Inv
<1> QED BY <1>1, Invariant, PTL

\* The key of a session that has ended is refused, whichever sessions came after it,
\* and a gateway closes its own clients only.
THEOREM NobodyElseIsServed == Spec => []OldSessionsAreRefused
<1>1. Inv => OldSessionsAreRefused
    BY OthersAreRefused DEF Inv
<1> QED BY <1>1, Invariant, PTL

----------------------------------------------------------------------------
(***************************************************************************)
(* Polls: consequences of the order of the queues.                         *)
(***************************************************************************)

\* The nonce of the message at place i of the queue of gateway g.
nonce_at(gw, i) == gw.outgoing_message_nonce - Len(gw.messages_queue) + i - 1

LEMMA NonceAt ==
    ASSUME Inv, QueuesInOrder, NEW g \in DOMAIN REGISTERED_GATEWAYS
    PROVE  LET gw == REGISTERED_GATEWAYS[g]
           IN  /\ gw.messages_queue \in Seq(Message)
               /\ Len(gw.messages_queue) \in Nat
               /\ gw.outgoing_message_nonce \in Nat
               /\ \A i \in 1..Len(gw.messages_queue) :
                      gw.messages_queue[i].key = <<g, nonce_at(gw, i)>>
BY DEF Inv, StateInv, MapsOK, GatewaysOK, MapInto, GatewayRecord, QueuesInOrder,
       QueueInOrder, nonce_at

LEMMA NoncesRise ==
    ASSUME NEW gw, Len(gw.messages_queue) \in Nat, gw.outgoing_message_nonce \in Nat
    PROVE  /\ \A i \in Int : nonce_at(gw, i) \in Int
           /\ \A i, j \in Int : i < j <=> nonce_at(gw, i) < nonce_at(gw, j)
<1> DEFINE first == gw.outgoing_message_nonce - Len(gw.messages_queue)
<1>1. first \in Int /\ \A i \in Int : nonce_at(gw, i) = first + i - 1
    BY DEF nonce_at
<1> HIDE DEF first
<1>2. \A i \in Int : nonce_at(gw, i) \in Int
    BY <1>1
<1>3. ASSUME NEW i \in Int, NEW j \in Int
      PROVE  i < j <=> nonce_at(gw, i) < nonce_at(gw, j)
  <2>1. nonce_at(gw, i) = first + i - 1 /\ nonce_at(gw, j) = first + j - 1
      BY <1>1
  <2> QED BY <1>1, <2>1
<1> QED BY <1>2, <1>3

\* The partition point: the nonces before it are smaller than the one asked for.
LEMMA StartIndex ==
    ASSUME NEW gw, NEW g, NEW nonce \in Nat,
           Len(gw.messages_queue) \in Nat, gw.outgoing_message_nonce \in Nat,
           \A i \in 1..Len(gw.messages_queue) :
               gw.messages_queue[i].key = <<g, nonce_at(gw, i)>>
    PROVE  LET s == start_index(gw, nonce)
           IN  /\ s \in 0..Len(gw.messages_queue)
               /\ \A i \in 1..s : nonce_at(gw, i) < nonce
               /\ \A i \in s + 1..Len(gw.messages_queue) : nonce_at(gw, i) >= nonce
<1> DEFINE queue == gw.messages_queue
           len == Len(queue)
           first == gw.outgoing_message_nonce - len
           P(s) == /\ \A i \in 1..s : queue[i].key[2] < nonce
                   /\ \A i \in s + 1..len : queue[i].key[2] >= nonce
<1>1. \A i \in 1..len : queue[i].key[2] = first + i - 1 /\ nonce_at(gw, i) = first + i - 1
    BY DEF nonce_at
<1>2. first \in Int /\ len \in Nat
    OBVIOUS
<1>3. start_index(gw, nonce) = CHOOSE s \in 0..len : P(s)
    BY DEF start_index
<1> HIDE DEF queue, len, first
<1>4. \E s \in 0..len : P(s)
  <2>1. CASE nonce <= first
    <3>1. 0 \in 0..len /\ P(0)
        BY <1>1, <1>2, <2>1
    <3> QED BY <3>1
  <2>2. CASE first < nonce /\ nonce <= first + len
    <3>1. nonce - first \in 0..len /\ P(nonce - first)
        BY <1>1, <1>2, <2>2
    <3> QED BY <3>1
  <2>3. CASE first + len < nonce
    <3>1. len \in 0..len /\ P(len)
        BY <1>1, <1>2, <2>3
    <3> QED BY <3>1
  <2> QED BY <1>2, <2>1, <2>2, <2>3
<1>5. PICK s \in 0..len : s = start_index(gw, nonce) /\ P(s)
    BY <1>3, <1>4
<1>6. \A i : (i \in 1..s \/ i \in s + 1..len) => i \in 1..len
    BY <1>2
<1> QED BY <1>1, <1>5, <1>6 DEF queue, len

\* The reply to a poll is the part of the queue after its first s messages up to
\* number e, with the certificate of that part.
IsSlice(reply, g, nonce, s, e) ==
    LET gw    == REGISTERED_GATEWAYS[g]
        max   == PARAMS.max_number_of_returned_messages
        queue == gw.messages_queue
    IN  /\ s \in 0..Len(queue) /\ e \in s..Len(queue)
        /\ \A i \in 1..s : nonce_at(gw, i) < nonce
        /\ \A i \in s + 1..Len(queue) : nonce_at(gw, i) >= nonce
        /\ e <= s + max
        /\ Len(reply.messages) = e - s
        /\ DOMAIN reply.messages = 1..e - s
        /\ reply.messages = << >> <=> e = s
        /\ e = Len(queue) \/ e = s + max
        /\ \A i \in 1..e - s : reply.messages[i] = queue[s + i]
        /\ max > 0 => (reply.is_end_of_queue <=> e = Len(queue))
        /\ reply.tree = IF e = s THEN EmptyMap
                        ELSE get_cert_for_range(g, nonce_at(gw, s + 1), nonce_at(gw, e))

LEMMA PollIsASlice ==
    ASSUME Inv, QueuesInOrder, NEW g \in DOMAIN REGISTERED_GATEWAYS, NEW nonce \in Nat
    PROVE  \E s, e : IsSlice(ws_get_messages(g, nonce), g, nonce, s, e)
<1> DEFINE gw    == REGISTERED_GATEWAYS[g]
           max   == PARAMS.max_number_of_returned_messages
           queue == gw.messages_queue
           len   == Len(queue)
           reply == ws_get_messages(g, nonce)
           s     == start_index(gw, nonce)
           e     == end_index(gw, nonce, max)
           slice == SubSeq(queue, s + 1, e)
<1>1. /\ queue \in Seq(Message) /\ len \in Nat /\ max \in Nat
      /\ \A i \in 1..len : queue[i].key = <<g, nonce_at(gw, i)>>
  <2>1. max \in Nat
      BY InitParamsAssumption DEF Inv, ControlInv, InitParamsAssumption
  <2> QED BY <2>1, NonceAt
<1>2. /\ s \in 0..len
      /\ \A i \in 1..s : nonce_at(gw, i) < nonce
      /\ \A i \in s + 1..len : nonce_at(gw, i) >= nonce
    BY NonceAt, StartIndex
<1>3. /\ e = IF len - s > max THEN s + max ELSE len
      /\ is_end_of_queue(gw, nonce, max) <=> ~(len - s > max)
      /\ get_messages_for_gateway(gw, nonce, max) = slice
    BY DEF end_index, is_end_of_queue, get_messages_for_gateway
<1>4. reply = IF slice = << >> THEN empty_reply
              ELSE [messages |-> slice,
                    tree |-> get_cert_for_range(g, slice[1].key[2],
                                                slice[Len(slice)].key[2]),
                    is_end_of_queue |-> is_end_of_queue(gw, nonce, max)]
    BY <1>3 DEF ws_get_messages, get_cert_messages
<1> HIDE DEF s, e, reply, len
<1>5. e \in s..len /\ e <= s + max /\ (e = len \/ e = s + max)
    BY <1>1, <1>2, <1>3
<1>6. /\ slice \in Seq(Message) /\ Len(slice) = e - s
      /\ \A i \in 1..e - s : slice[i] = queue[s + i]
  <2>1. /\ s + 1 \in Int /\ e \in Int
        /\ \A i \in s + 1..e : queue[i] \in Message
        /\ IF s + 1 <= e THEN e - (s + 1) + 1 = e - s ELSE 0 = e - s
        /\ e - (s + 1) + 1 = e - s
        /\ \A i \in 1..e - s : (s + 1) + i - 1 = s + i
    <3>1. \A i \in s + 1..e : i \in 1..len
        BY <1>1, <1>2, <1>5
    <3> QED BY <1>1, <1>2, <1>5, <3>1, ElementOfSeq DEF len
  <2> QED BY <2>1, SubSeqProperties
<1> HIDE DEF slice
<1>7. reply.messages = slice
    BY <1>4 DEF empty_reply
<1>8. slice = << >> <=> e = s
  <2>1. slice = << >> <=> Len(slice) = 0
      BY <1>6, EmptySeq
  <2>2. e - s = 0 <=> e = s
      BY <1>1, <1>2, <1>5
  <2> QED BY <1>6, <2>1, <2>2
<1>9. max > 0 => (reply.is_end_of_queue <=> e = len)
  <2>1. CASE e = s
    <3>1. reply.is_end_of_queue = TRUE
        BY <1>4, <1>8, <2>1 DEF empty_reply
    <3> QED BY <1>1, <1>2, <1>3, <2>1, <3>1
  <2>2. CASE e # s
    <3>1. reply.is_end_of_queue = is_end_of_queue(gw, nonce, max)
        BY <1>4, <1>8, <2>2
    <3> QED BY <1>1, <1>2, <1>3, <2>2, <3>1
  <2> QED BY <2>1, <2>2
<1>10. reply.tree = IF e = s THEN EmptyMap
                    ELSE get_cert_for_range(g, nonce_at(gw, s + 1), nonce_at(gw, e))
  <2>1. CASE e = s
      BY <1>4, <1>8, <2>1 DEF empty_reply
  <2>2. CASE e # s
    <3>1. /\ 1 \in 1..e - s /\ e - s \in 1..e - s /\ s + (e - s) = e
          /\ s + 1 \in 1..len /\ e \in 1..len
        BY <1>1, <1>2, <1>5, <2>2
    <3>2. /\ slice[1].key[2] = nonce_at(gw, s + 1)
          /\ slice[Len(slice)].key[2] = nonce_at(gw, e)
        BY <1>1, <1>6, <3>1
    <3> QED BY <1>4, <1>8, <2>2, <3>2
  <2> QED BY <2>1, <2>2
<1>11. DOMAIN reply.messages = 1..e - s
    BY <1>6, <1>7
<1>12. IsSlice(reply, g, nonce, s, e)
    BY <1>2, <1>5, <1>6, <1>7, <1>8, <1>9, <1>10, <1>11 DEF IsSlice, len
<1> QED BY <1>12 DEF reply

\* The elements of a sequence at some places.
elements(seq, places) == {seq[i] : i \in places}

LEMMA SliceImage ==
    ASSUME NEW a, NEW b, NEW s \in Int, NEW e \in Int,
           \A i \in 1..e - s : a[i] = b[s + i]
    PROVE  elements(a, 1..e - s) = elements(b, s + 1..e)
<1>1. /\ \A i \in 1..e - s : s + i \in s + 1..e
      /\ \A i \in s + 1..e : i - s \in 1..e - s /\ s + (i - s) = i
    OBVIOUS
<1>2. \A x \in elements(a, 1..e - s) : x \in elements(b, s + 1..e)
    BY <1>1 DEF elements
<1>3. \A x \in elements(b, s + 1..e) : x \in elements(a, 1..e - s)
  <2> SUFFICES ASSUME NEW i \in s + 1..e
               PROVE  b[i] \in elements(a, 1..e - s)
      BY DEF elements
  <2>1. b[i] = a[i - s] /\ i - s \in 1..e - s
      BY <1>1
  <2> QED BY <2>1 DEF elements
<1> QED BY <1>2, <1>3

LEMMA PollArguments ==
    ASSUME Inv, QueuesInOrder, NEW poll \in polls
    PROVE  poll[1] \in DOMAIN REGISTERED_GATEWAYS /\ poll[2] \in Nat
<1>1. PICK g \in DOMAIN REGISTERED_GATEWAYS :
          poll \in {<<g, nonce>> : nonce \in 0..REGISTERED_GATEWAYS[g].outgoing_message_nonce + 1}
    BY DEF polls
<1>2. REGISTERED_GATEWAYS[g].outgoing_message_nonce \in Nat
    BY NonceAt
<1> QED BY <1>1, <1>2

\* What has still to be polled is the queue from the partition point on, and the
\* nonces rise along it.
LEMMA PollReturnsThePending ==
    ASSUME Inv, QueuesInOrder, NEW poll \in polls,
           PARAMS.max_number_of_returned_messages > 0
    PROVE  LET reply == ws_get_messages(poll[1], poll[2])
               got   == Range(reply.messages)
               all   == pending(poll[1], poll[2])
           IN  /\ got \subseteq all
               /\ \A m \in got, n \in all : n.key[2] < m.key[2] => n \in got
               /\ \A i, j \in DOMAIN reply.messages :
                      i < j => reply.messages[i].key[2] < reply.messages[j].key[2]
               /\ Len(reply.messages) <= PARAMS.max_number_of_returned_messages
               /\ got = all \/ Len(reply.messages) = PARAMS.max_number_of_returned_messages
               /\ reply.is_end_of_queue <=> got = all
<1> DEFINE g     == poll[1]
           nonce == poll[2]
           gw    == REGISTERED_GATEWAYS[g]
           max   == PARAMS.max_number_of_returned_messages
           queue == gw.messages_queue
           len   == Len(queue)
           reply == ws_get_messages(g, nonce)
           got   == Range(reply.messages)
           all   == pending(g, nonce)
<1>1. g \in DOMAIN REGISTERED_GATEWAYS /\ nonce \in Nat
    BY PollArguments
<1>2. /\ DOMAIN queue = 1..len /\ len \in Nat /\ max \in Nat
      /\ gw.outgoing_message_nonce \in Nat
      /\ \A i \in 1..len : queue[i].key = <<g, nonce_at(gw, i)>>
  <2>1. max \in Nat
      BY InitParamsAssumption DEF Inv, ControlInv, InitParamsAssumption
  <2> QED BY <1>1, <2>1, NonceAt
<1>3. PICK s, e : IsSlice(reply, g, nonce, s, e)
    BY <1>1, PollIsASlice
<1>4. /\ s \in 0..len /\ e \in s..len
      /\ \A i \in 1..s : nonce_at(gw, i) < nonce
      /\ \A i \in s + 1..len : nonce_at(gw, i) >= nonce
      /\ e <= s + max
      /\ Len(reply.messages) = e - s
      /\ e = len \/ e = s + max
      /\ \A i \in 1..e - s : reply.messages[i] = queue[s + i]
      /\ DOMAIN reply.messages = 1..e - s
      /\ reply.is_end_of_queue <=> e = len
    BY <1>3 DEF IsSlice
<1>. s \in 0..len /\ e \in s..len
    BY <1>4
<1>5a. /\ \A i \in Int : nonce_at(gw, i) \in Int
       /\ \A i, j \in Int : i < j <=> nonce_at(gw, i) < nonce_at(gw, j)
    BY <1>2, NoncesRise
<1>5. /\ \A i, j \in 1..len : i < j <=> queue[i].key[2] < queue[j].key[2]
      /\ \A i \in 1..len : queue[i].key[2] >= nonce <=> i \in s + 1..len
  <2>1. /\ \A i \in 1..len : queue[i].key[2] = nonce_at(gw, i)
        /\ \A i \in 1..len : nonce_at(gw, i) \in Int
    <3>1. \A i \in 1..len : queue[i].key[2] = nonce_at(gw, i)
        BY <1>2
    <3> HIDE DEF nonce, gw, queue, len
    <3> QED BY <1>5a, <3>1
  <2>2. \A i, j \in 1..len : i < j <=> nonce_at(gw, i) < nonce_at(gw, j)
    <3> HIDE DEF nonce, gw, queue, len
    <3> QED BY <1>5a
  <2>3. \A i \in 1..len : nonce_at(gw, i) >= nonce <=> i \in s + 1..len
    <3>1. \A i \in 1..len : i \in 1..s \/ i \in s + 1..len
        BY <1>2
    <3>2. /\ \A i \in 1..s : nonce_at(gw, i) < nonce
          /\ \A i \in s + 1..len : nonce_at(gw, i) >= nonce
        BY <1>4
    <3> HIDE DEF nonce, gw, queue, len
    <3> QED BY <1>1, <2>1, <3>1, <3>2
  <2> HIDE DEF nonce, gw, queue, len
  <2> QED BY <2>1, <2>2, <2>3
<1>6. /\ got = elements(queue, s + 1..e)
      /\ all = elements(queue, s + 1..len)
  <2>1. got = elements(queue, s + 1..e)
    <3>1. got = elements(reply.messages, 1..e - s)
        BY <1>4 DEF Range, elements
    <3>2. s \in Int /\ e \in Int /\ \A i \in 1..e - s : reply.messages[i] = queue[s + i]
        BY <1>2, <1>4
    <3>3. elements(reply.messages, 1..e - s) = elements(queue, s + 1..e)
      <4> DEFINE slice == reply.messages
      <4> HIDE DEF slice, reply, queue, len, max, nonce, gw
      <4> s \in Int /\ e \in Int
          BY <3>2
      <4>1. \A i \in 1..e - s : slice[i] = queue[s + i]
          BY <3>2 DEF slice
      <4>2. elements(slice, 1..e - s) = elements(queue, s + 1..e)
          BY <4>1, SliceImage
      <4> QED BY <4>2 DEF slice
    <3> QED BY <3>1, <3>3
  <2>2. all = {queue[i] : i \in {j \in 1..len : queue[j].key[2] >= nonce}}
      BY <1>2 DEF pending, Range
  <2>3. \A i \in s + 1..len : i \in 1..len
      BY <1>2
  <2> HIDE DEF got, all, reply, queue, nonce, len
  <2>4. all = elements(queue, s + 1..len)
      BY <1>5, <2>2, <2>3 DEF elements
  <2> QED BY <2>1, <2>4
<1> HIDE DEF got, all, reply, queue, len, max
<1> USE DEF elements
<1>7. \A i \in s + 1..e : i \in s + 1..len
    BY <1>2
<1>8. \A i \in s + 1..len : i \in 1..len
    BY <1>2
<1>9. got \subseteq all
    BY <1>6, <1>7
<1>10. ASSUME NEW m \in got, NEW n \in all, n.key[2] < m.key[2]
       PROVE  n \in got
  <2>1. PICK i \in s + 1..e : m = queue[i]
      BY <1>6
  <2>2. PICK j \in s + 1..len : n = queue[j]
      BY <1>6
  <2>3. j < i
      BY <1>5, <1>7, <1>8, <1>10, <2>1, <2>2
  <2>4. j \in s + 1..e
      BY <1>2, <2>3
  <2> QED BY <1>6, <2>2, <2>4
<1>11. ASSUME NEW i \in DOMAIN reply.messages, NEW j \in DOMAIN reply.messages, i < j
       PROVE  reply.messages[i].key[2] < reply.messages[j].key[2]
  <2>1. /\ s + i \in 1..len /\ s + j \in 1..len /\ s + i < s + j
        /\ i \in 1..e - s /\ j \in 1..e - s
      BY <1>2, <1>4, <1>11
  <2>2. /\ reply.messages[i] = queue[s + i]
        /\ reply.messages[j] = queue[s + j]
      BY <1>4, <2>1
  <2> QED BY <1>5, <2>1, <2>2
<1>12. Len(reply.messages) <= max
    BY <1>2, <1>4
<1>13. reply.is_end_of_queue <=> got = all
  <2>1. ASSUME e # len
        PROVE  got # all
    <3>1. len \in s + 1..len /\ len \in 1..len /\ \A i \in s + 1..e : i < len
        BY <1>2, <2>1
    <3>2. \A i \in s + 1..e : queue[i].key[2] < queue[len].key[2]
        BY <1>5, <1>7, <1>8, <3>1
    <3>3. queue[len].key[2] \in Int
      <4>1. queue[len].key[2] = nonce_at(gw, len)
          BY <1>2, <3>1
      <4>2. nonce_at(gw, len) \in Int
          BY <1>2, <1>5a
      <4> QED BY <4>1, <4>2
    <3>4. \A i \in s + 1..e : queue[i] # queue[len]
        BY <3>2, <3>3
    <3>5. queue[len] \in all /\ queue[len] \notin got
        BY <1>6, <3>1, <3>4
    <3> QED BY <3>5
  <2> QED BY <1>4, <1>6, <2>1
<1>14. got = all \/ Len(reply.messages) = max
  <2>1. CASE e = len
      BY <1>6, <2>1
  <2>2. CASE e = s + max
      BY <1>2, <1>4, <2>2
  <2> QED BY <1>4, <2>1, <2>2
<1> QED BY <1>9, <1>10, <1>11, <1>12, <1>13, <1>14 DEF got, all, reply, max

\* A poll returns the pending messages in order and without a gap, and its flag says
\* whether any is left, for queues of any length and any maximum but 0 (with which
\* the flag is wrong: EndOfQueueIsReached).
THEOREM PollsAreExact ==
    Spec => [](PARAMS.max_number_of_returned_messages > 0 => PollIsExact)
<1>1. Inv /\ QueuesInOrder =>
          (PARAMS.max_number_of_returned_messages > 0 => PollIsExact)
    BY PollReturnsThePending DEF PollIsExact
<1> QED BY <1>1, Invariant, QueuesStayInOrder, PTL

\* The witness reveals the keys of the slice and no other: those between its first and
\* its last are the nonces between them.
LEMMA PollRevealsTheSlice ==
    ASSUME Inv, QueuesInOrder, CertInv, NEW poll \in polls
    PROVE  LET reply == ws_get_messages(poll[1], poll[2])
           IN  /\ DOMAIN reply.tree = {m.key : m \in Range(reply.messages)}
               /\ \A m \in Range(reply.messages) : reply.tree[m.key] = m
               /\ reply.messages # << >> => certified_data = CERT_TREE
<1> DEFINE g     == poll[1]
           nonce == poll[2]
           gw    == REGISTERED_GATEWAYS[g]
           queue == gw.messages_queue
           len   == Len(queue)
           reply == ws_get_messages(g, nonce)
<1>1. g \in DOMAIN REGISTERED_GATEWAYS /\ nonce \in Nat
    BY PollArguments
<1>2. /\ len \in Nat /\ gw.outgoing_message_nonce \in Nat
      /\ \A i \in 1..len : queue[i].key = <<g, nonce_at(gw, i)>>
    BY <1>1, NonceAt
<1>3. PICK s, e : IsSlice(reply, g, nonce, s, e)
    BY <1>1, PollIsASlice
<1>4. /\ s \in 0..len /\ e \in s..len
      /\ \A i \in 1..e - s : reply.messages[i] = queue[s + i]
      /\ DOMAIN reply.messages = 1..e - s
      /\ reply.messages = << >> <=> e = s
      /\ reply.tree = IF e = s THEN EmptyMap
                      ELSE get_cert_for_range(g, nonce_at(gw, s + 1), nonce_at(gw, e))
    BY <1>3 DEF IsSlice
<1>. s \in 0..len /\ e \in s..len
    BY <1>4
<1>5. Range(reply.messages) = elements(queue, s + 1..e)
  <2>1. Range(reply.messages) = elements(reply.messages, 1..e - s)
      BY <1>4 DEF Range, elements
  <2>2. s \in Int /\ e \in Int /\ \A i \in 1..e - s : reply.messages[i] = queue[s + i]
      BY <1>2, <1>4
  <2>3. elements(reply.messages, 1..e - s) = elements(queue, s + 1..e)
    <3> HIDE DEF reply, queue
    <3> QED BY <2>2, SliceImage
  <2> QED BY <2>1, <2>3
<1> USE DEF elements
<1>6. /\ \A i, j \in 1..len : i <= j <=> nonce_at(gw, i) <= nonce_at(gw, j)
      /\ \A i \in s + 1..e : i \in 1..len
  <2>1. /\ \A i \in Int : nonce_at(gw, i) \in Int
        /\ \A i, j \in Int : i < j <=> nonce_at(gw, i) < nonce_at(gw, j)
      BY <1>2, NoncesRise
  <2>2. \A i \in s + 1..e : i \in 1..len
      BY <1>2
  <2> HIDE DEF gw, queue, len
  <2>3. ASSUME NEW i \in 1..len, NEW j \in 1..len
        PROVE  i <= j <=> nonce_at(gw, i) <= nonce_at(gw, j)
    <3>1. /\ nonce_at(gw, i) \in Int /\ nonce_at(gw, j) \in Int
          /\ j < i <=> nonce_at(gw, j) < nonce_at(gw, i)
        BY <2>1
    <3> QED BY <3>1
  <2> QED BY <2>2, <2>3
\* The tree holds the messages of the queue, and it is certified.
<1>7. \A i \in 1..len : /\ queue[i].key \in DOMAIN CERT_TREE
                        /\ CERT_TREE[queue[i].key] = queue[i]
    BY <1>1 DEF CertInv, Matches, queue_of
<1>8. s # e => certified_data = CERT_TREE
  <2>1. s # e => queue # << >>
    <3>1. s # e => len # 0
        BY <1>2
    <3> QED BY <3>1
  <2> QED BY <1>1, <2>1 DEF CertInv, Waiting, queue_of
<1>9. \A key \in DOMAIN CERT_TREE : key[1] = g =>
          \E i \in 1..len : key = queue[i].key
  <2> SUFFICES ASSUME NEW key \in DOMAIN CERT_TREE, key[1] = g
               PROVE  \E i \in 1..len : key = queue[i].key
      OBVIOUS
  <2>1. PICK x \in DOMAIN REGISTERED_GATEWAYS :
            \E i \in 1..Len(REGISTERED_GATEWAYS[x].messages_queue) :
                REGISTERED_GATEWAYS[x].messages_queue[i].key = key
      BY DEF CertInv, Matches, queue_of
  <2>2. PICK i \in 1..Len(REGISTERED_GATEWAYS[x].messages_queue) :
            REGISTERED_GATEWAYS[x].messages_queue[i].key = key
      BY <2>1
  <2>3. key = <<x, nonce_at(REGISTERED_GATEWAYS[x], i)>>
      BY <2>2, NonceAt
  <2>4. x = g
      BY <2>3
  <2> QED BY <2>2, <2>4
<1> DEFINE keys == {key \in DOMAIN CERT_TREE :
                        /\ key[1] = g
                        /\ nonce_at(gw, s + 1) <= key[2] /\ key[2] <= nonce_at(gw, e)}
<1>10. CASE s = e
  <2>1. Range(reply.messages) = {}
      BY <1>2, <1>5, <1>10
  <2>2. DOMAIN reply.tree = {}
      BY <1>4, <1>10, Empty
  <2> QED BY <1>4, <1>10, <2>1, <2>2
<1>11. CASE s # e
  <2>1. s + 1 \in 1..len /\ e \in 1..len
      BY <1>2, <1>11
  <2>2. DOMAIN reply.tree = keys /\ \A key \in keys : reply.tree[key] = CERT_TREE[key]
      BY <1>4, <1>11 DEF get_cert_for_range, in_range, Restrict
  <2> HIDE DEF reply, gw, len, queue, g
  <2>3. \A i \in 1..len : queue[i].key \in keys <=> i \in s + 1..e
    <3>1. \A i \in 1..len : queue[i].key \in keys <=>
              nonce_at(gw, s + 1) <= nonce_at(gw, i) /\ nonce_at(gw, i) <= nonce_at(gw, e)
        BY <1>2, <1>7
    <3>2. \A i \in 1..len : queue[i].key \in keys <=> s + 1 <= i /\ i <= e
        BY <1>6, <2>1, <3>1
    <3> QED BY <1>2, <3>2
  <2>4. keys = {queue[i].key : i \in s + 1..e}
      BY <1>6, <1>9, <2>3
  <2> HIDE DEF keys
  <2>5. DOMAIN reply.tree = {m.key : m \in Range(reply.messages)}
      BY <1>5, <2>2, <2>4
  <2>6. ASSUME NEW m \in Range(reply.messages)
        PROVE  reply.tree[m.key] = m
    <3>1. PICK i \in s + 1..e : m = queue[i]
        BY <1>5
    <3> QED BY <1>6, <1>7, <2>2, <2>4, <3>1
  <2> QED BY <1>8, <1>11, <2>5, <2>6 DEF reply, g
<1> QED BY <1>10, <1>11

\* Whatever a gateway polls, the tree its witness is cut from is the one whose root hash
\* is certified, also after a pruning or a retirement deleted from it, and the witness
\* reveals the messages of the batch and nothing else.
THEOREM PollsAreCertified == Spec => []PollIsCertified
<1>1. Inv /\ QueuesInOrder /\ CertInv => PollIsCertified
    BY PollRevealsTheSlice DEF PollIsCertified
<1> QED BY <1>1, CertInvariant, QueuesStayInOrder, PTL
=============================================================================
