------------------------------ MODULE WsSystem ------------------------------
(***************************************************************************)
(* The canister of WsCdk between the WS Gateways that poll it and the      *)
(* clients they serve.  Gateways and clients are other programs; what they *)
(* do here is what the CDK's interface and its integration tests do:       *)
(*                                                                         *)
(* - a gateway polls from the nonce after the last message it got          *)
(*   (get_next_polling_nonce_from_messages), relays a batch message by     *)
(*   message, and calls ws_close for a client that is gone; it starts      *)
(*   polling at nonce 0 when a first client connects through it;           *)
(* - a client expects consecutive sequence numbers (verify_messages),      *)
(*   numbers its own messages from 1, answers an acknowledgement with a    *)
(*   keep alive, and uses a client nonce once.                             *)
(*                                                                         *)
(* A poll whose reply is lost changes nothing and is repeated: it is a     *)
(* stuttering step.  A message takes at most Latency either way, which is  *)
(* at most COMMUNICATION_LATENCY_BOUND_MS of lib.rs, half of the timeout.  *)
(***************************************************************************)
EXTENDS WsCdk

CONSTANTS
    Latency,      \* of a message between a client and the canister
    MaxSent       \* bound of the runs: the messages of a client, but answers

\* CLIENT_KEEP_ALIVE_TIMEOUT_MS is the bound there and back (lib.rs:36).
ASSUME LatencyAssumption ==
    /\ Latency \in Nat /\ 0 < CLIENT_KEEP_ALIVE_TIMEOUT
    /\ 2 * Latency <= CLIENT_KEEP_ALIVE_TIMEOUT

VARIABLES
    polling_nonce,  \* gateway -> nonce of its next poll
    polled,         \* gateway -> the messages it has got and not relayed yet
    connections,    \* client key -> the client's side of the session
    to_canister     \* client key -> its messages on the way to ws_message

network_vars == <<polling_nonce, polled, connections, to_canister>>
system_vars == <<vars, network_vars>>

is_open(k) == k \in DOMAIN connections /\ connections[k].open

new_connection(g) == [open |-> TRUE, gateway |-> g, received |-> 0, sent |-> 0]

\* The message a client sends next.
client_message(k, kind) ==
    [sequence_num |-> connections[k].sent + 1, kind |-> kind, timestamp |-> time]

----------------------------------------------------------------------------
(***************************************************************************)
(* Clients.                                                                *)
(***************************************************************************)

\* A client that connects again has left the connection it had.
connect(p, nonce, g) ==
    LET k    == [client_principal |-> p, client_nonce |-> nonce]
        left == [c \in DOMAIN connections |->
                    [connections[c] EXCEPT !.open = @ /\ c.client_principal # p]]
    IN  /\ k \notin DOMAIN connections
        /\ ws_open(p, nonce, g)
        /\ connections' = put(left, k, new_connection(g))
        /\ to_canister' = put(to_canister, k, << >>)
        /\ polling_nonce' = [polling_nonce EXCEPT ![g] =
               IF \E c \in DOMAIN connections : is_open(c) /\ connections[c].gateway = g
               THEN @
               ELSE INITIAL_OUTGOING_MESSAGE_NONCE]
        /\ UNCHANGED polled

\* The connection between client and gateway breaks.
disconnect(k) ==
    /\ is_open(k)
    /\ connections' = [connections EXCEPT ![k].open = FALSE]
    /\ UNCHANGED <<vars, polling_nonce, polled, to_canister>>

client_send(k) ==
    /\ is_open(k) /\ connections[k].sent < MaxSent
    /\ connections' = [connections EXCEPT ![k].sent = @ + 1]
    /\ to_canister' = [to_canister EXCEPT ![k] =
                          Append(@, client_message(k, "Application"))]
    /\ UNCHANGED <<vars, polling_nonce, polled>>

\* The canister gets the oldest message of client k.  It is refused if the session
\* is not the current one of the principal.
deliver(k) ==
    LET message == Head(to_canister[k])
        p       == k.client_principal
        expected == message.sequence_num = INCOMING_MESSAGE_FROM_CLIENT_NUM_MAP[k]
    IN  /\ idle
        /\ to_canister[k] # << >>
        /\ to_canister' = [to_canister EXCEPT ![k] = Tail(@)]
        /\ \/ is_current(p, k) /\ expected /\ message.kind = "Application"
              /\ ws_message(p, k)
           \/ is_current(p, k) /\ expected /\ message.kind = "KeepAlive"
              /\ ws_message_keep_alive(p, k)
           \/ is_current(p, k) /\ ~expected /\ ws_message_wrong_sequence_number(p, k)
           \/ ~is_current(p, k) /\ UNCHANGED vars
        /\ UNCHANGED <<polling_nonce, polled, connections>>

----------------------------------------------------------------------------
(***************************************************************************)
(* Gateways.                                                               *)
(***************************************************************************)

\* A poll that returns messages.  Replies that are lost or empty change nothing.
poll(g) ==
    LET reply == ws_get_messages(g, polling_nonce[g])
    IN  /\ idle
        /\ polled[g] = << >>
        /\ reply.messages # << >>
        /\ polled' = [polled EXCEPT ![g] = reply.messages]
        /\ polling_nonce' = [polling_nonce EXCEPT ![g] =
               reply.messages[Len(reply.messages)].key[2] + 1]
        /\ UNCHANGED <<vars, connections, to_canister>>

\* Client k gets message m: it answers an acknowledgement, and leaves at a close.
receive(k, m) ==
    LET is_ack == m.content.kind = "AckMessage"
        client == [connections[k] EXCEPT
                       !.received = m.sequence_num,
                       !.sent = IF is_ack THEN @ + 1 ELSE @,
                       !.open = m.content.kind # "CloseMessage"]
    IN  /\ connections' = [connections EXCEPT ![k] = client]
        /\ to_canister' = [to_canister EXCEPT ![k] =
               IF is_ack THEN Append(@, client_message(k, "KeepAlive")) ELSE @]

\* A message for a client that is gone is dropped.
relay(g) ==
    /\ polled[g] # << >>
    /\ polled' = [polled EXCEPT ![g] = Tail(@)]
    /\ LET m == Head(polled[g])
       IN  IF is_open(m.client_key) THEN receive(m.client_key, m)
           ELSE UNCHANGED <<connections, to_canister>>
    /\ UNCHANGED <<vars, polling_nonce>>

report_closed(k) ==
    /\ k \in DOMAIN connections /\ ~connections[k].open
    /\ ws_close(connections[k].gateway, k)
    /\ UNCHANGED network_vars

----------------------------------------------------------------------------
(***************************************************************************)
(* The canister's other steps, and the clock.                              *)
(***************************************************************************)

\* The canister goes on with the message it is executing, or starts a timer's.
run ==
    \/ send_ack_to_clients \/ send_ack_end
    \/ check_keep_alive \/ check_keep_alive_end
    \/ \E k \in client_keys : send_ack(k) \/ close_silent_client(k)

application(p) == send(p) \/ close(p)

\* The messages gateway g has or will poll, in order.
unread(g) ==
    IF g \in DOMAIN REGISTERED_GATEWAYS
    THEN LET gw == REGISTERED_GATEWAYS[g]
         IN  SubSeq(gw.messages_queue, start_index(gw, polling_nonce[g]) + 1,
                    Len(gw.messages_queue))
    ELSE << >>
to_relay(g) == polled[g] \o unread(g)

\* Where in them those for client k are.
on_the_way(k) ==
    LET coming == to_relay(connections[k].gateway)
    IN  {i \in DOMAIN coming : coming[i].client_key = k}

\* Time passes only while no message between a client that is there and the
\* canister is older than Latency.
timely ==
    \A k \in DOMAIN connections :
        /\ \A i \in DOMAIN to_canister[k] : time < to_canister[k][i].timestamp + Latency
        /\ is_open(k) =>
               \A i \in on_the_way(k) :
                   time < to_relay(connections[k].gateway)[i].timestamp + Latency

SystemInit ==
    /\ Init
    /\ polling_nonce = [g \in Gateway |-> INITIAL_OUTGOING_MESSAGE_NONCE]
    /\ polled = [g \in Gateway |-> << >>]
    /\ connections = EmptyMap /\ to_canister = EmptyMap

SystemNext ==
    \/ \E p \in Principal, nonce \in ClientNonce, g \in Gateway : connect(p, nonce, g)
    \/ \E k \in DOMAIN connections :
           disconnect(k) \/ client_send(k) \/ deliver(k) \/ report_closed(k)
    \/ \E g \in Gateway : poll(g) \/ relay(g)
    \/ run /\ UNCHANGED network_vars
    \/ \E p \in Principal : application(p) /\ UNCHANGED network_vars
    \/ timely /\ tick /\ UNCHANGED network_vars

\* Gateways poll and relay, networks deliver, gateways report who left, and the
\* canister runs a message to its end.  What a message of the canister may be
\* overtaken by again and again is strongly fair.  Nothing makes time pass, clients
\* come or go, or the application act.
Fairness ==
    /\ WF_system_vars(run /\ UNCHANGED network_vars)
    /\ \A g \in Gateway : SF_system_vars(poll(g)) /\ WF_system_vars(relay(g))
    /\ SF_system_vars(\E k \in DOMAIN connections : deliver(k))
    /\ SF_system_vars(\E k \in DOMAIN connections : report_closed(k))

SystemSpec == SystemInit /\ [][SystemNext]_system_vars
FairSystemSpec == SystemSpec /\ Fairness

\* The canister may also be upgraded, which gateways and clients do not notice.
UpgradedSystemNext ==
    \/ SystemNext
    \/ \E params \in InitParams : upgrade(params) /\ UNCHANGED network_vars

UpgradedSystemSpec == SystemInit /\ [][UpgradedSystemNext]_system_vars

----------------------------------------------------------------------------
(***************************************************************************)
(* Properties.                                                             *)
(***************************************************************************)

\* Of what the canister sent to a client that is there, the part that has not
\* arrived is on its way, in order and without a gap, up to the last message sent;
\* for a session the canister has ended that is the close message.  So pruning,
\* retirement and the batches of polls never cost such a client a message.
StreamsAreComplete ==
    \A k \in DOMAIN connections :
        connections[k].open =>
            LET coming    == to_relay(connections[k].gateway)
                number(i) == coming[i].sequence_num
                up_to(last) ==
                    {number(i) : i \in on_the_way(k)} = connections[k].received + 1..last
            IN  /\ \A i, j \in on_the_way(k) : i < j => number(i) < number(j)
                /\ IF k \in DOMAIN REGISTERED_CLIENTS
                   THEN up_to(OUTGOING_MESSAGE_TO_CLIENT_NUM_MAP[k])
                   ELSE \E i \in on_the_way(k) :
                            coming[i].content.kind = "CloseMessage" /\ up_to(number(i))

\* The number the canister expects is that of the first message it has not got, so
\* that a client which counts is never closed with WrongSequenceNumber.
CountsAgree ==
    \A k \in DOMAIN connections \cap DOMAIN REGISTERED_CLIENTS :
        INCOMING_MESSAGE_FROM_CLIENT_NUM_MAP[k] + Len(to_canister[k])
            = connections[k].sent + 1

\* The answer of k has taken all the time there is: it is due at this very moment.
answers_at_the_bound(k) ==
    /\ 2 * Latency = CLIENT_KEEP_ALIVE_TIMEOUT
    /\ \E i \in DOMAIN to_canister[k] :
           /\ to_canister[k][i].kind = "KeepAlive"
           /\ to_canister[k][i].timestamp + Latency = time

\* With messages within the latency bound, the keep alive check closes a client that
\* is there only if its answer, and the acknowledgement before it, took the bound
\* exactly, and the answer is about to be delivered at the moment of the check
\* (lib.rs:36); with a smaller latency it closes none.
ResponsiveClientsStay ==
    executing = "check_keep_alive" =>
        \A k \in client_keys : is_open(k) => answers_at_the_bound(k)

\* lib.rs:33 calls COMMUNICATION_LATENCY_BOUND_MS "the maximum communication latency
\* allowed between the client and the canister", and the timeout is twice that: with
\* an allowed latency the check closes no client that is there.
AllowedLatencyKeepsClients ==
    executing = "check_keep_alive" => \A k \in client_keys : ~is_open(k)

\* "added to the queue of messages that the WS Gateway will poll in the next
\* iteration" (lib.rs:236): the next nonce is not before the one it polls from.
NextMessageIsPolled ==
    \A g \in DOMAIN REGISTERED_GATEWAYS :
        clients_of(g) # {} =>
            polling_nonce[g] <= REGISTERED_GATEWAYS[g].outgoing_message_nonce

\* A client for which a message is on the way, and that stays, goes on receiving.
MessagesArrive ==
    \A k \in ClientKey :
        \/ []<>(is_open(k) => on_the_way(k) = {})
        \/ []<><<k \in DOMAIN connections /\ connections'[k].received # connections[k].received>>_connections

\* Client and canister come to agree on whether the session is open: a client whose
\* session the canister has ended hears of it, and the session of a client that is
\* gone is ended, together with its share in the count of its gateway.
ViewsAgree ==
    \A k \in ClientKey : []<>(is_open(k) <=> k \in DOMAIN REGISTERED_CLIENTS)
=============================================================================
