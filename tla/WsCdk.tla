------------------------------- MODULE WsCdk -------------------------------
(***************************************************************************)
(* The state that the IC WebSocket CDK keeps inside a canister, and the    *)
(* handlers that change it: the endpoints and functions of lib.rs, the     *)
(* state of state.rs and the two timers of timers.rs.                      *)
(*                                                                         *)
(* A canister runs one message at a time and no handler awaits, so a       *)
(* handler is one action.  The two timer callbacks and wipe loop over the  *)
(* clients in the order of a hash map; an iteration is a step of its own,  *)
(* and `executing' and `client_keys' hold where the loop stands.  Nothing  *)
(* else runs while a loop does, except what the code itself calls there:   *)
(* the on_close callback of the application, which may call send.          *)
(*                                                                         *)
(* The other places where the CDK calls the application are at the end of  *)
(* a handler (on_open, on_message, on_close of ws_close, close and of a    *)
(* wrong sequence number), where the calls it makes are the send and close *)
(* actions that follow, or between removing an old session and adding its  *)
(* successor (ws_open), where a send to another client commutes with what  *)
(* is before it.  Callbacks that trap are in WsTraps.                      *)
(*                                                                         *)
(* Calls that the code refuses with an error before it changes anything    *)
(* are not actions; WsReplies says which they are.                         *)
(***************************************************************************)
EXTENDS RegisteredGateway, FiniteSets, Functions

CONSTANTS
    Principal,           \* the principals that call as clients
    Anonymous,           \* the anonymous principal
    ClientNonce,         \* the nonces a client chooses for its sessions
    Gateway,             \* the principals of WS Gateways
    InitParams,          \* the WsInitParams the canister may pass to init
    CLIENT_KEEP_ALIVE_TIMEOUT,
    MESSAGES_TO_DELETE_COUNT,
    MaxTimerDelay,       \* the longest a timer is late (outside the code)
    Maintenance,         \* which of init, upgrade and wipe happen
    \* Bounds of the runs, in the guards of what the environment does.
    MaxTime,             \* last tick of the clock
    MaxNonce,            \* messages a gateway gets from the environment's calls
    MaxNonceInOnClose,   \* and with the calls an on_close callback makes
    MaxIncoming          \* messages a client sends in a session

ASSUME ConstantsAssumption ==
    /\ CLIENT_KEEP_ALIVE_TIMEOUT \in Nat
    /\ MESSAGES_TO_DELETE_COUNT \in Nat
    /\ MaxTimerDelay \in Nat /\ MaxTime \in Nat
    /\ MaxNonce \in Nat /\ MaxNonceInOnClose \in Nat /\ MaxIncoming \in Nat
    /\ Maintenance \subseteq {"init", "upgrade", "wipe"}

ASSUME InitParamsAssumption ==
    InitParams \subseteq [send_ack_interval : Nat,
                          max_number_of_returned_messages : Nat]

\* Mutant: an acknowledgement before the first message underflows.
client_counts_from_zero == 0

INITIAL_CLIENT_SEQUENCE_NUM == 1
INITIAL_CANISTER_SEQUENCE_NUM == 0

VARIABLES
    REGISTERED_CLIENTS,                   \* client key -> RegisteredClient
    CURRENT_CLIENT_KEY_MAP,               \* principal -> its client key
    CLIENTS_WAITING_FOR_KEEP_ALIVE,       \* set of client keys
    OUTGOING_MESSAGE_TO_CLIENT_NUM_MAP,   \* client key -> number
    INCOMING_MESSAGE_FROM_CLIENT_NUM_MAP, \* client key -> number
    CERT_TREE,                            \* message key -> message
    REGISTERED_GATEWAYS,                  \* gateway -> RegisteredGateway
    GATEWAYS_TO_REMOVE,                   \* gateway -> time its last client left
    PARAMS,                               \* the WsInitParams of the last init
    ACK_TIMER,                            \* the timer whose id is tracked
    KEEP_ALIVE_TIMER,                     \* the timer whose id is tracked
    timers,          \* the timers that are set (ic_cdk_timers)
    certified_data,  \* the tree whose root hash was certified last (ic_cdk)
    time,            \* the clock of the canister (ic_cdk)
    executing,       \* the handler that is running a loop, or "idle"
    client_keys,     \* the client keys its loop has not come to
    in_on_close      \* its loop has just called the on_close callback

client_vars == <<REGISTERED_CLIENTS, CURRENT_CLIENT_KEY_MAP,
                 CLIENTS_WAITING_FOR_KEEP_ALIVE, OUTGOING_MESSAGE_TO_CLIENT_NUM_MAP,
                 INCOMING_MESSAGE_FROM_CLIENT_NUM_MAP>>
gateway_vars == <<REGISTERED_GATEWAYS, GATEWAYS_TO_REMOVE, CERT_TREE, certified_data>>
timer_vars == <<ACK_TIMER, KEEP_ALIVE_TIMER, timers>>
loop_vars == <<executing, client_keys, in_on_close>>
vars == <<client_vars, gateway_vars, timer_vars, loop_vars, PARAMS, time>>

----------------------------------------------------------------------------
(***************************************************************************)
(* Data.  The content of a message is told apart by its kind only.         *)
(***************************************************************************)

ClientKey == [client_principal : Principal, client_nonce : ClientNonce]

RegisteredClient == [last_keep_alive_timestamp : Nat, gateway_principal : Gateway]

CloseMessageReason ==
    {"WrongSequenceNumber", "InvalidServiceMessage", "KeepAliveTimeout",
     "ClosedByApplication"}

OpenMessage == [kind |-> "OpenMessage"]
ApplicationMessage == [kind |-> "Application"]
AckMessage(n) == [kind |-> "AckMessage", last_incoming_sequence_num |-> n]
CloseMessage(reason) == [kind |-> "CloseMessage", reason |-> reason]

Content == {OpenMessage, ApplicationMessage}
           \cup [kind : {"AckMessage"}, last_incoming_sequence_num : Nat]
           \cup [kind : {"CloseMessage"}, reason : CloseMessageReason]

\* CanisterOutputMessage, with the WebsocketMessage it carries.
Message == [key : Gateway \X Nat, client_key : ClientKey, sequence_num : Nat,
            timestamp : Nat, content : Content]

\* A map with an entry inserted, and without the entries of some keys.
put(map, key, value) ==
    [x \in DOMAIN map \cup {key} |-> IF x = key THEN value ELSE map[x]]
remove(map, keys) == Restrict(map, DOMAIN map \ keys)

EmptyMap == [x \in {} |-> x]

SendAckTimer(t) == [callback |-> "send_ack", deadline |-> t]
CheckKeepAliveTimer(t) == [callback |-> "check_keep_alive", deadline |-> t]
NoTimer == [callback |-> "none", deadline |-> 0]

current_keys(p) ==
    IF p \in DOMAIN CURRENT_CLIENT_KEY_MAP THEN {CURRENT_CLIENT_KEY_MAP[p]} ELSE {}
gateway_of(k) == REGISTERED_CLIENTS[k].gateway_principal
clients_of(g) == {k \in DOMAIN REGISTERED_CLIENTS : gateway_of(k) = g}

----------------------------------------------------------------------------
(***************************************************************************)
(* Sending a message (_ws_send).  rg is the map of gateways the message is *)
(* added to, g the client's gateway and seq the last sequence number used  *)
(* for the client.                                                         *)
(***************************************************************************)

\* Mutant: the sequence number is read before it is incremented.
message_to_stale_num(rg, g, k, seq, content) ==
    [key |-> <<g, rg[g].outgoing_message_nonce>>, client_key |-> k,
     sequence_num |-> seq, timestamp |-> time, content |-> content]

message_to(rg, g, k, seq, content) ==
    [key |-> <<g, rg[g].outgoing_message_nonce>>, client_key |-> k,
     sequence_num |-> seq + 1, timestamp |-> time, content |-> content]

expired_keys(rg, g) ==
    deleted_keys(rg[g], MESSAGES_TO_DELETE_COUNT, time, PARAMS.send_ack_interval)

\* delete_old_messages_for_gateway and push_message_in_gateway_queue
push_message_in_gateway_queue(rg, g, m) ==
    [rg EXCEPT ![g] = add_message_to_queue(
        delete_old_messages(@, MESSAGES_TO_DELETE_COUNT, time, PARAMS.send_ack_interval),
        m, time)]

\* Mutant: the hashes of the deleted messages stay in the tree.
put_cert_without_delete(expired, m) == put(CERT_TREE, m.key, m)

\* delete_keys_from_cert_tree and put_cert_for_message
put_cert_for_message(expired, m) == put(remove(CERT_TREE, expired), m.key, m)

\* Mutant: the root hash is taken before the change.
certify_before == certified_data' = CERT_TREE

\* certified_data_set with the root hash of the changed tree.
certify == certified_data' = CERT_TREE'

\* Mutant: the expired hashes are deleted after the root hash was taken.
certify_before_delete(rg, g, m) ==
    /\ CERT_TREE' = put_cert_for_message(expired_keys(rg, g), m)
    /\ certified_data' = put(CERT_TREE, m.key, m)

\* The part of _ws_send that the gateway sees.
certify_message(rg, g, m) ==
    /\ CERT_TREE' = put_cert_for_message(expired_keys(rg, g), m)
    /\ certify

ws_send(k, content) ==
    LET g == gateway_of(k)
        m == message_to(REGISTERED_GATEWAYS, g, k,
                        OUTGOING_MESSAGE_TO_CLIENT_NUM_MAP[k], content)
    IN  /\ OUTGOING_MESSAGE_TO_CLIENT_NUM_MAP' =
               [OUTGOING_MESSAGE_TO_CLIENT_NUM_MAP EXCEPT ![k] = @ + 1]
        /\ REGISTERED_GATEWAYS' =
               push_message_in_gateway_queue(REGISTERED_GATEWAYS, g, m)
        /\ certify_message(REGISTERED_GATEWAYS, g, m)

----------------------------------------------------------------------------
(***************************************************************************)
(* The clients connected to a gateway.  These return the new map of        *)
(* gateways, or the new map of gateways to remove.                         *)
(***************************************************************************)

increment_gateway_clients_count(rg, g) ==
    put(rg, g, increment_clients_count(IF g \in DOMAIN rg THEN rg[g] ELSE new_gateway))

\* keys holds at most one client key.
decrement_gateway_clients_count(rg, keys) ==
    [g \in DOMAIN rg |-> IF \E k \in keys : gateway_of(k) = g
                         THEN decrement_clients_count(rg[g])
                         ELSE rg[g]]

\* Mutant: the gateway stays due for removal when a client comes back.
stays_in_gateways_to_remove(gtr, g) == gtr

\* increment_gateway_clients_count
out_of_gateways_to_remove(gtr, g) == remove(gtr, {g})

\* decrement_gateway_clients_count; rg is the map of gateways after it.
into_gateways_to_remove(gtr, rg, keys) ==
    LET empty == {g \in DOMAIN rg : /\ \E k \in keys : gateway_of(k) = g
                                    /\ rg[g].connected_clients_count = 0}
    IN  [g \in DOMAIN gtr \cup empty |-> IF g \in empty THEN time ELSE gtr[g]]

----------------------------------------------------------------------------
(***************************************************************************)
(* Removing a client (remove_client).                                      *)
(***************************************************************************)

\* Mutant: the client is still waited for.
still_waiting(keys) == CLIENTS_WAITING_FOR_KEEP_ALIVE

not_waiting(keys) == CLIENTS_WAITING_FOR_KEEP_ALIVE \ keys

\* What remove_client does to the maps of clients.
remove_from_client_maps(k) ==
    /\ CLIENTS_WAITING_FOR_KEEP_ALIVE' = not_waiting({k})
    /\ CURRENT_CLIENT_KEY_MAP' = remove(CURRENT_CLIENT_KEY_MAP, {k.client_principal})
    /\ OUTGOING_MESSAGE_TO_CLIENT_NUM_MAP' =
           remove(OUTGOING_MESSAGE_TO_CLIENT_NUM_MAP, {k})
    /\ INCOMING_MESSAGE_FROM_CLIENT_NUM_MAP' =
           remove(INCOMING_MESSAGE_FROM_CLIENT_NUM_MAP, {k})
    /\ REGISTERED_CLIENTS' = remove(REGISTERED_CLIENTS, {k})

\* remove_client(k, None)
remove_client(k) ==
    LET rg == decrement_gateway_clients_count(REGISTERED_GATEWAYS, {k})
    IN  /\ remove_from_client_maps(k)
        /\ REGISTERED_GATEWAYS' = rg
        /\ GATEWAYS_TO_REMOVE' = into_gateways_to_remove(GATEWAYS_TO_REMOVE, rg, {k})
        /\ UNCHANGED <<CERT_TREE, certified_data>>

\* Mutant: the client is not told.
remove_without_message(k, reason) == remove_client(k)

\* remove_client(k, Some(reason)): the close message is sent first.
close_client(k, reason) ==
    LET m  == message_to(REGISTERED_GATEWAYS, gateway_of(k), k,
                         OUTGOING_MESSAGE_TO_CLIENT_NUM_MAP[k], CloseMessage(reason))
        rg == decrement_gateway_clients_count(
                  push_message_in_gateway_queue(REGISTERED_GATEWAYS, gateway_of(k), m),
                  {k})
    IN  /\ remove_from_client_maps(k)
        /\ REGISTERED_GATEWAYS' = rg
        /\ GATEWAYS_TO_REMOVE' = into_gateways_to_remove(GATEWAYS_TO_REMOVE, rg, {k})
        /\ certify_message(REGISTERED_GATEWAYS, gateway_of(k), m)

----------------------------------------------------------------------------
(***************************************************************************)
(* The endpoints a client or a gateway calls.                              *)
(***************************************************************************)

idle == executing = "idle"

\* Bounds: calls of the environment send while a gateway has had fewer messages
\* than MaxNonce, those in an on_close callback than MaxNonceInOnClose.
may_send(g) ==
    g \in DOMAIN REGISTERED_GATEWAYS =>
        REGISTERED_GATEWAYS[g].outgoing_message_nonce
            < IF idle THEN MaxNonce ELSE MaxNonceInOnClose

\* A client opens a session through gateway g.  A session it has is removed.
ws_open(p, nonce, g) ==
    LET k   == [client_principal |-> p, client_nonce |-> nonce]
        old == current_keys(p)
        rg1 == decrement_gateway_clients_count(REGISTERED_GATEWAYS, old)
        rg2 == increment_gateway_clients_count(rg1, g)
        m   == message_to(rg2, g, k, INITIAL_CANISTER_SEQUENCE_NUM, OpenMessage)
    IN  /\ idle /\ may_send(g)
        /\ p # Anonymous
        /\ k \notin DOMAIN REGISTERED_CLIENTS
        /\ REGISTERED_CLIENTS' =
               put(remove(REGISTERED_CLIENTS, old), k,
                   [last_keep_alive_timestamp |-> time, gateway_principal |-> g])
        /\ CURRENT_CLIENT_KEY_MAP' =
               put(remove(CURRENT_CLIENT_KEY_MAP, {p}), p, k)
        /\ CLIENTS_WAITING_FOR_KEEP_ALIVE' = not_waiting(old)
        /\ INCOMING_MESSAGE_FROM_CLIENT_NUM_MAP' =
               put(remove(INCOMING_MESSAGE_FROM_CLIENT_NUM_MAP, old), k,
                   INITIAL_CLIENT_SEQUENCE_NUM)
        /\ OUTGOING_MESSAGE_TO_CLIENT_NUM_MAP' =
               put(remove(OUTGOING_MESSAGE_TO_CLIENT_NUM_MAP, old), k, m.sequence_num)
        /\ GATEWAYS_TO_REMOVE' =
               out_of_gateways_to_remove(
                   into_gateways_to_remove(GATEWAYS_TO_REMOVE, rg1, old), g)
        /\ REGISTERED_GATEWAYS' = push_message_in_gateway_queue(rg2, g, m)
        /\ certify_message(rg2, g, m)
        /\ UNCHANGED <<timer_vars, loop_vars, PARAMS, time>>

\* Gateway g reports that a client it serves is gone.
ws_close(g, k) ==
    /\ idle
    /\ g \in DOMAIN REGISTERED_GATEWAYS
    /\ k \in DOMAIN REGISTERED_CLIENTS
    /\ gateway_of(k) = g
    /\ remove_client(k)
    /\ UNCHANGED <<timer_vars, loop_vars, PARAMS, time>>

\* The guards of ws_message, up to the expected sequence number: the caller p
\* sends a message of the client key that is current for it.
is_current(p, k) ==
    /\ idle
    /\ p \in DOMAIN CURRENT_CLIENT_KEY_MAP
    /\ CURRENT_CLIENT_KEY_MAP[p] = k
    /\ k \in DOMAIN INCOMING_MESSAGE_FROM_CLIENT_NUM_MAP

\* The message has the expected number.  Bound: MaxIncoming.
accept_message(k) ==
    /\ INCOMING_MESSAGE_FROM_CLIENT_NUM_MAP[k] <= MaxIncoming
    /\ INCOMING_MESSAGE_FROM_CLIENT_NUM_MAP' =
           [INCOMING_MESSAGE_FROM_CLIENT_NUM_MAP EXCEPT ![k] = @ + 1]
    /\ UNCHANGED <<CURRENT_CLIENT_KEY_MAP, CLIENTS_WAITING_FOR_KEEP_ALIVE,
                   OUTGOING_MESSAGE_TO_CLIENT_NUM_MAP, gateway_vars, timer_vars,
                   loop_vars, PARAMS, time>>

\* An application message (on_message gets it), or a service message that is not
\* a keep alive, which is refused after its number was counted.
ws_message(p, k) ==
    /\ is_current(p, k)
    /\ accept_message(k)
    /\ UNCHANGED REGISTERED_CLIENTS

\* Mutant: a keep alive does not count as a message.
keep_alive_not_counted(p, k) ==
    /\ is_current(p, k)
    /\ REGISTERED_CLIENTS' = [REGISTERED_CLIENTS EXCEPT
           ![k].last_keep_alive_timestamp = time]
    /\ UNCHANGED <<CURRENT_CLIENT_KEY_MAP, CLIENTS_WAITING_FOR_KEEP_ALIVE,
                   OUTGOING_MESSAGE_TO_CLIENT_NUM_MAP,
                   INCOMING_MESSAGE_FROM_CLIENT_NUM_MAP, gateway_vars, timer_vars,
                   loop_vars, PARAMS, time>>

\* handle_keep_alive_client_message
ws_message_keep_alive(p, k) ==
    /\ is_current(p, k)
    /\ accept_message(k)
    /\ REGISTERED_CLIENTS' = [REGISTERED_CLIENTS EXCEPT
           ![k].last_keep_alive_timestamp = time]

\* The message has another number.
ws_message_wrong_sequence_number(p, k) ==
    /\ is_current(p, k)
    /\ may_send(gateway_of(k))
    /\ close_client(k, "WrongSequenceNumber")
    /\ UNCHANGED <<timer_vars, loop_vars, PARAMS, time>>

----------------------------------------------------------------------------
(***************************************************************************)
(* The functions the application calls.                                    *)
(***************************************************************************)

\* From a method of its own, or in the on_close callback of a loop.
send(p) ==
    /\ idle \/ in_on_close
    /\ p \in DOMAIN CURRENT_CLIENT_KEY_MAP
    /\ LET k == CURRENT_CLIENT_KEY_MAP[p]
       IN  may_send(gateway_of(k)) /\ ws_send(k, ApplicationMessage)
    /\ UNCHANGED <<REGISTERED_CLIENTS, CURRENT_CLIENT_KEY_MAP,
                   CLIENTS_WAITING_FOR_KEEP_ALIVE, GATEWAYS_TO_REMOVE,
                   INCOMING_MESSAGE_FROM_CLIENT_NUM_MAP, timer_vars, loop_vars,
                   PARAMS, time>>

\* Mutant: the application calls close in on_close.
anywhere == idle \/ in_on_close

\* "This function must not be called in the on_close callback."
not_in_on_close == idle

close(p) ==
    /\ not_in_on_close
    /\ p \in DOMAIN CURRENT_CLIENT_KEY_MAP
    /\ LET k == CURRENT_CLIENT_KEY_MAP[p]
       IN  may_send(gateway_of(k)) /\ close_client(k, "ClosedByApplication")
    /\ UNCHANGED <<timer_vars, loop_vars, PARAMS, time>>

\* Mutant: the interval may be as short as the timeout.
is_long_enough(params) == params.send_ack_interval >= CLIENT_KEEP_ALIVE_TIMEOUT

check_validity(params) == params.send_ack_interval > CLIENT_KEEP_ALIVE_TIMEOUT

cancel_timers == timers \ {ACK_TIMER, KEEP_ALIVE_TIMER}

\* Mutant: the interval is counted from the check that follows.
ack_timer_after_check(params) ==
    SendAckTimer(time + params.send_ack_interval + CLIENT_KEEP_ALIVE_TIMEOUT)

\* schedule_send_ack_to_clients
ack_timer(params) == SendAckTimer(time + params.send_ack_interval)

init(params) ==
    /\ idle /\ "init" \in Maintenance
    /\ check_validity(params)
    /\ PARAMS' = params
    /\ timers' = cancel_timers \cup {ack_timer(params)}
    /\ ACK_TIMER' = ack_timer(params)
    /\ KEEP_ALIVE_TIMER' = NoTimer
    /\ UNCHANGED <<client_vars, gateway_vars, loop_vars, time>>

\* The canister is upgraded: its heap and its timers are gone, its certified data
\* stays, and post_upgrade calls init.
upgrade(params) ==
    /\ idle /\ "upgrade" \in Maintenance
    /\ check_validity(params)
    /\ PARAMS' = params
    /\ timers' = {ack_timer(params)}
    /\ ACK_TIMER' = ack_timer(params)
    /\ KEEP_ALIVE_TIMER' = NoTimer
    /\ CLIENTS_WAITING_FOR_KEEP_ALIVE' = {}
    /\ REGISTERED_CLIENTS' = EmptyMap /\ CURRENT_CLIENT_KEY_MAP' = EmptyMap
    /\ OUTGOING_MESSAGE_TO_CLIENT_NUM_MAP' = EmptyMap
    /\ INCOMING_MESSAGE_FROM_CLIENT_NUM_MAP' = EmptyMap
    /\ REGISTERED_GATEWAYS' = EmptyMap /\ GATEWAYS_TO_REMOVE' = EmptyMap
    /\ CERT_TREE' = EmptyMap
    /\ UNCHANGED <<certified_data, loop_vars, time>>

----------------------------------------------------------------------------
(***************************************************************************)
(* Polling, a query: it changes nothing.                                   *)
(***************************************************************************)

\* Mutant: the range of the witness leaves its last key out.
in_half_open_range(n, first, last) == first <= n /\ n < last

in_range(n, first, last) == first <= n /\ n <= last

\* The part of the tree that get_cert_for_range reveals.
get_cert_for_range(g, first, last) ==
    Restrict(CERT_TREE, {key \in DOMAIN CERT_TREE :
                            key[1] = g /\ in_range(key[2], first, last)})

empty_reply == [messages |-> << >>, tree |-> EmptyMap, is_end_of_queue |-> TRUE]

get_cert_messages(g, nonce) ==
    LET gw  == REGISTERED_GATEWAYS[g]
        max == PARAMS.max_number_of_returned_messages
        messages == get_messages_for_gateway(gw, nonce, max)
    IN  IF messages = << >>
        THEN empty_reply
        ELSE [messages |-> messages,
              tree |-> get_cert_for_range(g, messages[1].key[2],
                                          messages[Len(messages)].key[2]),
              is_end_of_queue |-> is_end_of_queue(gw, nonce, max)]

ws_get_messages(g, nonce) ==
    IF g \in DOMAIN REGISTERED_GATEWAYS THEN get_cert_messages(g, nonce) ELSE empty_reply

----------------------------------------------------------------------------
(***************************************************************************)
(* The loops: wipe and the callbacks of the two timers.  A timer fires at  *)
(* its deadline or later, after every timer with an earlier deadline.      *)
(***************************************************************************)

start_loop(handler, keys) ==
    executing' = handler /\ client_keys' = keys /\ in_on_close' = FALSE

\* The loop comes to k.  It calls on_close there, or it does not.
next_iteration(k, handler, calls_on_close) ==
    /\ executing = handler
    /\ k \in client_keys
    /\ client_keys' = client_keys \ {k}
    /\ in_on_close' = calls_on_close
    /\ UNCHANGED executing

end_loop(handler) ==
    /\ executing = handler
    /\ client_keys = {}
    /\ executing' = "idle" /\ in_on_close' = FALSE
    /\ UNCHANGED client_keys

fires(t, callback) ==
    /\ t.callback = callback
    /\ t.deadline <= time
    /\ \A u \in timers : t.deadline <= u.deadline

wipe ==
    /\ idle /\ "wipe" \in Maintenance
    /\ start_loop("wipe", DOMAIN REGISTERED_CLIENTS)
    /\ UNCHANGED <<client_vars, gateway_vars, timer_vars, PARAMS, time>>

wipe_client(k) ==
    /\ next_iteration(k, "wipe", TRUE)
    /\ remove_client(k)
    /\ UNCHANGED <<timer_vars, PARAMS, time>>

\* REGISTERED_CLIENTS is empty by then, PARAMS stays.
wipe_end ==
    /\ end_loop("wipe")
    /\ CURRENT_CLIENT_KEY_MAP' = EmptyMap /\ CLIENTS_WAITING_FOR_KEEP_ALIVE' = {}
    /\ OUTGOING_MESSAGE_TO_CLIENT_NUM_MAP' = EmptyMap
    /\ INCOMING_MESSAGE_FROM_CLIENT_NUM_MAP' = EmptyMap
    /\ CERT_TREE' = EmptyMap
    /\ REGISTERED_GATEWAYS' = EmptyMap /\ GATEWAYS_TO_REMOVE' = EmptyMap
    /\ UNCHANGED <<REGISTERED_CLIENTS, certified_data, timer_vars, PARAMS, time>>

\* send_ack_to_clients_timer_callback
send_ack_to_clients ==
    /\ idle
    /\ \E t \in timers : fires(t, "send_ack")
    /\ start_loop("send_ack", DOMAIN REGISTERED_CLIENTS)
    /\ UNCHANGED <<client_vars, gateway_vars, timer_vars, PARAMS, time>>

send_ack(k) ==
    /\ next_iteration(k, "send_ack", FALSE)
    /\ ws_send(k, AckMessage(INCOMING_MESSAGE_FROM_CLIENT_NUM_MAP[k] - 1))
    /\ CLIENTS_WAITING_FOR_KEEP_ALIVE' = CLIENTS_WAITING_FOR_KEEP_ALIVE \cup {k}
    /\ UNCHANGED <<REGISTERED_CLIENTS, CURRENT_CLIENT_KEY_MAP, GATEWAYS_TO_REMOVE,
                   INCOMING_MESSAGE_FROM_CLIENT_NUM_MAP, timer_vars, PARAMS, time>>

\* schedule_check_keep_alive.  The interval timer starts again and keeps its id.
send_ack_end ==
    /\ end_loop("send_ack")
    /\ \E t \in timers :
           /\ fires(t, "send_ack")
           /\ timers' = (timers \ {t}) \cup {ack_timer(PARAMS),
                            CheckKeepAliveTimer(time + CLIENT_KEEP_ALIVE_TIMEOUT)}
           /\ ACK_TIMER' = IF ACK_TIMER = t THEN ack_timer(PARAMS) ELSE ACK_TIMER
    /\ KEEP_ALIVE_TIMER' = CheckKeepAliveTimer(time + CLIENT_KEEP_ALIVE_TIMEOUT)
    /\ UNCHANGED <<client_vars, gateway_vars, PARAMS, time>>

\* Mutant: a gateway is not given the interval.
any_empty_gateway(g) == TRUE

is_expired_gateway(g) == time - GATEWAYS_TO_REMOVE[g] > PARAMS.send_ack_interval

\* Mutant: the check does not look at the gateways.
no_gateway_is_removed == UNCHANGED gateway_vars

\* Mutant: the hashes of a removed gateway's messages stay in the tree.
remove_gateways_only ==
    LET expired == {g \in DOMAIN GATEWAYS_TO_REMOVE : is_expired_gateway(g)}
    IN  /\ GATEWAYS_TO_REMOVE' = remove(GATEWAYS_TO_REMOVE, expired)
        /\ REGISTERED_GATEWAYS' = remove(REGISTERED_GATEWAYS, expired)
        /\ UNCHANGED <<CERT_TREE, certified_data>>

\* Mutant: the root hash is not certified after the hashes are deleted.
remove_gateways_uncertified ==
    LET expired == {g \in DOMAIN GATEWAYS_TO_REMOVE : is_expired_gateway(g)}
        removed == expired \cap DOMAIN REGISTERED_GATEWAYS
    IN  /\ GATEWAYS_TO_REMOVE' = remove(GATEWAYS_TO_REMOVE, expired)
        /\ REGISTERED_GATEWAYS' = remove(REGISTERED_GATEWAYS, expired)
        /\ CERT_TREE' = remove(CERT_TREE,
                              UNION {keys_of(REGISTERED_GATEWAYS[g]) : g \in removed})
        /\ UNCHANGED certified_data

\* The tree is certified again only when a gateway is removed.
remove_empty_expired_gateways ==
    LET expired == {g \in DOMAIN GATEWAYS_TO_REMOVE : is_expired_gateway(g)}
        removed == expired \cap DOMAIN REGISTERED_GATEWAYS
    IN  /\ GATEWAYS_TO_REMOVE' = remove(GATEWAYS_TO_REMOVE, expired)
        /\ REGISTERED_GATEWAYS' = remove(REGISTERED_GATEWAYS, expired)
        /\ CERT_TREE' = remove(CERT_TREE,
                              UNION {keys_of(REGISTERED_GATEWAYS[g]) : g \in removed})
        /\ IF removed = {} THEN UNCHANGED certified_data ELSE certify

\* Mutant: every client that is waited for is taken to be silent.
is_waited_for(k) == TRUE

\* Mutant: the age of the keep alive is compared with the acknowledgement interval.
is_silent_late(k) ==
    time - REGISTERED_CLIENTS[k].last_keep_alive_timestamp > PARAMS.send_ack_interval

is_silent(k) ==
    time - REGISTERED_CLIENTS[k].last_keep_alive_timestamp > CLIENT_KEEP_ALIVE_TIMEOUT

\* check_keep_alive_timer_callback, up to its loop
check_keep_alive ==
    /\ idle
    /\ \E t \in timers : fires(t, "check_keep_alive") /\ timers' = timers \ {t}
    /\ remove_empty_expired_gateways
    /\ start_loop("check_keep_alive",
           {k \in CLIENTS_WAITING_FOR_KEEP_ALIVE \cap DOMAIN REGISTERED_CLIENTS :
               is_silent(k)})
    /\ UNCHANGED <<client_vars, ACK_TIMER, KEEP_ALIVE_TIMER, PARAMS, time>>

close_silent_client(k) ==
    /\ next_iteration(k, "check_keep_alive", TRUE)
    /\ close_client(k, "KeepAliveTimeout")
    /\ UNCHANGED <<timer_vars, PARAMS, time>>

check_keep_alive_end ==
    /\ end_loop("check_keep_alive")
    /\ UNCHANGED <<client_vars, gateway_vars, timer_vars, PARAMS, time>>

\* Time passes between messages.  Bounds: MaxTime, and MaxTimerDelay for the timers.
tick ==
    /\ idle
    /\ time < MaxTime
    /\ \A t \in timers : time < t.deadline + MaxTimerDelay
    /\ time' = time + 1
    /\ UNCHANGED <<client_vars, gateway_vars, timer_vars, loop_vars, PARAMS>>

----------------------------------------------------------------------------

\* The canister is installed and calls init.
Init ==
    /\ REGISTERED_CLIENTS = EmptyMap /\ CURRENT_CLIENT_KEY_MAP = EmptyMap
    /\ CLIENTS_WAITING_FOR_KEEP_ALIVE = {}
    /\ OUTGOING_MESSAGE_TO_CLIENT_NUM_MAP = EmptyMap
    /\ INCOMING_MESSAGE_FROM_CLIENT_NUM_MAP = EmptyMap
    /\ REGISTERED_GATEWAYS = EmptyMap /\ GATEWAYS_TO_REMOVE = EmptyMap
    /\ CERT_TREE = EmptyMap /\ certified_data = EmptyMap
    /\ PARAMS \in {params \in InitParams : check_validity(params)}
    /\ time = 0
    /\ ACK_TIMER = ack_timer(PARAMS) /\ KEEP_ALIVE_TIMER = NoTimer
    /\ timers = {ACK_TIMER}
    /\ executing = "idle" /\ client_keys = {} /\ in_on_close = FALSE

Next ==
    \/ \E p \in Principal, nonce \in ClientNonce, g \in Gateway : ws_open(p, nonce, g)
    \/ \E g \in Gateway, k \in ClientKey : ws_close(g, k)
    \/ \E p \in Principal, k \in ClientKey :
           \/ ws_message(p, k)
           \/ ws_message_keep_alive(p, k)
           \/ ws_message_wrong_sequence_number(p, k)
    \/ \E p \in Principal : send(p) \/ close(p)
    \/ \E params \in InitParams : init(params) \/ upgrade(params)
    \/ wipe \/ wipe_end
    \/ send_ack_to_clients \/ send_ack_end
    \/ check_keep_alive \/ check_keep_alive_end
    \/ \E k \in client_keys : wipe_client(k) \/ send_ack(k) \/ close_silent_client(k)
    \/ tick

Spec == Init /\ [][Next]_vars

----------------------------------------------------------------------------
(***************************************************************************)
(* Properties.                                                             *)
(***************************************************************************)

GatewayRecord ==
    [messages_queue : Seq(Message), messages_to_delete : Seq(Nat),
     outgoing_message_nonce : Nat, connected_clients_count : Nat]

MapInto(map, S, T) == map \in [DOMAIN map -> T] /\ DOMAIN map \subseteq S

Timer == [callback : {"send_ack", "check_keep_alive"}, deadline : Nat]

TypeOK ==
    /\ MapInto(REGISTERED_CLIENTS, ClientKey, RegisteredClient)
    /\ MapInto(CURRENT_CLIENT_KEY_MAP, Principal, ClientKey)
    /\ CLIENTS_WAITING_FOR_KEEP_ALIVE \subseteq ClientKey
    /\ MapInto(OUTGOING_MESSAGE_TO_CLIENT_NUM_MAP, ClientKey, Nat)
    /\ MapInto(INCOMING_MESSAGE_FROM_CLIENT_NUM_MAP, ClientKey, Nat \ {0})
    /\ MapInto(CERT_TREE, Gateway \X Nat, Message)
    /\ MapInto(certified_data, Gateway \X Nat, Message)
    /\ MapInto(REGISTERED_GATEWAYS, Gateway, GatewayRecord)
    /\ MapInto(GATEWAYS_TO_REMOVE, Gateway, Nat)
    /\ PARAMS \in InitParams
    /\ ACK_TIMER \in Timer /\ KEEP_ALIVE_TIMER \in Timer \cup {NoTimer}
    /\ timers \subseteq Timer
    /\ time \in Nat
    /\ executing \in {"idle", "wipe", "send_ack", "check_keep_alive"}
    /\ client_keys \subseteq ClientKey
    /\ in_on_close \in BOOLEAN

\* The five structures that hold clients (state.rs:21-29) agree: the three maps by
\* client key have the same keys, a principal has at most one session and
\* CURRENT_CLIENT_KEY_MAP finds it, no client is waited for that is not registered.
RegistryConsistent ==
    /\ DOMAIN OUTGOING_MESSAGE_TO_CLIENT_NUM_MAP = DOMAIN REGISTERED_CLIENTS
    /\ DOMAIN INCOMING_MESSAGE_FROM_CLIENT_NUM_MAP = DOMAIN REGISTERED_CLIENTS
    /\ CLIENTS_WAITING_FOR_KEEP_ALIVE \subseteq DOMAIN REGISTERED_CLIENTS
    /\ \A k \in DOMAIN REGISTERED_CLIENTS :
           /\ k.client_principal \in DOMAIN CURRENT_CLIENT_KEY_MAP
           /\ CURRENT_CLIENT_KEY_MAP[k.client_principal] = k
    /\ \A p \in DOMAIN CURRENT_CLIENT_KEY_MAP :
           /\ CURRENT_CLIENT_KEY_MAP[p] \in DOMAIN REGISTERED_CLIENTS
           /\ CURRENT_CLIENT_KEY_MAP[p].client_principal = p

\* A loop runs over a copy of the client keys made before its first iteration
\* (state.rs:42, timers.rs:116): what it calls on the way, and the application's
\* on_close, leaves every client it still has to come to registered.
LoopKeysAreRegistered ==
    /\ client_keys \subseteq DOMAIN REGISTERED_CLIENTS
    /\ executing = "idle" => client_keys = {}
    /\ executing = "wipe" => client_keys = DOMAIN REGISTERED_CLIENTS

\* The gateway of a registered client is registered, so that a send to it cannot
\* fail; a gateway counts its clients exactly, so that its count never saturates
\* at 0; it is due for removal exactly while it has none.
GatewayCounts ==
    /\ \A k \in DOMAIN REGISTERED_CLIENTS : gateway_of(k) \in DOMAIN REGISTERED_GATEWAYS
    /\ \A g \in DOMAIN REGISTERED_GATEWAYS :
           REGISTERED_GATEWAYS[g].connected_clients_count = Cardinality(clients_of(g))
    /\ DOMAIN GATEWAYS_TO_REMOVE = {g \in DOMAIN REGISTERED_GATEWAYS : clients_of(g) = {}}

\* The record gw of gateway g at the time now.
QueueInOrder(gw, g, now) ==
    LET queue == gw.messages_queue
        ages  == gw.messages_to_delete
    IN  /\ Len(ages) = Len(queue)
        /\ Len(queue) <= gw.outgoing_message_nonce
        /\ \A i \in 1..Len(queue) :
               /\ queue[i].key = <<g, gw.outgoing_message_nonce - Len(queue) + i - 1>>
               /\ ages[i] = queue[i].timestamp
               /\ ages[i] <= now
        /\ \A i, j \in 1..Len(queue) : i <= j => ages[i] <= ages[j]

\* The two queues of a gateway move in lockstep (the unwrap at types.rs:260 relies
\* on it), the nonces of the queue are contiguous and end before the next nonce
\* (partition_point at state.rs:377 relies on it), and the timestamps do not
\* decrease and are not ahead of the clock (the subtraction at types.rs:255).
QueuesInOrder ==
    \A g \in DOMAIN REGISTERED_GATEWAYS : QueueInOrder(REGISTERED_GATEWAYS[g], g, time)

\* The tree holds exactly the messages that can be polled, each under its key.
CertTreeMatchesQueues ==
    /\ DOMAIN CERT_TREE =
           UNION {keys_of(REGISTERED_GATEWAYS[g]) : g \in DOMAIN REGISTERED_GATEWAYS}
    /\ \A g \in DOMAIN REGISTERED_GATEWAYS :
           \A i \in DOMAIN REGISTERED_GATEWAYS[g].messages_queue :
               LET m == REGISTERED_GATEWAYS[g].messages_queue[i]
               IN  CERT_TREE[m.key] = m

\* Whenever a gateway has something to poll, the certified root hash is that of
\* the tree the witness is cut from: wipe and upgrade leave it stale only while
\* every queue is empty.
ServedMessagesAreCertified ==
    (\E g \in DOMAIN REGISTERED_GATEWAYS : REGISTERED_GATEWAYS[g].messages_queue # << >>)
        => certified_data = CERT_TREE

pending(g, nonce) ==
    {m \in Range(REGISTERED_GATEWAYS[g].messages_queue) : m.key[2] >= nonce}
polls ==
    UNION {{<<g, nonce>> : nonce \in 0..REGISTERED_GATEWAYS[g].outgoing_message_nonce + 1}
           : g \in DOMAIN REGISTERED_GATEWAYS}

\* A poll from any nonce returns the pending messages without a gap and in order, as
\* many as the maximum allows, and says whether it returned all of them: a gateway
\* that goes on after the last nonce it got misses nothing.
PollIsExact ==
    \A poll \in polls :
        LET g     == poll[1]
            reply == ws_get_messages(g, poll[2])
            got   == Range(reply.messages)
            all   == pending(g, poll[2])
        IN  /\ got \subseteq all
            /\ \A m \in got, n \in all : n.key[2] < m.key[2] => n \in got
            /\ \A i, j \in DOMAIN reply.messages :
                   i < j => reply.messages[i].key[2] < reply.messages[j].key[2]
            /\ Len(reply.messages) <= PARAMS.max_number_of_returned_messages
            /\ got = all \/ Len(reply.messages) = PARAMS.max_number_of_returned_messages
            /\ reply.is_end_of_queue <=> got = all

\* types.rs:163 says of the flag: "Whether the end of the messages queue has been
\* reached".  If it is set, no message is left to poll.
EndOfQueueIsReached ==
    \A poll \in polls :
        LET reply == ws_get_messages(poll[1], poll[2])
        IN  reply.is_end_of_queue => Range(reply.messages) = pending(poll[1], poll[2])

\* The witness of a poll reveals exactly the messages returned, each under its key,
\* and it is cut from a tree whose root hash is the certified one: the hash of every
\* key in it, of this gateway or of another, is what was certified.
PollIsCertified ==
    \A poll \in polls :
        LET reply == ws_get_messages(poll[1], poll[2])
        IN  /\ DOMAIN reply.tree = {m.key : m \in Range(reply.messages)}
            /\ \A m \in Range(reply.messages) : reply.tree[m.key] = m
            /\ reply.messages # << >> => certified_data = CERT_TREE

\* The message b may be the next one of a client after the message a.
may_follow(a, b) ==
    \/ b.content = OpenMessage
    \/ a.content.kind # "CloseMessage" /\ b.sequence_num = a.sequence_num + 1

next_in(queue, i, j) ==
    /\ i < j /\ queue[i].client_key = queue[j].client_key
    /\ \A h \in i + 1..j - 1 : queue[h].client_key # queue[i].client_key

last_in(queue, i) ==
    \A h \in i + 1..Len(queue) : queue[h].client_key # queue[i].client_key

\* Every message of the queue may follow the one before it of its client.
Numbered(queue) ==
    /\ \A i \in 1..Len(queue) :
           queue[i].content = OpenMessage <=> queue[i].sequence_num = 1
    /\ \A i, j \in 1..Len(queue) : next_in(queue, i, j) => may_follow(queue[i], queue[j])

StreamInOrder(queue, g) ==
    /\ Numbered(queue)
    /\ \A i \in 1..Len(queue) :
           last_in(queue, i) /\ queue[i].client_key \in clients_of(g) =>
               /\ queue[i].content.kind # "CloseMessage"
               /\ queue[i].sequence_num =
                      OUTGOING_MESSAGE_TO_CLIENT_NUM_MAP[queue[i].client_key]

\* In a queue, the messages of one client key carry consecutive numbers from the
\* open message on, nothing follows a close message but the open message of the
\* next session, and the last one of a registered client carries its number.
StreamsInOrder ==
    \A g \in DOMAIN REGISTERED_GATEWAYS :
        StreamInOrder(REGISTERED_GATEWAYS[g].messages_queue, g)

\* The only timers that are set are the two whose ids are tracked, so that init
\* can cancel all of them; a keep alive timer is never lost by the next one
\* (timers.rs:71), because check_validity makes it fire first.
TimersAreTracked ==
    /\ timers \subseteq {ACK_TIMER, KEEP_ALIVE_TIMER}
    /\ ACK_TIMER \in timers
    /\ executing = "send_ack" => timers = {ACK_TIMER}

forgets_everything == wipe_end \/ \E params \in InitParams : upgrade(params)

\* A message can be polled for the acknowledgement interval after it was sent,
\* also when its gateway is removed, unless the canister forgets everything.
MessagesAreKept ==
    [][\/ forgets_everything
       \/ \A g \in DOMAIN REGISTERED_GATEWAYS :
              \A m \in Range(REGISTERED_GATEWAYS[g].messages_queue) :
                  time - m.timestamp <= PARAMS.send_ack_interval =>
                      /\ g \in DOMAIN REGISTERED_GATEWAYS'
                      /\ m \in Range(REGISTERED_GATEWAYS'[g].messages_queue)]_vars

\* "If a client has not sent a keep alive message, it is removed" (timers.rs:110):
\* one that sent a keep alive after the last acknowledgement stays.
AnsweredAckKeepsClient ==
    [][executing = "check_keep_alive" =>
          \A k \in DOMAIN REGISTERED_CLIENTS \ DOMAIN REGISTERED_CLIENTS' :
              REGISTERED_CLIENTS[k].last_keep_alive_timestamp
                  <= KEEP_ALIVE_TIMER.deadline - CLIENT_KEEP_ALIVE_TIMEOUT]_vars

\* Without another init, a client that stays silent is removed within an
\* acknowledgement interval and a keep alive timeout (plus what the timers are late).
SilentClientsAreRemoved ==
    \A k \in DOMAIN REGISTERED_CLIENTS :
        time - REGISTERED_CLIENTS[k].last_keep_alive_timestamp
            <= PARAMS.send_ack_interval + CLIENT_KEEP_ALIVE_TIMEOUT + 2 * MaxTimerDelay

\* Without another init, a gateway without clients is removed within two intervals
\* (plus what the timers are late).
EmptyGatewaysAreRemoved ==
    \A g \in DOMAIN GATEWAYS_TO_REMOVE :
        time - GATEWAYS_TO_REMOVE[g] <= 2 * (PARAMS.send_ack_interval + MaxTimerDelay)
=============================================================================
