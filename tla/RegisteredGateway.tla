------------------------- MODULE RegisteredGateway -------------------------
(***************************************************************************)
(* The record the CDK keeps per WS Gateway (types.rs, RegisteredGateway)   *)
(* and what the canister reads from it when the gateway polls (state.rs,   *)
(* get_messages_for_gateway_range and get_messages_for_gateway).           *)
(*                                                                         *)
(* A message of a queue is a record whose field key is the pair            *)
(* <<gateway, nonce>>.  The code writes the nonce with 20 decimal digits,  *)
(* so that comparing two keys of one gateway as strings compares their     *)
(* nonces as numbers: here the nonces are compared.                        *)
(***************************************************************************)
EXTENDS Integers, Sequences

INITIAL_OUTGOING_MESSAGE_NONCE == 0

\* RegisteredGateway::new
new_gateway ==
    [messages_queue          |-> << >>,
     messages_to_delete      |-> << >>,
     outgoing_message_nonce  |-> INITIAL_OUTGOING_MESSAGE_NONCE,
     connected_clients_count |-> 0]

increment_clients_count(gw) == [gw EXCEPT !.connected_clients_count = @ + 1]

\* Mutant: the count is left alone.
no_decrement(gw) == gw

\* saturating_sub(1)
decrement_clients_count(gw) ==
    [gw EXCEPT !.connected_clients_count = IF @ = 0 THEN 0 ELSE @ - 1]

----------------------------------------------------------------------------
(***************************************************************************)
(* Adding a message.  messages_to_delete holds the timestamp of each       *)
(* message of messages_queue (its struct has no other field).              *)
(***************************************************************************)

\* increment_nonce, then add_message_to_queue
add_message_to_queue(gw, message, message_timestamp) ==
    [gw EXCEPT !.messages_queue         = Append(@, message),
               !.messages_to_delete     = Append(@, message_timestamp),
               !.outgoing_message_nonce = @ + 1]

----------------------------------------------------------------------------
(***************************************************************************)
(* delete_old_messages pops at most n messages, and stops at the first     *)
(* that is not older than message_max_age (a strict comparison).           *)
(***************************************************************************)

\* Mutant: a comparison that is not strict.
at_least_max_age(timestamp, time, message_max_age) ==
    time - timestamp >= message_max_age

older_than(timestamp, time, message_max_age) ==
    time - timestamp > message_max_age

\* The number of messages the loop of delete_old_messages pops.
delete_count(gw, n, time, message_max_age) ==
    LET front(i) == i <= Len(gw.messages_to_delete)
                    /\ older_than(gw.messages_to_delete[i], time, message_max_age)
    IN  CHOOSE d \in 0..n : /\ \A i \in 1..d : front(i)
                            /\ d < n => ~front(d + 1)

\* Mutant: the timestamps of deleted messages stay.
delete_only_messages(gw, n, time, message_max_age) ==
    LET d == delete_count(gw, n, time, message_max_age)
    IN  [gw EXCEPT !.messages_queue = SubSeq(@, d + 1, Len(@))]

delete_old_messages(gw, n, time, message_max_age) ==
    LET d == delete_count(gw, n, time, message_max_age)
    IN  [gw EXCEPT !.messages_queue     = SubSeq(@, d + 1, Len(@)),
                   !.messages_to_delete = SubSeq(@, d + 1, Len(@))]

\* The value delete_old_messages returns: the keys it popped.
deleted_keys(gw, n, time, message_max_age) ==
    {gw.messages_queue[i].key : i \in 1..delete_count(gw, n, time, message_max_age)}

keys_of(gw) == {gw.messages_queue[i].key : i \in DOMAIN gw.messages_queue}

----------------------------------------------------------------------------
(***************************************************************************)
(* Polling.  start_index is the number of messages before the first whose  *)
(* key is not smaller than that of the nonce asked for: partition_point.   *)
(***************************************************************************)

start_index(gw, nonce) ==
    CHOOSE s \in 0..Len(gw.messages_queue) :
        /\ \A i \in 1..s : gw.messages_queue[i].key[2] < nonce
        /\ \A i \in s + 1..Len(gw.messages_queue) :
               gw.messages_queue[i].key[2] >= nonce

\* Mutant: the batch is cut one message short of the end of the queue.
end_index_off_by_one(gw, nonce, max) ==
    IF Len(gw.messages_queue) - start_index(gw, nonce) >= max
    THEN start_index(gw, nonce) + max - 1
    ELSE Len(gw.messages_queue)

end_index(gw, nonce, max) ==
    IF Len(gw.messages_queue) - start_index(gw, nonce) > max
    THEN start_index(gw, nonce) + max
    ELSE Len(gw.messages_queue)

is_end_of_queue(gw, nonce, max) ==
    ~(Len(gw.messages_queue) - start_index(gw, nonce) > max)

get_messages_for_gateway(gw, nonce, max) ==
    SubSeq(gw.messages_queue, start_index(gw, nonce) + 1, end_index(gw, nonce, max))
=============================================================================
