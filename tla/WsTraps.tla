------------------------------ MODULE WsTraps ------------------------------
(***************************************************************************)
(* WsCdk with an application whose callbacks may trap.  The CDK does not   *)
(* catch a trap (types.rs, call_on_open: "we just let the canister trap"), *)
(* and the IC undoes everything the message it happens in has done.        *)
(*                                                                         *)
(* In a handler that is one action of WsCdk the trap undoes that action:   *)
(* the call has not happened, and nothing is to be added here.  In a loop  *)
(* it undoes the iterations before it too, and what the handler did before *)
(* its loop.  Only wipe and the keep alive check call on_close in a loop.  *)
(* Of a check that trapped, ic_cdk_timers keeps that its timer has fired.  *)
(***************************************************************************)
EXTENDS WsCdk

CONSTANT MaxTraps   \* bound: how often a callback traps in a loop

ASSUME MaxTrapsAssumption == MaxTraps \in Nat

VARIABLES
    saved,   \* the maps as they were when the running loop's message began
    traps    \* the clients in whose on_close such a message was undone, in order

trap_vars == <<vars, saved, traps>>

heap ==
    [clients |-> REGISTERED_CLIENTS, current |-> CURRENT_CLIENT_KEY_MAP,
     waiting |-> CLIENTS_WAITING_FOR_KEEP_ALIVE,
     outgoing |-> OUTGOING_MESSAGE_TO_CLIENT_NUM_MAP,
     incoming |-> INCOMING_MESSAGE_FROM_CLIENT_NUM_MAP,
     gateways |-> REGISTERED_GATEWAYS, to_remove |-> GATEWAYS_TO_REMOVE,
     tree |-> CERT_TREE, certified |-> certified_data]
nothing == << >>

calls_on_close_in_a_loop == executing \in {"wipe", "check_keep_alive"}

restore ==
    /\ REGISTERED_CLIENTS' = saved.clients /\ CURRENT_CLIENT_KEY_MAP' = saved.current
    /\ CLIENTS_WAITING_FOR_KEEP_ALIVE' = saved.waiting
    /\ OUTGOING_MESSAGE_TO_CLIENT_NUM_MAP' = saved.outgoing
    /\ INCOMING_MESSAGE_FROM_CLIENT_NUM_MAP' = saved.incoming
    /\ REGISTERED_GATEWAYS' = saved.gateways /\ GATEWAYS_TO_REMOVE' = saved.to_remove
    /\ CERT_TREE' = saved.tree /\ certified_data' = saved.certified

\* The loop comes to k, removes it and calls on_close, which traps.
on_close_traps(k) ==
    /\ calls_on_close_in_a_loop
    /\ k \in client_keys
    /\ Len(traps) < MaxTraps
    /\ traps' = Append(traps, k)
    /\ restore
    /\ saved' = nothing
    /\ executing' = "idle" /\ client_keys' = {} /\ in_on_close' = FALSE
    /\ UNCHANGED <<timer_vars, PARAMS, time>>

runs_without_trap ==
    /\ Next
    /\ saved' = IF ~calls_on_close_in_a_loop' THEN nothing
                ELSE IF idle THEN heap ELSE saved
    /\ UNCHANGED traps

TrapInit == Init /\ saved = nothing /\ traps = << >>

TrapNext == runs_without_trap \/ \E k \in client_keys : on_close_traps(k)

TrapSpec == TrapInit /\ [][TrapNext]_trap_vars

----------------------------------------------------------------------------

\* While timers fire on time and no second init shortens the interval, every client has
\* been sent its open message or an acknowledgement within the last interval, and its
\* gateway can still poll it: a check that traps, whose timer is used up, does not stop
\* the rounds of acknowledgements and checks that follow.
ClientsAreAcknowledged ==
    MaxTimerDelay = 0 /\ executing # "send_ack" =>
        \A k \in DOMAIN REGISTERED_CLIENTS :
            \E i \in DOMAIN REGISTERED_GATEWAYS[gateway_of(k)].messages_queue :
                LET m == REGISTERED_GATEWAYS[gateway_of(k)].messages_queue[i]
                IN  /\ m.client_key = k
                    /\ m.content.kind \in {"OpenMessage", "AckMessage"}
                    /\ time - m.timestamp <= PARAMS.send_ack_interval

\* A trap keeps the silent clients of that check, also those whose on_close does not
\* trap, and the gateways without clients, for one more interval and not longer.
TrapsOnlyDelay ==
    LET delay == Len(traps) * (PARAMS.send_ack_interval + MaxTimerDelay)
    IN  /\ \A k \in DOMAIN REGISTERED_CLIENTS :
               time - REGISTERED_CLIENTS[k].last_keep_alive_timestamp
                   <= PARAMS.send_ack_interval + CLIENT_KEEP_ALIVE_TIMEOUT
                      + 2 * MaxTimerDelay + delay
        /\ \A g \in DOMAIN GATEWAYS_TO_REMOVE :
               time - GATEWAYS_TO_REMOVE[g]
                   <= 2 * (PARAMS.send_ack_interval + MaxTimerDelay) + delay

\* types.rs:416 says: "if the callbacks that you define here trap for some reason, the
\* CDK will disconnect the client".  At the latest when it is silent for so long that
\* it would be removed without a trap.
TrappedClientsAreDisconnected ==
    \A k \in Range(traps) \cap DOMAIN REGISTERED_CLIENTS :
        time - REGISTERED_CLIENTS[k].last_keep_alive_timestamp
            <= PARAMS.send_ack_interval + CLIENT_KEEP_ALIVE_TIMEOUT + 2 * MaxTimerDelay
=============================================================================
