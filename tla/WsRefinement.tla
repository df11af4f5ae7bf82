---------------------------- MODULE WsRefinement ----------------------------
(***************************************************************************)
(* WsCdk implements WsService.                                             *)
(***************************************************************************)
EXTENDS WsCdk

\* The session of p, from the five maps.
session_of(p) ==
    LET k == CURRENT_CLIENT_KEY_MAP[p]
    IN  [nonce    |-> k.client_nonce,
         gateway  |-> gateway_of(k),
         sent     |-> OUTGOING_MESSAGE_TO_CLIENT_NUM_MAP[k],
         received |-> INCOMING_MESSAGE_FROM_CLIENT_NUM_MAP[k] - 1,
         heard    |-> REGISTERED_CLIENTS[k].last_keep_alive_timestamp,
         asked    |-> k \in CLIENTS_WAITING_FOR_KEEP_ALIVE]

log_of(gw) ==
    [start    |-> gw.outgoing_message_nonce - Len(gw.messages_queue),
     messages |-> gw.messages_queue]

Service == INSTANCE WsService WITH
    Principal <- Principal \ {Anonymous},
    Interval  <- {params.send_ack_interval : params \in {q \in InitParams : check_validity(q)}},
    Timeout   <- CLIENT_KEEP_ALIVE_TIMEOUT,
    sessions  <- [p \in DOMAIN CURRENT_CLIENT_KEY_MAP |-> session_of(p)],
    logs      <- [g \in DOMAIN REGISTERED_GATEWAYS |-> log_of(REGISTERED_GATEWAYS[g])],
    interval  <- PARAMS.send_ack_interval,
    now       <- time

\* Every handler, and every step of a loop, is one thing the service may do or none:
\* seen through the sessions and the logs, no message is lost, altered, numbered twice
\* or forgotten too early, no session ends for silence that was not asked, and no log
\* goes while a session uses it.
ImplementsService == Service!ServiceSpec
=============================================================================
