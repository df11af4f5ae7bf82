------------------------------ MODULE WsReplies ------------------------------
(***************************************************************************)
(* What the endpoints and functions of the CDK answer: Ok, or the WsError  *)
(* of the first check that fails, in the order of the code.  WsCdk has no  *)
(* action for a call that is refused before it changes anything; here is   *)
(* what such a call gets, and why a call that has passed the checks does   *)
(* not fail half way.  Two errors come after a change: that of a wrong     *)
(* number, whose client has been removed, and that of a service message    *)
(* which a client may not send or which cannot be decoded, whose number    *)
(* has been counted (WsCdk!ws_message).                                    *)
(***************************************************************************)
EXTENDS WsCdk

Ok == "Ok"

\* The `?' operator: a fails, or b is the result.
a ++ b == IF a = Ok THEN b ELSE a

check(condition, error) == IF condition THEN Ok ELSE error

check_is_gateway_registered(g) ==
    check(g \in DOMAIN REGISTERED_GATEWAYS, "GatewayNotRegistered")

check_registered_client_exists(k) ==
    check(k \in DOMAIN REGISTERED_CLIENTS, "ClientKeyNotConnected")

check_client_registered_to_gateway(k, g) ==
    check_registered_client_exists(k)
    ++ check(gateway_of(k) = g, "ClientNotRegisteredToGateway")

get_client_key_from_principal(p) ==
    check(p \in DOMAIN CURRENT_CLIENT_KEY_MAP, "ClientPrincipalNotConnected")

get_outgoing_message_to_client_num(k) ==
    check(k \in DOMAIN OUTGOING_MESSAGE_TO_CLIENT_NUM_MAP,
          "OutgoingMessageToClientNumNotInitialized")

get_expected_incoming_message_from_client_num(k) ==
    check(k \in DOMAIN INCOMING_MESSAGE_FROM_CLIENT_NUM_MAP,
          "ExpectedIncomingMessageToClientNumNotInitialized")

----------------------------------------------------------------------------

\* The nonce of the gateway is incremented between the second check and the third.
_ws_send(k) ==
    check_registered_client_exists(k)
    ++ check_is_gateway_registered(gateway_of(k))
    ++ get_outgoing_message_to_client_num(k)

ws_open_reply(p, nonce) ==
    LET k == [client_principal |-> p, client_nonce |-> nonce]
    IN  check(p # Anonymous, "AnonymousPrincipalNotAllowed")
        ++ check(check_registered_client_exists(k) # Ok, "ClientKeyAlreadyConnected")

\* Mutant: the gateway may close a client of another gateway.
ws_close_without_check(g, k) ==
    check_is_gateway_registered(g) ++ check_registered_client_exists(k)

ws_close_reply(g, k) ==
    check_is_gateway_registered(g)
    ++ check_registered_client_exists(k)
    ++ check_client_registered_to_gateway(k, g)

\* What the content of a message from a client may be: the application's bytes, or
\* with is_service_message a variant of WebsocketServiceMessageContent, or neither.
IncomingContent ==
    {"application", "undecodable",
     "OpenMessage", "AckMessage", "KeepAliveMessage", "CloseMessage"}

handle_received_service_message(content) ==
    check(content # "undecodable", "DecodeServiceMessageContent")
    ++ check(content = "KeepAliveMessage", "InvalidServiceMessage")

\* The client is removed when the check of the number fails; the number is counted
\* when it passes, before the content is looked at.
ws_message_reply(p, k, sequence_num, content) ==
    get_client_key_from_principal(p)
    ++ check(k = CURRENT_CLIENT_KEY_MAP[p], "ClientKeyMessageMismatch")
    ++ get_expected_incoming_message_from_client_num(k)
    ++ check(sequence_num = INCOMING_MESSAGE_FROM_CLIENT_NUM_MAP[k],
             "IncomingSequenceNumberWrong")
    ++ IF content = "application" THEN Ok ELSE handle_received_service_message(content)

send_reply(p) ==
    get_client_key_from_principal(p) ++ _ws_send(CURRENT_CLIENT_KEY_MAP[p])

close_reply(p) == get_client_key_from_principal(p)

----------------------------------------------------------------------------

\* What the client with key k gets for its next message: Ok if it is the application's
\* or a keep alive, and otherwise the error about its content, never one about its
\* session or its number.
next_message_reply(content) ==
    CASE content \in {"application", "KeepAliveMessage"} -> Ok
      [] content = "undecodable" -> "DecodeServiceMessageContent"
      [] OTHER -> "InvalidServiceMessage"

\* Whoever holds a session is served: its next message is refused for its content or
\* not at all, and sends to it, its closing by the application and by its own gateway
\* are not refused.  In particular a send never fails between taking a nonce and
\* using it, which would leave a gap in the gateway's queue, and the errors that
\* timers.rs:79 and :100 say should not happen do not.
SessionsAreServed ==
    \A k \in DOMAIN REGISTERED_CLIENTS :
        LET p == k.client_principal
            n == INCOMING_MESSAGE_FROM_CLIENT_NUM_MAP[k]
        IN  /\ \A content \in IncomingContent :
                   ws_message_reply(p, k, n, content) = next_message_reply(content)
            /\ send_reply(p) = Ok /\ close_reply(p) = Ok
            /\ get_expected_incoming_message_from_client_num(k) = Ok
            /\ ws_close_reply(gateway_of(k), k) = Ok

\* Nobody else gets through: the key of a session that was replaced or ended is of no
\* use to its client whatever it sends with it, and a gateway can close the clients it serves and no others.
OldSessionsAreRefused ==
    \A k \in ClientKey :
        LET p == k.client_principal
        IN  /\ k \notin DOMAIN REGISTERED_CLIENTS =>
                   \A n \in 1..MaxIncoming + 1, content \in IncomingContent :
                       ws_message_reply(p, k, n, content) =
                           IF current_keys(p) = {} THEN "ClientPrincipalNotConnected"
                           ELSE "ClientKeyMessageMismatch"
            /\ \A g \in Gateway : ws_close_reply(g, k) = Ok <=> k \in clients_of(g)
            /\ ws_open_reply(p, k.client_nonce) = Ok
                   <=> p # Anonymous /\ k \notin DOMAIN REGISTERED_CLIENTS
=============================================================================
