----------------------------- MODULE MCWsTraps -----------------------------
(***************************************************************************)
(* Constants of the runs of WsTraps.                                       *)
(***************************************************************************)
EXTENDS WsTraps, TLC

MCTwoMessages ==
    [send_ack_interval : {2}, max_number_of_returned_messages : {2}]

\* Clients and gateways are interchangeable.
MCSymmetry == Permutations(Principal \ {Anonymous}) \cup Permutations(ClientNonce)
              \cup Permutations(Gateway)
=============================================================================
