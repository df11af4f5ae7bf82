----------------------------- MODULE MCWsSystem -----------------------------
(***************************************************************************)
(* Constants of the runs of WsSystem.                                      *)
(***************************************************************************)
EXTENDS WsSystem, TLC

Params(intervals, batches) ==
    [send_ack_interval : intervals, max_number_of_returned_messages : batches]

MCOneMessage == Params({4}, {1})
MCTwoMessages == Params({3}, {2})

\* Clients and gateways are interchangeable.
MCSymmetry == Permutations(Principal \ {Anonymous}) \cup Permutations(ClientNonce)
              \cup Permutations(Gateway)
=============================================================================
