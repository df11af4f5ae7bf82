------------------------------ MODULE MCWsCdk ------------------------------
(***************************************************************************)
(* Constants of the runs of WsCdk that a configuration cannot write.       *)
(***************************************************************************)
EXTENDS WsReplies, WsRefinement, TLC

Params(intervals, batches) ==
    [send_ack_interval : intervals, max_number_of_returned_messages : batches]

MCOneMessage == Params({2}, {1})
MCOneOrTwoMessages == Params({2}, {1, 2})
MCLongInterval == Params({3}, {2})
\* A batch of no messages is accepted.
MCEmptyBatch == Params({2}, {0})
\* With a timeout of 1, the shortest interval is refused.
MCIntervals == Params({1, 2, 3}, {2})

\* Clients and gateways are interchangeable.
MCSymmetry == Permutations(Principal \ {Anonymous}) \cup Permutations(ClientNonce)
              \cup Permutations(Gateway)
=============================================================================
