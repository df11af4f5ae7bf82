----------------------------- MODULE WsService -----------------------------
(***************************************************************************)
(* What the CDK promises to clients, gateways and the application, without *)
(* how it keeps it: a principal has at most one session, with two counters *)
(* and the time the client was last heard of; a gateway has a log, which   *)
(* messages are only added to the end of and forgotten from the front of.  *)
(* There are no maps to keep in step here, no timers, no loops, no counts  *)
(* of clients and no certification tree: WsRefinement shows that WsCdk,    *)
(* which has them, does nothing that this specification does not allow.    *)
(***************************************************************************)
EXTENDS Integers, Sequences, Functions

CONSTANTS
    Principal, ClientNonce, Gateway,
    Interval,   \* the acknowledgement intervals the canister may choose
    Timeout     \* how old the last sign of life of a client may be

VARIABLES
    sessions,   \* principal -> its session
    logs,       \* gateway -> its log; start is the nonce of the first message
    interval,
    now

service_vars == <<sessions, logs, interval, now>>

Empty == [x \in {} |-> x]
insert(map, key, value) == [x \in DOMAIN map \cup {key} |-> IF x = key THEN value ELSE map[x]]
delete(map, keys) == Restrict(map, DOMAIN map \ keys)

open_content == [kind |-> "OpenMessage"]
application_content == [kind |-> "Application"]
ack_content(n) == [kind |-> "AckMessage", last_incoming_sequence_num |-> n]
close_content(reason) == [kind |-> "CloseMessage", reason |-> reason]

\* A prefix that may be forgotten: every message is older than the interval.
may_forget(log, d) == \A i \in 1..d : now - log.messages[i].timestamp > interval

\* The logs after message number n to p was added to that of gateway g, and some old
\* messages were forgotten.
with_message(ls, g, p, nonce, n, content) ==
    LET log == ls[g]
        m   == [key |-> <<g, log.start + Len(log.messages)>>,
                client_key |-> [client_principal |-> p, client_nonce |-> nonce],
                sequence_num |-> n, timestamp |-> now, content |-> content]
    IN  {[ls EXCEPT ![g] =
              [start    |-> log.start + d,
               messages |-> Append(SubSeq(log.messages, d + 1, Len(log.messages)), m)]]
            : d \in {d \in 0..Len(log.messages) : may_forget(log, d)}}

\* The next message of p's session.
next_message(p, content) ==
    with_message(logs, sessions[p].gateway, p, sessions[p].nonce,
                 sessions[p].sent + 1, content)

----------------------------------------------------------------------------

\* A session starts, in the place of the one p may have.
Open(p, nonce, g) ==
    LET ls == IF g \in DOMAIN logs THEN logs
              ELSE insert(logs, g, [start |-> 0, messages |-> << >>])
    IN  /\ p \in DOMAIN sessions => sessions[p].nonce # nonce
        /\ sessions' = insert(sessions, p,
               [nonce |-> nonce, gateway |-> g, sent |-> 1, received |-> 0,
                heard |-> now, asked |-> FALSE])
        /\ logs' \in with_message(ls, g, p, nonce, 1, open_content)
        /\ UNCHANGED <<interval, now>>

Send(p) ==
    /\ sessions' = [sessions EXCEPT ![p].sent = @ + 1]
    /\ logs' \in next_message(p, application_content)
    /\ UNCHANGED <<interval, now>>

\* The client is told how many of its messages have arrived, and has to answer.
Acknowledge(p) ==
    /\ sessions' = [sessions EXCEPT ![p].sent = @ + 1, ![p].asked = TRUE]
    /\ logs' \in next_message(p, ack_content(sessions[p].received))
    /\ UNCHANGED <<interval, now>>

Receive(p) ==
    /\ sessions' = [sessions EXCEPT ![p].received = @ + 1]
    /\ UNCHANGED <<logs, interval, now>>

ReceiveKeepAlive(p) ==
    /\ sessions' = [sessions EXCEPT ![p].received = @ + 1, ![p].heard = now]
    /\ UNCHANGED <<logs, interval, now>>

\* A session ends with a close message; for silence only if the client was asked.
Close(p, reason) ==
    /\ reason = "KeepAliveTimeout" =>
           sessions[p].asked /\ now - sessions[p].heard > Timeout
    /\ sessions' = delete(sessions, {p})
    /\ logs' \in next_message(p, close_content(reason))
    /\ UNCHANGED <<interval, now>>

\* A session ends without one.
Drop(p) ==
    /\ sessions' = delete(sessions, {p})
    /\ UNCHANGED <<logs, interval, now>>

\* Logs that no session uses are forgotten, with messages that are all old.
Retire(gateways) ==
    /\ \A g \in gateways :
           /\ \A p \in DOMAIN sessions : sessions[p].gateway # g
           /\ may_forget(logs[g], Len(logs[g].messages))
    /\ logs' = delete(logs, gateways)
    /\ UNCHANGED <<sessions, interval, now>>

\* The canister is upgraded or wiped.
ForgetEverything ==
    /\ sessions' = Empty /\ logs' = Empty
    /\ interval' \in Interval
    /\ UNCHANGED now

SetInterval ==
    /\ interval' \in Interval
    /\ UNCHANGED <<sessions, logs, now>>

Tick == now' = now + 1 /\ UNCHANGED <<sessions, logs, interval>>

----------------------------------------------------------------------------

ServiceInit ==
    /\ sessions = Empty /\ logs = Empty
    /\ interval \in Interval
    /\ now = 0

ServiceNext ==
    \/ \E p \in Principal, nonce \in ClientNonce, g \in Gateway : Open(p, nonce, g)
    \/ \E p \in DOMAIN sessions :
           \/ Send(p) \/ Acknowledge(p)
           \/ Receive(p) \/ ReceiveKeepAlive(p)
           \/ \E reason \in {"WrongSequenceNumber", "KeepAliveTimeout", "ClosedByApplication"} :
                  Close(p, reason)
           \/ Drop(p)
    \/ \E gateways \in SUBSET DOMAIN logs : Retire(gateways)
    \/ ForgetEverything \/ SetInterval \/ Tick

ServiceSpec == ServiceInit /\ [][ServiceNext]_service_vars
=============================================================================
