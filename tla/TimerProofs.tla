----------------------------- MODULE TimerProofs -----------------------------
(***************************************************************************)
(* Theorems about the two timers, and about what they guarantee: when a    *)
(* silent client and an empty gateway are removed.                         *)
(***************************************************************************)
EXTENDS WsCdkProofs

----------------------------------------------------------------------------
(***************************************************************************)
(* The invariant of the timers.                                            *)
(***************************************************************************)

\* The check of an acknowledgement fires before the next acknowledgement: this is
\* what check_validity is for.  While the acknowledgements are sent, their timer is
\* the only one, and it is due.
TimerInv ==
    /\ check_validity(PARAMS)
    /\ ACK_TIMER.callback = "send_ack" /\ ACK_TIMER \in timers
    /\ KEEP_ALIVE_TIMER.callback # "send_ack"
    /\ timers \subseteq {ACK_TIMER, KEEP_ALIVE_TIMER}
    /\ KEEP_ALIVE_TIMER \in timers => KEEP_ALIVE_TIMER.deadline < ACK_TIMER.deadline
    /\ executing = "send_ack" => timers = {ACK_TIMER} /\ ACK_TIMER.deadline <= time

\* No timer is later than MaxTimerDelay.  An acknowledgement and its check are apart
\* by the difference of interval and timeout, and neither is set further ahead.
DeadlineInv ==
    LET I == PARAMS.send_ack_interval
    IN  /\ \A t \in timers : time <= t.deadline + MaxTimerDelay
        /\ ACK_TIMER.deadline <= time + I
        /\ KEEP_ALIVE_TIMER \in timers =>
               ACK_TIMER.deadline - I
                   = KEEP_ALIVE_TIMER.deadline - CLIENT_KEEP_ALIVE_TIMEOUT

heard(k) == REGISTERED_CLIENTS[k].last_keep_alive_timestamp

\* Every client was heard of after the last acknowledgement, or it is waited for and
\* the check of that acknowledgement finds it, or is just closing it.  A check that is
\* undone leaves the clients it found to a later one: d is how much later that may be.
SilenceInv(d) ==
    LET I == PARAMS.send_ack_interval
        T == CLIENT_KEEP_ALIVE_TIMEOUT
    IN  /\ \A k \in DOMAIN REGISTERED_CLIENTS :
               \/ ACK_TIMER.deadline <= heard(k) + I + d
               \/ /\ KEEP_ALIVE_TIMER \in timers
                  /\ k \in CLIENTS_WAITING_FOR_KEEP_ALIVE
                  /\ KEEP_ALIVE_TIMER.deadline <= heard(k) + I + T + MaxTimerDelay + d
               \/ /\ executing = "check_keep_alive" /\ k \in client_keys
                  /\ time <= heard(k) + I + T + 2 * MaxTimerDelay + d
        /\ executing = "send_ack" =>
               DOMAIN REGISTERED_CLIENTS
                   \subseteq client_keys \cup CLIENTS_WAITING_FOR_KEEP_ALIVE

\* Every gateway that is due for removal is found by the pending check, or by the
\* check of the next acknowledgement; d is as above.
RetirementInv(d) ==
    LET I == PARAMS.send_ack_interval
    IN  \A g \in DOMAIN GATEWAYS_TO_REMOVE :
            IF KEEP_ALIVE_TIMER \in timers
            THEN KEEP_ALIVE_TIMER.deadline
                     <= GATEWAYS_TO_REMOVE[g] + 2 * I + MaxTimerDelay + d
            ELSE ACK_TIMER.deadline + CLIENT_KEEP_ALIVE_TIMEOUT
                     <= GATEWAYS_TO_REMOVE[g] + 2 * I + d

\* A check closes clients it found silent, at most MaxTimerDelay after its deadline.
CheckInv ==
    executing = "check_keep_alive" =>
        /\ time <= KEEP_ALIVE_TIMER.deadline + MaxTimerDelay
        /\ \A k \in client_keys : is_silent(k)

----------------------------------------------------------------------------
(***************************************************************************)
(* What a step that leaves timers, parameters and clock alone may change.  *)
(***************************************************************************)

\* The numbers that the invariants are about.
LEMMA TimerTypes ==
    ASSUME Inv
    PROVE  /\ PARAMS \in InitParams /\ PARAMS.send_ack_interval \in Nat
           /\ CLIENT_KEEP_ALIVE_TIMEOUT \in Nat /\ MaxTimerDelay \in Nat /\ time \in Nat
           /\ ACK_TIMER.deadline \in Nat /\ KEEP_ALIVE_TIMER.deadline \in Nat
           /\ \A t \in timers : t.callback # "none" /\ t.deadline \in Nat
           /\ \A k \in DOMAIN REGISTERED_CLIENTS : heard(k) \in Nat
           /\ \A g \in DOMAIN GATEWAYS_TO_REMOVE : GATEWAYS_TO_REMOVE[g] \in Nat
<1>1. /\ PARAMS \in InitParams
      /\ ACK_TIMER \in Timer /\ KEEP_ALIVE_TIMER \in Timer \cup {NoTimer}
      /\ timers \subseteq Timer
    BY DEF Inv, ControlInv
<1>2. PARAMS.send_ack_interval \in Nat
    BY <1>1, InitParamsAssumption DEF InitParamsAssumption
<1>3. /\ \A t \in Timer : t.callback # "none" /\ t.deadline \in Nat
      /\ NoTimer.deadline \in Nat
    BY DEF Timer, NoTimer
<1>4. /\ time \in Nat
      /\ \A k \in DOMAIN REGISTERED_CLIENTS : heard(k) \in Nat
      /\ \A g \in DOMAIN GATEWAYS_TO_REMOVE : GATEWAYS_TO_REMOVE[g] \in Nat
    BY DEF Inv, StateInv, MapsOK, MapInto, RegisteredClient, heard
<1> QED BY <1>1, <1>2, <1>3, <1>4, ConstantsAssumption DEF ConstantsAssumption

\* A client that is still registered is new or was just heard of, or it is as it was.
KeepsClients ==
    \A k \in DOMAIN REGISTERED_CLIENTS' :
        \/ heard(k)' = time
        \/ /\ k \in DOMAIN REGISTERED_CLIENTS /\ heard(k)' = heard(k)
           /\ k \in CLIENTS_WAITING_FOR_KEEP_ALIVE => k \in CLIENTS_WAITING_FOR_KEEP_ALIVE'

\* A gateway that is due for removal became so in this step, or it was.
KeepsRetirements ==
    \A g \in DOMAIN GATEWAYS_TO_REMOVE' :
        \/ GATEWAYS_TO_REMOVE'[g] = time
        \/ g \in DOMAIN GATEWAYS_TO_REMOVE /\ GATEWAYS_TO_REMOVE'[g] = GATEWAYS_TO_REMOVE[g]

\* A step inside a loop comes to one client, if any, and changes no other.
InsideLoop ==
    /\ ~idle /\ executing' = executing
    /\ client_keys' \subseteq client_keys
    /\ DOMAIN REGISTERED_CLIENTS \subseteq DOMAIN REGISTERED_CLIENTS' \cup client_keys
    /\ \A k \in DOMAIN REGISTERED_CLIENTS' :
           /\ k \in DOMAIN REGISTERED_CLIENTS /\ heard(k)' = heard(k)
           /\ k \in CLIENTS_WAITING_FOR_KEEP_ALIVE => k \in CLIENTS_WAITING_FOR_KEEP_ALIVE'
           /\ k \in client_keys =>
                  \/ k \in client_keys'
                  \/ executing = "send_ack" /\ k \in CLIENTS_WAITING_FOR_KEEP_ALIVE'

\* Between loops, at the start or end of wipe, or at the end of a check.
OutsideLoops ==
    \/ idle /\ executing' \in {"idle", "wipe"}
    \/ /\ executing \in {"wipe", "check_keep_alive"} /\ client_keys = {}
       /\ executing' = "idle" /\ DOMAIN REGISTERED_CLIENTS' = DOMAIN REGISTERED_CLIENTS

LeavesTimers ==
    /\ UNCHANGED <<timer_vars, PARAMS, time>>
    /\ InsideLoop \/ OutsideLoops
    /\ KeepsClients /\ KeepsRetirements

LEMMA IntoGatewaysToRemove ==
    ASSUME NEW gtr, NEW rg, NEW keys
    PROVE  LET new == into_gateways_to_remove(gtr, rg, keys)
           IN  \A g \in DOMAIN new : new[g] = time \/ (g \in DOMAIN gtr /\ new[g] = gtr[g])
BY DEF into_gateways_to_remove

\* A client is removed, with or without a message.
LEMMA RemoveKeeps ==
    ASSUME Inv, NEW k \in DOMAIN REGISTERED_CLIENTS,
           remove_client(k) \/ \E reason : close_client(k, reason)
    PROVE  /\ KeepsClients /\ KeepsRetirements
           /\ DOMAIN REGISTERED_CLIENTS' = DOMAIN REGISTERED_CLIENTS \ {k}
           /\ \A x \in DOMAIN REGISTERED_CLIENTS' : heard(x)' = heard(x)
           /\ CLIENTS_WAITING_FOR_KEEP_ALIVE' = CLIENTS_WAITING_FOR_KEEP_ALIVE \ {k}
<1>1. /\ remove_from_client_maps(k)
      /\ \E rg : GATEWAYS_TO_REMOVE' = into_gateways_to_remove(GATEWAYS_TO_REMOVE, rg, {k})
    BY DEF remove_client, close_client
<1>2. KeepsRetirements
    BY <1>1, IntoGatewaysToRemove DEF KeepsRetirements
<1>3. /\ DOMAIN REGISTERED_CLIENTS' = DOMAIN REGISTERED_CLIENTS \ {k}
      /\ \A x \in DOMAIN REGISTERED_CLIENTS \ {k} :
             REGISTERED_CLIENTS'[x] = REGISTERED_CLIENTS[x]
    BY <1>1, RemoveFromClientMaps DEF Inv
<1>4. \A x \in DOMAIN REGISTERED_CLIENTS' : heard(x)' = heard(x)
    BY <1>3 DEF heard
<1>5. CLIENTS_WAITING_FOR_KEEP_ALIVE' = CLIENTS_WAITING_FOR_KEEP_ALIVE \ {k}
    BY <1>1 DEF remove_from_client_maps, not_waiting
<1>6. KeepsClients
    BY <1>3, <1>4, <1>5 DEF KeepsClients
<1> QED BY <1>2, <1>3, <1>4, <1>5, <1>6

LEMMA OpenKeeps ==
    ASSUME Inv, NEW p \in Principal, NEW nonce \in ClientNonce, NEW g \in Gateway,
           ws_open(p, nonce, g)
    PROVE  KeepsClients /\ KeepsRetirements
<1> DEFINE k == [client_principal |-> p, client_nonce |-> nonce]
           old == current_keys(p)
           client == [last_keep_alive_timestamp |-> time, gateway_principal |-> g]
<1>1. /\ REGISTERED_CLIENTS' = put(remove(REGISTERED_CLIENTS, old), k, client)
      /\ CLIENTS_WAITING_FOR_KEEP_ALIVE' = CLIENTS_WAITING_FOR_KEEP_ALIVE \ old
      /\ k \notin DOMAIN REGISTERED_CLIENTS
      /\ \E rg : GATEWAYS_TO_REMOVE' =
             remove(into_gateways_to_remove(GATEWAYS_TO_REMOVE, rg, old), {g})
    BY DEF ws_open, not_waiting, out_of_gateways_to_remove
<1>2. client.last_keep_alive_timestamp = time
    OBVIOUS
<1> HIDE DEF k, old, client
<1>3. /\ DOMAIN REGISTERED_CLIENTS' = (DOMAIN REGISTERED_CLIENTS \ old) \cup {k}
      /\ REGISTERED_CLIENTS'[k] = client
      /\ \A x \in DOMAIN REGISTERED_CLIENTS \ old :
             x # k => REGISTERED_CLIENTS'[x] = REGISTERED_CLIENTS[x]
    BY <1>1 DEF put, remove, Restrict
<1>4. KeepsClients
    BY <1>1, <1>2, <1>3 DEF KeepsClients, heard
<1>5. KeepsRetirements
  <2>1. PICK rg : GATEWAYS_TO_REMOVE' =
            remove(into_gateways_to_remove(GATEWAYS_TO_REMOVE, rg, old), {g})
      BY <1>1
  <2> DEFINE new == into_gateways_to_remove(GATEWAYS_TO_REMOVE, rg, old)
  <2>2. \A x \in DOMAIN new :
            new[x] = time \/ (x \in DOMAIN GATEWAYS_TO_REMOVE /\ new[x] = GATEWAYS_TO_REMOVE[x])
      BY IntoGatewaysToRemove
  <2> HIDE DEF new
  <2>3. \A x \in DOMAIN remove(new, {g}) : x \in DOMAIN new /\ remove(new, {g})[x] = new[x]
      BY DEF remove, Restrict
  <2> QED BY <2>1, <2>2, <2>3 DEF KeepsRetirements, new
<1> QED BY <1>4, <1>5

\* The clients stay, and are waited for as before.
LEMMA SameKeeps ==
    ASSUME UNCHANGED <<REGISTERED_CLIENTS, GATEWAYS_TO_REMOVE>>,
           CLIENTS_WAITING_FOR_KEEP_ALIVE \subseteq CLIENTS_WAITING_FOR_KEEP_ALIVE'
    PROVE  /\ KeepsClients /\ KeepsRetirements
           /\ \A k \in DOMAIN REGISTERED_CLIENTS' :
                  k \in DOMAIN REGISTERED_CLIENTS /\ heard(k)' = heard(k)
BY DEF KeepsClients, KeepsRetirements, heard

LEMMA IdleLeaves ==
    ASSUME idle, UNCHANGED <<timer_vars, loop_vars, PARAMS, time>>,
           KeepsClients, KeepsRetirements
    PROVE  LeavesTimers
BY DEF LeavesTimers, OutsideLoops, idle, loop_vars

\* A loop comes to k, which is removed.
LEMMA RemovingLoopLeaves ==
    ASSUME Inv, NEW k \in client_keys, NEW handler, handler # "idle",
           next_iteration(k, handler, TRUE), UNCHANGED <<timer_vars, PARAMS, time>>,
           remove_client(k) \/ \E reason : close_client(k, reason)
    PROVE  LeavesTimers
<1>1. k \in DOMAIN REGISTERED_CLIENTS
    BY DEF Inv, ControlInv, LoopKeysAreRegistered
<1>2. /\ KeepsClients /\ KeepsRetirements
      /\ DOMAIN REGISTERED_CLIENTS' = DOMAIN REGISTERED_CLIENTS \ {k}
      /\ \A x \in DOMAIN REGISTERED_CLIENTS' : heard(x)' = heard(x)
      /\ CLIENTS_WAITING_FOR_KEEP_ALIVE' = CLIENTS_WAITING_FOR_KEEP_ALIVE \ {k}
    BY <1>1, RemoveKeeps
<1>3. ~idle /\ executing' = executing /\ client_keys' = client_keys \ {k}
    BY DEF idle, next_iteration
<1>4. InsideLoop
    BY <1>2, <1>3 DEF InsideLoop
<1> QED BY <1>2, <1>4 DEF LeavesTimers

\* Every step leaves timers, parameters and clock alone, but those of the timers and
\* of the clock, init and upgrade.
LEMMA Steps ==
    ASSUME Inv, [Next]_vars
    PROVE  \/ LeavesTimers
           \/ \E params \in InitParams : init(params) \/ upgrade(params)
           \/ send_ack_to_clients \/ send_ack_end \/ check_keep_alive
           \/ tick
<1>1. /\ client_keys \subseteq DOMAIN REGISTERED_CLIENTS
      /\ \A p \in DOMAIN CURRENT_CLIENT_KEY_MAP :
             CURRENT_CLIENT_KEY_MAP[p] \in DOMAIN REGISTERED_CLIENTS
      /\ DOMAIN INCOMING_MESSAGE_FROM_CLIENT_NUM_MAP = DOMAIN REGISTERED_CLIENTS
      /\ executing = "wipe" => client_keys = DOMAIN REGISTERED_CLIENTS
    BY DEF Inv, StateInv, RegistryConsistent, ControlInv, LoopKeysAreRegistered
<1>2. ASSUME NEW p \in Principal, NEW nonce \in ClientNonce, NEW g \in Gateway,
             ws_open(p, nonce, g)
      PROVE  LeavesTimers
  <2>1. idle /\ UNCHANGED <<timer_vars, loop_vars, PARAMS, time>>
      BY <1>2 DEF ws_open
  <2> QED BY <1>2, <2>1, OpenKeeps, IdleLeaves
<1>3. ASSUME NEW g \in Gateway, NEW k \in ClientKey, ws_close(g, k)
      PROVE  LeavesTimers
  <2>1. /\ idle /\ UNCHANGED <<timer_vars, loop_vars, PARAMS, time>>
        /\ k \in DOMAIN REGISTERED_CLIENTS /\ remove_client(k)
      BY <1>3 DEF ws_close
  <2> QED BY <2>1, RemoveKeeps, IdleLeaves
<1>4. ASSUME NEW p \in Principal, NEW k \in ClientKey,
             ws_message(p, k) \/ ws_message_keep_alive(p, k)
      PROVE  LeavesTimers
  <2>1. /\ idle /\ UNCHANGED <<timer_vars, loop_vars, PARAMS, time>>
        /\ UNCHANGED <<CLIENTS_WAITING_FOR_KEEP_ALIVE, GATEWAYS_TO_REMOVE>>
        /\ k \in DOMAIN REGISTERED_CLIENTS
        /\ \/ REGISTERED_CLIENTS' = REGISTERED_CLIENTS
           \/ REGISTERED_CLIENTS' =
                  [REGISTERED_CLIENTS EXCEPT ![k].last_keep_alive_timestamp = time]
      BY <1>1, <1>4
         DEF ws_message, ws_message_keep_alive, is_current, accept_message, gateway_vars
  <2>2. REGISTERED_CLIENTS \in [DOMAIN REGISTERED_CLIENTS -> RegisteredClient]
      BY DEF Inv, StateInv, MapsOK, MapInto
  <2>3. /\ DOMAIN REGISTERED_CLIENTS' = DOMAIN REGISTERED_CLIENTS
        /\ \A x \in DOMAIN REGISTERED_CLIENTS : heard(x)' = heard(x) \/ heard(x)' = time
    <3>1. CASE REGISTERED_CLIENTS' = REGISTERED_CLIENTS
        BY <3>1 DEF heard
    <3>2. CASE REGISTERED_CLIENTS' =
                   [REGISTERED_CLIENTS EXCEPT ![k].last_keep_alive_timestamp = time]
        BY <2>1, <2>2, <3>2 DEF heard, RegisteredClient
    <3> QED BY <2>1, <3>1, <3>2
  <2>4. KeepsClients
      BY <2>1, <2>3 DEF KeepsClients
  <2>5. KeepsRetirements
      BY <2>1 DEF KeepsRetirements
  <2> QED BY <2>1, <2>4, <2>5, IdleLeaves
<1>5. ASSUME NEW p \in Principal, NEW k \in ClientKey,
             ws_message_wrong_sequence_number(p, k)
      PROVE  LeavesTimers
  <2>1. /\ idle /\ UNCHANGED <<timer_vars, loop_vars, PARAMS, time>>
        /\ k \in DOMAIN REGISTERED_CLIENTS /\ close_client(k, "WrongSequenceNumber")
      BY <1>1, <1>5 DEF ws_message_wrong_sequence_number, is_current
  <2> QED BY <2>1, RemoveKeeps, IdleLeaves
<1>6. ASSUME NEW p \in Principal, close(p)
      PROVE  LeavesTimers
  <2>1. /\ idle /\ UNCHANGED <<timer_vars, loop_vars, PARAMS, time>>
        /\ \E k \in DOMAIN REGISTERED_CLIENTS : close_client(k, "ClosedByApplication")
      BY <1>1, <1>6 DEF close, not_in_on_close
  <2> QED BY <2>1, RemoveKeeps, IdleLeaves
<1>7. ASSUME NEW p \in Principal, send(p)
      PROVE  LeavesTimers
  <2>1. /\ UNCHANGED <<timer_vars, loop_vars, PARAMS, time>>
        /\ UNCHANGED <<REGISTERED_CLIENTS, GATEWAYS_TO_REMOVE,
                       CLIENTS_WAITING_FOR_KEEP_ALIVE>>
      BY <1>7 DEF send
  <2>2. /\ KeepsClients /\ KeepsRetirements
        /\ \A k \in DOMAIN REGISTERED_CLIENTS' :
               k \in DOMAIN REGISTERED_CLIENTS /\ heard(k)' = heard(k)
      BY <2>1, SameKeeps
  <2>3. CASE idle
      BY <2>1, <2>2, <2>3, IdleLeaves
  <2>4. CASE ~idle
      BY <2>1, <2>2, <2>4 DEF LeavesTimers, InsideLoop, loop_vars
  <2> QED BY <2>3, <2>4
<1>8. CASE wipe
  <2>1. /\ idle /\ executing' = "wipe" /\ UNCHANGED <<timer_vars, PARAMS, time>>
        /\ UNCHANGED <<REGISTERED_CLIENTS, GATEWAYS_TO_REMOVE,
                       CLIENTS_WAITING_FOR_KEEP_ALIVE>>
      BY <1>8 DEF wipe, start_loop, client_vars, gateway_vars
  <2> QED BY <2>1, SameKeeps DEF LeavesTimers, OutsideLoops
<1>9. CASE wipe_end
  <2>1. /\ executing = "wipe" /\ client_keys = {} /\ executing' = "idle"
        /\ UNCHANGED <<timer_vars, PARAMS, time>>
        /\ REGISTERED_CLIENTS' = REGISTERED_CLIENTS /\ GATEWAYS_TO_REMOVE' = EmptyMap
      BY <1>9 DEF wipe_end, end_loop
  <2>2. DOMAIN REGISTERED_CLIENTS' = {} /\ DOMAIN GATEWAYS_TO_REMOVE' = {}
      BY <1>1, <2>1, Empty
  <2> QED BY <2>1, <2>2 DEF LeavesTimers, OutsideLoops, KeepsClients, KeepsRetirements
<1>10. CASE check_keep_alive_end
  <2>1. /\ executing = "check_keep_alive" /\ client_keys = {} /\ executing' = "idle"
        /\ UNCHANGED <<timer_vars, PARAMS, time>>
        /\ UNCHANGED <<REGISTERED_CLIENTS, GATEWAYS_TO_REMOVE,
                       CLIENTS_WAITING_FOR_KEEP_ALIVE>>
      BY <1>10 DEF check_keep_alive_end, end_loop, client_vars, gateway_vars
  <2> QED BY <2>1, SameKeeps DEF LeavesTimers, OutsideLoops
<1>11. ASSUME NEW k \in client_keys, wipe_client(k) \/ close_silent_client(k)
       PROVE  LeavesTimers
  <2>1. /\ \/ next_iteration(k, "wipe", TRUE)
           \/ next_iteration(k, "check_keep_alive", TRUE)
        /\ UNCHANGED <<timer_vars, PARAMS, time>>
        /\ remove_client(k) \/ \E reason : close_client(k, reason)
      BY <1>11 DEF wipe_client, close_silent_client
  <2> QED BY <2>1, RemovingLoopLeaves
<1>12. ASSUME NEW k \in client_keys, send_ack(k)
       PROVE  LeavesTimers
  <2>1. /\ executing = "send_ack" /\ UNCHANGED executing
        /\ client_keys' = client_keys \ {k}
        /\ UNCHANGED <<timer_vars, PARAMS, time>>
        /\ UNCHANGED <<REGISTERED_CLIENTS, GATEWAYS_TO_REMOVE>>
        /\ CLIENTS_WAITING_FOR_KEEP_ALIVE' = CLIENTS_WAITING_FOR_KEEP_ALIVE \cup {k}
      BY <1>12 DEF send_ack, next_iteration
  <2>2. /\ KeepsClients /\ KeepsRetirements
        /\ \A x \in DOMAIN REGISTERED_CLIENTS' :
               x \in DOMAIN REGISTERED_CLIENTS /\ heard(x)' = heard(x)
      BY <2>1, SameKeeps
  <2>3. InsideLoop
      BY <2>1, <2>2 DEF InsideLoop, idle
  <2> QED BY <2>1, <2>2, <2>3 DEF LeavesTimers
<1>13. CASE UNCHANGED vars
  <2>1. /\ UNCHANGED <<timer_vars, loop_vars, PARAMS, time>>
        /\ UNCHANGED <<REGISTERED_CLIENTS, GATEWAYS_TO_REMOVE,
                       CLIENTS_WAITING_FOR_KEEP_ALIVE>>
      BY <1>13 DEF vars, client_vars, gateway_vars
  <2>2. /\ KeepsClients /\ KeepsRetirements
        /\ \A k \in DOMAIN REGISTERED_CLIENTS' :
               k \in DOMAIN REGISTERED_CLIENTS /\ heard(k)' = heard(k)
      BY <2>1, SameKeeps
  <2>3. CASE idle
      BY <2>1, <2>2, <2>3, IdleLeaves
  <2>4. CASE ~idle
      BY <2>1, <2>2, <2>4 DEF LeavesTimers, InsideLoop, loop_vars
  <2> QED BY <2>3, <2>4
<1> QED BY <1>2, <1>3, <1>4, <1>5, <1>6, <1>7, <1>8, <1>9, <1>10, <1>11, <1>12, <1>13
        DEF Next

----------------------------------------------------------------------------
(***************************************************************************)
(* The timers are tracked, and they are not late.                          *)
(***************************************************************************)

LEMMA TimersDiffer ==
    ASSUME NEW params \in InitParams, time \in Nat
    PROVE  /\ ack_timer(params).callback = "send_ack"
           /\ ack_timer(params).deadline = time + params.send_ack_interval
           /\ params.send_ack_interval \in Nat
           /\ NoTimer.callback = "none" /\ NoTimer # ack_timer(params)
<1>1. /\ ack_timer(params).callback = "send_ack" /\ NoTimer.callback = "none"
      /\ ack_timer(params).deadline = time + params.send_ack_interval
    BY DEF ack_timer, SendAckTimer, NoTimer
<1>2. params.send_ack_interval \in Nat
    BY InitParamsAssumption DEF InitParamsAssumption
<1> QED BY <1>1, <1>2

\* After init and upgrade an acknowledgement timer is the only one.
LEMMA Restart ==
    ASSUME Inv, TimerInv, NEW params \in InitParams, init(params) \/ upgrade(params)
    PROVE  /\ PARAMS' = params /\ check_validity(params)
           /\ ACK_TIMER' = ack_timer(params) /\ timers' = {ack_timer(params)}
           /\ KEEP_ALIVE_TIMER' = NoTimer /\ KEEP_ALIVE_TIMER' \notin timers'
           /\ executing' = "idle" /\ time' = time
<1>1. /\ PARAMS' = params /\ check_validity(params) /\ ACK_TIMER' = ack_timer(params)
      /\ KEEP_ALIVE_TIMER' = NoTimer /\ executing' = "idle" /\ time' = time
    BY DEF init, upgrade, idle, loop_vars
<1>2. timers' = {ack_timer(params)}
    BY DEF init, upgrade, cancel_timers, TimerInv
<1>3. KEEP_ALIVE_TIMER' \notin timers'
    BY <1>1, <1>2, TimersDiffer, TimerTypes
<1> QED BY <1>1, <1>2, <1>3

\* The acknowledgement timer fires: nothing else is set, and it is due.
LEMMA AckFires ==
    ASSUME Inv, TimerInv, NEW t \in timers, fires(t, "send_ack")
    PROVE  t = ACK_TIMER /\ timers = {ACK_TIMER} /\ ACK_TIMER.deadline <= time
<1>1. t = ACK_TIMER
    BY DEF TimerInv, fires
<1>2. KEEP_ALIVE_TIMER \notin timers
    BY <1>1, TimerTypes DEF TimerInv, fires
<1> QED BY <1>1, <1>2 DEF TimerInv, fires

\* The next acknowledgement and its check are set.
LEMMA AckSets ==
    ASSUME Inv, TimerInv, send_ack_end
    PROVE  LET new  == ack_timer(PARAMS)
               keep == CheckKeepAliveTimer(time + CLIENT_KEEP_ALIVE_TIMEOUT)
           IN  /\ ACK_TIMER' = new /\ KEEP_ALIVE_TIMER' = keep /\ timers' = {new, keep}
               /\ new.callback = "send_ack" /\ new.deadline = time + PARAMS.send_ack_interval
               /\ keep.callback = "check_keep_alive"
               /\ keep.deadline = time + CLIENT_KEEP_ALIVE_TIMEOUT
               /\ CLIENT_KEEP_ALIVE_TIMEOUT < PARAMS.send_ack_interval
               /\ ACK_TIMER.deadline <= time
               /\ executing = "send_ack" /\ executing' = "idle" /\ client_keys = {}
               /\ UNCHANGED <<client_vars, gateway_vars, PARAMS, time>>
<1> DEFINE new  == ack_timer(PARAMS)
           keep == CheckKeepAliveTimer(time + CLIENT_KEEP_ALIVE_TIMEOUT)
<1>1. PICK t \in timers :
          /\ fires(t, "send_ack")
          /\ timers' = (timers \ {t}) \cup {new, keep}
          /\ ACK_TIMER' = IF ACK_TIMER = t THEN new ELSE ACK_TIMER
    BY DEF send_ack_end
<1>2. t = ACK_TIMER /\ timers = {ACK_TIMER} /\ ACK_TIMER.deadline <= time
    BY <1>1, AckFires
<1>3. /\ KEEP_ALIVE_TIMER' = keep /\ UNCHANGED <<client_vars, gateway_vars, PARAMS, time>>
      /\ executing = "send_ack" /\ executing' = "idle" /\ client_keys = {}
    BY DEF send_ack_end, end_loop
<1>4. /\ keep.callback = "check_keep_alive"
      /\ keep.deadline = time + CLIENT_KEEP_ALIVE_TIMEOUT
    BY DEF CheckKeepAliveTimer
<1>5. CLIENT_KEEP_ALIVE_TIMEOUT < PARAMS.send_ack_interval
    BY TimerTypes DEF TimerInv, check_validity
<1> HIDE DEF keep
<1>6. new.callback = "send_ack" /\ new.deadline = time + PARAMS.send_ack_interval
    BY TimerTypes, TimersDiffer
<1> QED BY <1>1, <1>2, <1>3, <1>4, <1>5, <1>6 DEF keep

\* The check fires: it is the one that is tracked.
LEMMA CheckFires ==
    ASSUME Inv, TimerInv, check_keep_alive
    PROVE  /\ KEEP_ALIVE_TIMER \in timers /\ KEEP_ALIVE_TIMER.deadline <= time
           /\ timers' = {ACK_TIMER}
           /\ UNCHANGED <<client_vars, ACK_TIMER, KEEP_ALIVE_TIMER, PARAMS, time>>
           /\ executing = "idle" /\ executing' = "check_keep_alive"
           /\ client_keys' = {k \in CLIENTS_WAITING_FOR_KEEP_ALIVE
                                      \cap DOMAIN REGISTERED_CLIENTS : is_silent(k)}
           /\ remove_empty_expired_gateways
<1>1. PICK t \in timers : fires(t, "check_keep_alive") /\ timers' = timers \ {t}
    BY DEF check_keep_alive
<1>2. t = KEEP_ALIVE_TIMER /\ t # ACK_TIMER /\ t.deadline <= time
    BY <1>1 DEF fires, TimerInv
<1>3. timers' = {ACK_TIMER}
    BY <1>1, <1>2 DEF TimerInv
<1> QED BY <1>1, <1>2, <1>3 DEF check_keep_alive, start_loop, idle

LEMMA TimerInductive == Inv /\ TimerInv /\ [Next]_vars => TimerInv'
<1> SUFFICES ASSUME Inv, TimerInv, [Next]_vars PROVE TimerInv'
    OBVIOUS
<1>1. CASE LeavesTimers
  <2>1. /\ UNCHANGED <<ACK_TIMER, KEEP_ALIVE_TIMER, timers, PARAMS, time>>
        /\ executing' = "send_ack" => executing = "send_ack"
      BY <1>1 DEF LeavesTimers, InsideLoop, OutsideLoops, timer_vars
  <2> QED BY <2>1 DEF TimerInv, check_validity
<1>2. ASSUME NEW params \in InitParams, init(params) \/ upgrade(params)
      PROVE  TimerInv'
    BY <1>2, Restart, TimersDiffer, TimerTypes DEF TimerInv, check_validity
<1>3. CASE send_ack_to_clients
  <2>1. timers = {ACK_TIMER} /\ ACK_TIMER.deadline <= time
      BY <1>3, AckFires DEF send_ack_to_clients
  <2>2. UNCHANGED <<ACK_TIMER, KEEP_ALIVE_TIMER, timers, PARAMS, time>>
      BY <1>3 DEF send_ack_to_clients, timer_vars
  <2> QED BY <2>1, <2>2 DEF TimerInv, check_validity
<1>4. CASE send_ack_end
  <2> DEFINE new  == ack_timer(PARAMS)
             keep == CheckKeepAliveTimer(time + CLIENT_KEEP_ALIVE_TIMEOUT)
  <2>1. /\ ACK_TIMER' = new /\ KEEP_ALIVE_TIMER' = keep /\ timers' = {new, keep}
        /\ new.callback = "send_ack" /\ new.deadline = time + PARAMS.send_ack_interval
        /\ keep.callback = "check_keep_alive"
        /\ keep.deadline = time + CLIENT_KEEP_ALIVE_TIMEOUT
        /\ CLIENT_KEEP_ALIVE_TIMEOUT < PARAMS.send_ack_interval
        /\ executing' = "idle" /\ PARAMS' = PARAMS
      BY <1>4, AckSets
  <2> HIDE DEF new, keep
  <2>2. keep.deadline < new.deadline
      BY <2>1, TimerTypes
  <2> QED BY <2>1, <2>2 DEF TimerInv, check_validity
<1>5. CASE check_keep_alive
  <2>1. /\ timers' = {ACK_TIMER} /\ UNCHANGED <<ACK_TIMER, KEEP_ALIVE_TIMER, PARAMS>>
        /\ executing' = "check_keep_alive"
      BY <1>5, CheckFires
  <2> QED BY <2>1 DEF TimerInv, check_validity
<1>6. CASE tick
  <2>1. /\ UNCHANGED <<ACK_TIMER, KEEP_ALIVE_TIMER, timers, PARAMS>>
        /\ executing' = "idle"
      BY <1>6 DEF tick, idle, timer_vars, loop_vars
  <2> QED BY <2>1 DEF TimerInv, check_validity
<1> QED BY <1>1, <1>2, <1>3, <1>4, <1>5, <1>6, Steps

LEMMA TimersAtStart == Init => TimerInv /\ DeadlineInv /\ CheckInv
<1> SUFFICES ASSUME Init PROVE TimerInv /\ DeadlineInv /\ CheckInv
    OBVIOUS
<1>1. /\ check_validity(PARAMS) /\ ACK_TIMER = ack_timer(PARAMS) /\ timers = {ACK_TIMER}
      /\ KEEP_ALIVE_TIMER = NoTimer /\ executing = "idle"
      /\ PARAMS \in InitParams /\ time \in Nat
    BY DEF Init
<1>2. TimerInv
    BY <1>1, TimersDiffer DEF TimerInv
<1>3. /\ ACK_TIMER.deadline = time + PARAMS.send_ack_interval
      /\ PARAMS.send_ack_interval \in Nat /\ KEEP_ALIVE_TIMER \notin timers
    BY <1>1, TimersDiffer
<1>4. time <= ACK_TIMER.deadline + MaxTimerDelay
    BY <1>1, <1>3, ConstantsAssumption DEF ConstantsAssumption
<1> QED BY <1>1, <1>2, <1>3, <1>4 DEF DeadlineInv, CheckInv

LEMMA TimerInvariant == Spec => []TimerInv
<1>1. Inv /\ TimerInv /\ [Next]_vars => TimerInv'
    BY TimerInductive
<1> QED BY <1>1, TimersAtStart, Invariant, PTL DEF Spec

\* The only timers that are set are those that init can cancel, for every interval and
\* timeout that check_validity lets through: a check always fires before the next
\* acknowledgement would overwrite its id (timers.rs:71).
THEOREM TimersStayTracked == Spec => []TimersAreTracked
<1>1. TimerInv => TimersAreTracked
    BY DEF TimerInv, TimersAreTracked
<1> QED BY <1>1, TimerInvariant, PTL

----------------------------------------------------------------------------
(***************************************************************************)
(* How late the timers are, and what a check closes.                       *)
(***************************************************************************)

LEMMA DeadlineInductive ==
    Inv /\ TimerInv /\ DeadlineInv /\ [Next]_vars => DeadlineInv'
<1> SUFFICES ASSUME Inv, TimerInv, DeadlineInv, [Next]_vars PROVE DeadlineInv'
    OBVIOUS
<1>1. CASE LeavesTimers \/ send_ack_to_clients
  <2>1. UNCHANGED <<ACK_TIMER, KEEP_ALIVE_TIMER, timers, PARAMS, time>>
      BY <1>1 DEF LeavesTimers, send_ack_to_clients, timer_vars
  <2> QED BY <2>1 DEF DeadlineInv
<1>2. ASSUME NEW params \in InitParams, init(params) \/ upgrade(params)
      PROVE  DeadlineInv'
  <2>1. /\ PARAMS' = params /\ time' = time /\ timers' = {ACK_TIMER'}
        /\ ACK_TIMER' = ack_timer(params) /\ KEEP_ALIVE_TIMER' \notin timers'
      BY <1>2, Restart
  <2>2. /\ ACK_TIMER'.deadline = time + params.send_ack_interval
        /\ params.send_ack_interval \in Nat
      BY <2>1, TimersDiffer, TimerTypes
  <2>3. time <= ACK_TIMER'.deadline + MaxTimerDelay
      BY <2>2, TimerTypes
  <2> QED BY <2>1, <2>2, <2>3, TimerTypes DEF DeadlineInv
<1>3. CASE send_ack_end
  <2> DEFINE new  == ack_timer(PARAMS)
             keep == CheckKeepAliveTimer(time + CLIENT_KEEP_ALIVE_TIMEOUT)
  <2>1. /\ ACK_TIMER' = new /\ KEEP_ALIVE_TIMER' = keep /\ timers' = {new, keep}
        /\ new.deadline = time + PARAMS.send_ack_interval
        /\ keep.deadline = time + CLIENT_KEEP_ALIVE_TIMEOUT
        /\ PARAMS' = PARAMS /\ time' = time
      BY <1>3, AckSets
  <2> HIDE DEF new, keep
  <2>2. /\ time <= new.deadline + MaxTimerDelay /\ time <= keep.deadline + MaxTimerDelay
        /\ new.deadline - PARAMS.send_ack_interval
               = keep.deadline - CLIENT_KEEP_ALIVE_TIMEOUT
        /\ new.deadline <= time + PARAMS.send_ack_interval
      BY <2>1, TimerTypes
  <2> QED BY <2>1, <2>2 DEF DeadlineInv
<1>4. CASE check_keep_alive
  <2>1. /\ timers' \subseteq timers
        /\ UNCHANGED <<ACK_TIMER, KEEP_ALIVE_TIMER, PARAMS, time>>
      BY <1>4, CheckFires DEF TimerInv
  <2> QED BY <2>1 DEF DeadlineInv
<1>5. CASE tick
  <2>1. /\ UNCHANGED <<ACK_TIMER, KEEP_ALIVE_TIMER, timers, PARAMS>>
        /\ time' = time + 1 /\ \A t \in timers : time < t.deadline + MaxTimerDelay
      BY <1>5 DEF tick, timer_vars
  <2>2. \A t \in timers : time + 1 <= t.deadline + MaxTimerDelay
      BY <2>1, TimerTypes
  <2>3. ACK_TIMER.deadline <= time + 1 + PARAMS.send_ack_interval
      BY TimerTypes DEF DeadlineInv
  <2> QED BY <2>1, <2>2, <2>3 DEF DeadlineInv
<1> QED BY <1>1, <1>2, <1>3, <1>4, <1>5, Steps

LEMMA CheckInductive ==
    Inv /\ TimerInv /\ DeadlineInv /\ CheckInv /\ [Next]_vars => CheckInv'
<1> SUFFICES ASSUME Inv, TimerInv, DeadlineInv, CheckInv, [Next]_vars,
                    executing' = "check_keep_alive"
             PROVE  /\ time' <= KEEP_ALIVE_TIMER'.deadline + MaxTimerDelay
                    /\ \A k \in client_keys' : is_silent(k)'
    BY DEF CheckInv
<1>1. client_keys' \subseteq DOMAIN REGISTERED_CLIENTS'
    BY InvInductive DEF Inv, ControlInv, LoopKeysAreRegistered
<1>2. CASE LeavesTimers
  <2>1. /\ InsideLoop /\ executing = "check_keep_alive"
        /\ UNCHANGED <<KEEP_ALIVE_TIMER, time>>
      BY <1>2 DEF LeavesTimers, InsideLoop, OutsideLoops, timer_vars
  <2>2. \A k \in client_keys' : k \in client_keys /\ heard(k)' = heard(k)
      BY <1>1, <2>1 DEF InsideLoop
  <2>3. \A k \in client_keys' : is_silent(k)' <=> is_silent(k)
      BY <2>1, <2>2 DEF is_silent, heard
  <2> QED BY <2>1, <2>2, <2>3 DEF CheckInv
<1>3. CASE check_keep_alive
  <2>1. /\ KEEP_ALIVE_TIMER \in timers
        /\ UNCHANGED <<REGISTERED_CLIENTS, KEEP_ALIVE_TIMER, time>>
        /\ client_keys' = {k \in CLIENTS_WAITING_FOR_KEEP_ALIVE
                                   \cap DOMAIN REGISTERED_CLIENTS : is_silent(k)}
      BY <1>3, CheckFires DEF client_vars
  <2>2. \A k : is_silent(k)' <=> is_silent(k)
      BY <2>1 DEF is_silent
  <2> QED BY <2>1, <2>2 DEF DeadlineInv
<1>4. executing' # "check_keep_alive"
         \/ ~(\/ \E params \in InitParams : init(params) \/ upgrade(params)
              \/ send_ack_to_clients \/ send_ack_end \/ tick)
    BY Restart, AckSets DEF send_ack_to_clients, start_loop, tick, idle, loop_vars
<1> QED BY <1>2, <1>3, <1>4, Steps

LEMMA DeadlineInvariant == Spec => [](Inv /\ TimerInv /\ DeadlineInv /\ CheckInv)
<1>1. Inv /\ TimerInv /\ DeadlineInv /\ [Next]_vars => DeadlineInv'
    BY DeadlineInductive
<1>2. Inv /\ TimerInv /\ DeadlineInv /\ CheckInv /\ [Next]_vars => CheckInv'
    BY CheckInductive
<1> QED BY <1>1, <1>2, TimersAtStart, Invariant, TimerInvariant, PTL DEF Spec

\* A check removes only clients that were silent for the whole timeout, whatever runs
\* in its on_close callbacks.
LEMMA CheckClosesTheSilent ==
    ASSUME Inv, TimerInv, DeadlineInv, CheckInv, [Next]_vars,
           executing = "check_keep_alive",
           NEW k \in DOMAIN REGISTERED_CLIENTS \ DOMAIN REGISTERED_CLIENTS'
    PROVE  heard(k) < KEEP_ALIVE_TIMER.deadline + MaxTimerDelay - CLIENT_KEEP_ALIVE_TIMEOUT
<1>1. LeavesTimers
  <2>1. /\ \A params \in InitParams : ~init(params) /\ ~upgrade(params)
        /\ ~send_ack_to_clients /\ ~send_ack_end /\ ~check_keep_alive /\ ~tick
      BY DEF init, upgrade, send_ack_to_clients, send_ack_end, end_loop, check_keep_alive,
             tick, idle
  <2> QED BY <2>1, Steps
<1>2. k \in client_keys
    BY <1>1 DEF LeavesTimers, InsideLoop, OutsideLoops, idle
<1>3. /\ time <= KEEP_ALIVE_TIMER.deadline + MaxTimerDelay
      /\ time - heard(k) > CLIENT_KEEP_ALIVE_TIMEOUT
    BY <1>2 DEF CheckInv, is_silent, heard
<1> QED BY <1>3, TimerTypes

\* With timers that fire on time, a client that sent a keep alive after the last
\* acknowledgement is not removed by its check (timers.rs:110).  The timers have to be
\* on time: the run LateCheck shows a client that answered and is removed by a late one.
THEOREM AnsweringClientsStay ==
    ASSUME MaxTimerDelay = 0
    PROVE  Spec => AnsweredAckKeepsClient
<1> DEFINE kept ==
        executing = "check_keep_alive" =>
            \A k \in DOMAIN REGISTERED_CLIENTS \ DOMAIN REGISTERED_CLIENTS' :
                REGISTERED_CLIENTS[k].last_keep_alive_timestamp
                    <= KEEP_ALIVE_TIMER.deadline - CLIENT_KEEP_ALIVE_TIMEOUT
<1>1. Inv /\ TimerInv /\ DeadlineInv /\ CheckInv /\ [Next]_vars => kept
  <2> SUFFICES ASSUME Inv, TimerInv, DeadlineInv, CheckInv, [Next]_vars,
                      executing = "check_keep_alive",
                      NEW k \in DOMAIN REGISTERED_CLIENTS \ DOMAIN REGISTERED_CLIENTS'
               PROVE  heard(k) <= KEEP_ALIVE_TIMER.deadline - CLIENT_KEEP_ALIVE_TIMEOUT
      BY DEF heard
  <2>1. heard(k) < KEEP_ALIVE_TIMER.deadline + MaxTimerDelay - CLIENT_KEEP_ALIVE_TIMEOUT
      BY CheckClosesTheSilent
  <2>2. heard(k) \in Nat
      BY TimerTypes
  <2> QED BY <2>1, <2>2, TimerTypes
<1>2. Inv /\ TimerInv /\ DeadlineInv /\ CheckInv /\ [Next]_vars => [kept]_vars
    BY <1>1
<1> QED BY <1>2, DeadlineInvariant, PTL DEF Spec, AnsweredAckKeepsClient

----------------------------------------------------------------------------
(***************************************************************************)
(* Silent clients and empty gateways.  Another init postpones the          *)
(* acknowledgement, and with it the check that removes them; an upgrade    *)
(* does too, but forgets them.                                             *)
(***************************************************************************)

LEMMA UpgradeForgets ==
    ASSUME NEW params \in InitParams, upgrade(params)
    PROVE  DOMAIN REGISTERED_CLIENTS' = {} /\ DOMAIN GATEWAYS_TO_REMOVE' = {}
           /\ executing' = "idle"
BY Empty DEF upgrade, idle, loop_vars

\* The clients after a check.  One that is waited for and not silent was heard of after
\* the last acknowledgement, since interval and timeout part the two timers.
LEMMA CheckFindsTheSilent ==
    ASSUME NEW d \in Nat, Inv, TimerInv, DeadlineInv, SilenceInv(d), check_keep_alive
    PROVE  SilenceInv(d)'
<1> DEFINE A == ACK_TIMER.deadline
           K == KEEP_ALIVE_TIMER.deadline
           I == PARAMS.send_ack_interval
           T == CLIENT_KEEP_ALIVE_TIMEOUT
           D == MaxTimerDelay
<1>1. /\ KEEP_ALIVE_TIMER \in timers /\ K <= time /\ timers' = {ACK_TIMER}
      /\ UNCHANGED <<client_vars, ACK_TIMER, KEEP_ALIVE_TIMER, PARAMS, time>>
      /\ executing = "idle" /\ executing' = "check_keep_alive"
      /\ client_keys' = {k \in CLIENTS_WAITING_FOR_KEEP_ALIVE
                                 \cap DOMAIN REGISTERED_CLIENTS : is_silent(k)}
    BY CheckFires
<1>2. A - I = K - T /\ time <= K + D
    BY <1>1 DEF DeadlineInv
<1>3. I \in Nat /\ T \in Nat /\ D \in Nat /\ A \in Nat /\ K \in Nat /\ time \in Nat
    BY TimerTypes
<1>4. UNCHANGED REGISTERED_CLIENTS
    BY <1>1 DEF client_vars
<1>5. ASSUME NEW k \in DOMAIN REGISTERED_CLIENTS
      PROVE  \/ A <= heard(k) + I + d
             \/ k \in client_keys' /\ time <= heard(k) + I + T + 2 * D + d
  <2>1. heard(k) \in Nat
      BY TimerTypes
  <2>2. \/ A <= heard(k) + I + d
        \/ k \in CLIENTS_WAITING_FOR_KEEP_ALIVE /\ K <= heard(k) + I + T + D + d
      BY <1>1 DEF SilenceInv
  <2>3. ASSUME k \in CLIENTS_WAITING_FOR_KEEP_ALIVE, K <= heard(k) + I + T + D + d
        PROVE  \/ A <= heard(k) + I + d
               \/ k \in client_keys' /\ time <= heard(k) + I + T + 2 * D + d
    <3>1. CASE is_silent(k)
      <4>1. k \in client_keys'
          BY <1>1, <2>3, <3>1
      <4> HIDE DEF A, K, I, T, D
      <4>2. time <= heard(k) + I + T + 2 * D + d
          BY <1>2, <1>3, <2>1, <2>3
      <4> QED BY <4>1, <4>2
    <3>2. CASE ~is_silent(k)
      <4>1. ~(time - heard(k) > T)
          BY <3>2 DEF is_silent, heard
      <4> HIDE DEF A, K, I, T, D
      <4>2. K - T <= heard(k)
          BY <1>1, <1>3, <2>1, <4>1
      <4> QED BY <1>2, <1>3, <2>1, <4>2
    <3> QED BY <3>1, <3>2
  <2> QED BY <2>2, <2>3
<1>6. \A k \in DOMAIN REGISTERED_CLIENTS' : heard(k)' = heard(k)
    BY <1>4 DEF heard
<1> QED BY <1>1, <1>4, <1>5, <1>6 DEF SilenceInv

\* The clients after the acknowledgements: every one is waited for.
LEMMA AckWaitsForAll ==
    ASSUME NEW d \in Nat, Inv, TimerInv, DeadlineInv, SilenceInv(d), send_ack_end
    PROVE  SilenceInv(d)'
<1> DEFINE A == ACK_TIMER.deadline
           I == PARAMS.send_ack_interval
           T == CLIENT_KEEP_ALIVE_TIMEOUT
           D == MaxTimerDelay
<1>1. /\ KEEP_ALIVE_TIMER' \in timers' /\ KEEP_ALIVE_TIMER'.deadline = time + T
      /\ executing = "send_ack" /\ executing' = "idle" /\ client_keys = {}
      /\ PARAMS' = PARAMS
      /\ UNCHANGED <<REGISTERED_CLIENTS, CLIENTS_WAITING_FOR_KEEP_ALIVE>>
    BY AckSets DEF client_vars
<1>2. timers = {ACK_TIMER} /\ KEEP_ALIVE_TIMER \notin timers /\ time <= A + D
    BY <1>1, TimerTypes DEF TimerInv, DeadlineInv
<1>3. I \in Nat /\ T \in Nat /\ D \in Nat /\ A \in Nat /\ time \in Nat
    BY TimerTypes
<1>4. ASSUME NEW k \in DOMAIN REGISTERED_CLIENTS
      PROVE  /\ k \in CLIENTS_WAITING_FOR_KEEP_ALIVE
             /\ time + T <= heard(k) + I + T + D + d
  <2>1. k \in CLIENTS_WAITING_FOR_KEEP_ALIVE /\ A <= heard(k) + I + d
      BY <1>1, <1>2 DEF SilenceInv
  <2>2. heard(k) \in Nat
      BY TimerTypes
  <2> HIDE DEF A, I, T, D
  <2> QED BY <1>2, <1>3, <2>1, <2>2
<1>5. \A k \in DOMAIN REGISTERED_CLIENTS' : heard(k)' = heard(k)
    BY <1>1 DEF heard
<1> QED BY <1>1, <1>4, <1>5 DEF SilenceInv

LEMMA SilenceInductive ==
    ASSUME "init" \notin Maintenance, NEW d \in Nat,
           Inv, TimerInv, DeadlineInv, SilenceInv(d), [Next]_vars
    PROVE  SilenceInv(d)'
<1>1. CASE LeavesTimers
  <2>1. UNCHANGED <<ACK_TIMER, KEEP_ALIVE_TIMER, timers, PARAMS, time>>
      BY <1>1 DEF LeavesTimers, timer_vars
  <2>2. ASSUME NEW k \in DOMAIN REGISTERED_CLIENTS', heard(k)' = time
        PROVE  ACK_TIMER.deadline <= heard(k)' + PARAMS.send_ack_interval + d
      BY <2>2, TimerTypes DEF DeadlineInv
  <2>3. ASSUME NEW k \in DOMAIN REGISTERED_CLIENTS', heard(k)' # time
        PROVE  /\ k \in DOMAIN REGISTERED_CLIENTS /\ heard(k)' = heard(k)
               /\ k \in CLIENTS_WAITING_FOR_KEEP_ALIVE
                      => k \in CLIENTS_WAITING_FOR_KEEP_ALIVE'
      BY <1>1, <2>3 DEF LeavesTimers, KeepsClients
  <2>4. ASSUME NEW k \in DOMAIN REGISTERED_CLIENTS', heard(k)' # time,
               executing = "check_keep_alive", k \in client_keys
        PROVE  executing' = "check_keep_alive" /\ k \in client_keys'
      BY <1>1, <2>4 DEF LeavesTimers, InsideLoop, OutsideLoops, idle
  <2>5. ASSUME executing' = "send_ack"
        PROVE  DOMAIN REGISTERED_CLIENTS'
                   \subseteq client_keys' \cup CLIENTS_WAITING_FOR_KEEP_ALIVE'
    <3>1. executing = "send_ack" /\ InsideLoop
        BY <1>1, <2>5 DEF LeavesTimers, InsideLoop, OutsideLoops
    <3> QED BY <3>1 DEF InsideLoop, SilenceInv
  <2>6. ASSUME NEW k \in DOMAIN REGISTERED_CLIENTS'
        PROVE  \/ ACK_TIMER'.deadline <= heard(k)' + PARAMS'.send_ack_interval + d
               \/ /\ KEEP_ALIVE_TIMER' \in timers' /\ k \in CLIENTS_WAITING_FOR_KEEP_ALIVE'
                  /\ KEEP_ALIVE_TIMER'.deadline
                         <= heard(k)' + PARAMS'.send_ack_interval
                                + CLIENT_KEEP_ALIVE_TIMEOUT + MaxTimerDelay + d
               \/ /\ executing' = "check_keep_alive" /\ k \in client_keys'
                  /\ time' <= heard(k)' + PARAMS'.send_ack_interval
                                  + CLIENT_KEEP_ALIVE_TIMEOUT + 2 * MaxTimerDelay + d
    <3>1. CASE heard(k)' = time
        BY <2>1, <2>2, <3>1
    <3>2. CASE heard(k)' # time
        BY <2>1, <2>3, <2>4, <3>2 DEF SilenceInv
    <3> QED BY <3>1, <3>2
  <2> QED BY <2>5, <2>6 DEF SilenceInv
<1>2. ASSUME NEW params \in InitParams, init(params) \/ upgrade(params)
      PROVE  SilenceInv(d)'
    BY <1>2, UpgradeForgets DEF init, SilenceInv
<1>3. CASE send_ack_to_clients
  <2>1. /\ UNCHANGED <<ACK_TIMER, KEEP_ALIVE_TIMER, timers, PARAMS, time>>
        /\ UNCHANGED <<REGISTERED_CLIENTS, CLIENTS_WAITING_FOR_KEEP_ALIVE>>
        /\ executing = "idle" /\ client_keys' = DOMAIN REGISTERED_CLIENTS
      BY <1>3 DEF send_ack_to_clients, timer_vars, client_vars, idle, start_loop
  <2>2. \A k \in DOMAIN REGISTERED_CLIENTS' : heard(k)' = heard(k)
      BY <2>1 DEF heard
  <2> QED BY <2>1, <2>2 DEF SilenceInv
<1>4. CASE send_ack_end
    BY <1>4, AckWaitsForAll
<1>5. CASE check_keep_alive
    BY <1>5, CheckFindsTheSilent
<1>6. CASE tick
  <2>1. /\ UNCHANGED <<ACK_TIMER, KEEP_ALIVE_TIMER, timers, PARAMS>>
        /\ UNCHANGED <<REGISTERED_CLIENTS, CLIENTS_WAITING_FOR_KEEP_ALIVE>>
        /\ executing = "idle" /\ executing' = "idle"
      BY <1>6 DEF tick, timer_vars, client_vars, loop_vars, idle
  <2>2. \A k \in DOMAIN REGISTERED_CLIENTS' : heard(k)' = heard(k)
      BY <2>1 DEF heard
  <2> QED BY <2>1, <2>2 DEF SilenceInv
<1> QED BY <1>1, <1>2, <1>3, <1>4, <1>5, <1>6, Steps

LEMMA RetirementInductive ==
    ASSUME "init" \notin Maintenance, NEW d \in Nat,
           Inv, TimerInv, DeadlineInv, RetirementInv(d), [Next]_vars
    PROVE  RetirementInv(d)'
<1> DEFINE A == ACK_TIMER.deadline
           K == KEEP_ALIVE_TIMER.deadline
           I == PARAMS.send_ack_interval
           T == CLIENT_KEEP_ALIVE_TIMEOUT
           D == MaxTimerDelay
<1>1. /\ I \in Nat /\ T \in Nat /\ D \in Nat /\ A \in Nat /\ K \in Nat /\ time \in Nat
      /\ T < I /\ A <= time + I
      /\ KEEP_ALIVE_TIMER \in timers => A - I = K - T
      /\ time <= A + D
    BY TimerTypes DEF TimerInv, check_validity, DeadlineInv
<1>2. CASE LeavesTimers
  <2>1. UNCHANGED <<ACK_TIMER, KEEP_ALIVE_TIMER, timers, PARAMS>>
      BY <1>2 DEF LeavesTimers, timer_vars
  <2>2. \A g \in DOMAIN GATEWAYS_TO_REMOVE' :
            \/ GATEWAYS_TO_REMOVE'[g] = time
            \/ /\ g \in DOMAIN GATEWAYS_TO_REMOVE
               /\ GATEWAYS_TO_REMOVE'[g] = GATEWAYS_TO_REMOVE[g]
      BY <1>2 DEF LeavesTimers, KeepsRetirements
  <2>3. IF KEEP_ALIVE_TIMER \in timers
        THEN K <= time + 2 * I + D + d ELSE A + T <= time + 2 * I + d
    <3> HIDE DEF A, K, I, T, D
    <3> QED BY <1>1
  <2> QED BY <2>1, <2>2, <2>3 DEF RetirementInv
<1>3. ASSUME NEW params \in InitParams, init(params) \/ upgrade(params)
      PROVE  RetirementInv(d)'
    BY <1>3, UpgradeForgets DEF init, RetirementInv
<1>4. CASE send_ack_to_clients \/ tick
  <2>1. UNCHANGED <<ACK_TIMER, KEEP_ALIVE_TIMER, timers, PARAMS, GATEWAYS_TO_REMOVE>>
      BY <1>4 DEF send_ack_to_clients, tick, timer_vars, gateway_vars
  <2> QED BY <2>1 DEF RetirementInv
<1>5. CASE send_ack_end
  <2>1. /\ KEEP_ALIVE_TIMER' \in timers' /\ KEEP_ALIVE_TIMER'.deadline = time + T
        /\ PARAMS' = PARAMS /\ UNCHANGED GATEWAYS_TO_REMOVE /\ executing = "send_ack"
      BY <1>5, AckSets DEF gateway_vars
  <2>2. KEEP_ALIVE_TIMER \notin timers
      BY <2>1 DEF TimerInv
  <2>3. ASSUME NEW g \in DOMAIN GATEWAYS_TO_REMOVE
        PROVE  time + T <= GATEWAYS_TO_REMOVE[g] + 2 * I + D + d
    <3>1. A + T <= GATEWAYS_TO_REMOVE[g] + 2 * I + d /\ GATEWAYS_TO_REMOVE[g] \in Nat
        BY <2>2, TimerTypes DEF RetirementInv
    <3> HIDE DEF A, K, I, T, D
    <3> QED BY <1>1, <3>1
  <2> QED BY <2>1, <2>3 DEF RetirementInv
<1>6. CASE check_keep_alive
  <2>1. /\ KEEP_ALIVE_TIMER \in timers /\ K <= time /\ timers' = {ACK_TIMER}
        /\ UNCHANGED <<ACK_TIMER, KEEP_ALIVE_TIMER, PARAMS>>
        /\ remove_empty_expired_gateways
      BY <1>6, CheckFires
  <2>2. KEEP_ALIVE_TIMER' \notin timers'
      BY <2>1 DEF TimerInv
  <2>3. \A g \in DOMAIN GATEWAYS_TO_REMOVE' :
            /\ g \in DOMAIN GATEWAYS_TO_REMOVE /\ ~is_expired_gateway(g)
            /\ GATEWAYS_TO_REMOVE'[g] = GATEWAYS_TO_REMOVE[g]
      BY <2>1 DEF remove_empty_expired_gateways, remove, Restrict
  <2>4. ASSUME NEW g \in DOMAIN GATEWAYS_TO_REMOVE'
        PROVE  A + T <= GATEWAYS_TO_REMOVE[g] + 2 * I + d
    <3>1. ~(time - GATEWAYS_TO_REMOVE[g] > I) /\ GATEWAYS_TO_REMOVE[g] \in Nat
        BY <2>3, TimerTypes DEF is_expired_gateway
    <3> HIDE DEF A, K, I, T, D
    <3> QED BY <1>1, <2>1, <3>1
  <2> QED BY <2>1, <2>2, <2>3, <2>4 DEF RetirementInv
<1> QED BY <1>2, <1>3, <1>4, <1>5, <1>6, Steps

\* What the two invariants bound: a client that is still registered was heard of, and a
\* gateway that is still due for removal lost its last client, not longer ago than this.
LEMMA SilenceBound ==
    ASSUME Inv, TimerInv, DeadlineInv, NEW d \in Nat, SilenceInv(d),
           NEW k \in DOMAIN REGISTERED_CLIENTS
    PROVE  time - heard(k) <= PARAMS.send_ack_interval + CLIENT_KEEP_ALIVE_TIMEOUT
                                  + 2 * MaxTimerDelay + d
<1>1. /\ time <= ACK_TIMER.deadline + MaxTimerDelay
      /\ KEEP_ALIVE_TIMER \in timers => time <= KEEP_ALIVE_TIMER.deadline + MaxTimerDelay
    BY DEF TimerInv, DeadlineInv
<1>2. heard(k) \in Nat
    BY TimerTypes
<1>3. CASE ACK_TIMER.deadline <= heard(k) + PARAMS.send_ack_interval + d
    BY <1>1, <1>2, <1>3, TimerTypes
<1>4. CASE /\ KEEP_ALIVE_TIMER \in timers
           /\ KEEP_ALIVE_TIMER.deadline
                  <= heard(k) + PARAMS.send_ack_interval + CLIENT_KEEP_ALIVE_TIMEOUT
                         + MaxTimerDelay + d
    BY <1>1, <1>2, <1>4, TimerTypes
<1>5. CASE time <= heard(k) + PARAMS.send_ack_interval + CLIENT_KEEP_ALIVE_TIMEOUT
                       + 2 * MaxTimerDelay + d
    BY <1>2, <1>5, TimerTypes
<1> QED BY <1>3, <1>4, <1>5 DEF SilenceInv

LEMMA RetirementBound ==
    ASSUME Inv, TimerInv, DeadlineInv, NEW d \in Nat, RetirementInv(d),
           NEW g \in DOMAIN GATEWAYS_TO_REMOVE
    PROVE  time - GATEWAYS_TO_REMOVE[g] <= 2 * (PARAMS.send_ack_interval + MaxTimerDelay) + d
<1>1. /\ time <= ACK_TIMER.deadline + MaxTimerDelay
      /\ KEEP_ALIVE_TIMER \in timers => time <= KEEP_ALIVE_TIMER.deadline + MaxTimerDelay
    BY DEF TimerInv, DeadlineInv
<1>2. GATEWAYS_TO_REMOVE[g] \in Nat
    BY TimerTypes
<1>3. IF KEEP_ALIVE_TIMER \in timers
      THEN KEEP_ALIVE_TIMER.deadline
               <= GATEWAYS_TO_REMOVE[g] + 2 * PARAMS.send_ack_interval + MaxTimerDelay + d
      ELSE ACK_TIMER.deadline + CLIENT_KEEP_ALIVE_TIMEOUT
               <= GATEWAYS_TO_REMOVE[g] + 2 * PARAMS.send_ack_interval + d
    BY DEF RetirementInv
<1> QED BY <1>1, <1>2, <1>3, TimerTypes

\* Without another init, a client that stays silent is removed within an interval, a
\* timeout and twice the lateness of a timer: the acknowledgement waits for it, and the
\* check of that acknowledgement finds it, for every interval longer than the timeout.
THEOREM SilentClientsLeave ==
    ASSUME "init" \notin Maintenance
    PROVE  Spec => []SilentClientsAreRemoved
<1>1. Init => SilenceInv(0)
    BY Empty DEF Init, SilenceInv
<1>2. Inv /\ TimerInv /\ DeadlineInv /\ SilenceInv(0) /\ [Next]_vars => SilenceInv(0)'
    BY SilenceInductive
<1>3. Inv /\ TimerInv /\ DeadlineInv /\ SilenceInv(0) => SilentClientsAreRemoved
  <2> SUFFICES ASSUME Inv, TimerInv, DeadlineInv, SilenceInv(0),
                      NEW k \in DOMAIN REGISTERED_CLIENTS
               PROVE  time - heard(k) <= PARAMS.send_ack_interval
                          + CLIENT_KEEP_ALIVE_TIMEOUT + 2 * MaxTimerDelay
      BY DEF SilentClientsAreRemoved, heard
  <2>1. time - heard(k) <= PARAMS.send_ack_interval + CLIENT_KEEP_ALIVE_TIMEOUT
                               + 2 * MaxTimerDelay + 0
      BY SilenceBound
  <2> QED BY <2>1, TimerTypes
<1> QED BY <1>1, <1>2, <1>3, DeadlineInvariant, PTL DEF Spec

\* Without another init, a gateway whose last client left is removed, with what was
\* stored for it, within two intervals and twice the lateness of a timer.
THEOREM EmptyGatewaysLeave ==
    ASSUME "init" \notin Maintenance
    PROVE  Spec => []EmptyGatewaysAreRemoved
<1>1. Init => RetirementInv(0)
    BY Empty DEF Init, RetirementInv
<1>2. Inv /\ TimerInv /\ DeadlineInv /\ RetirementInv(0) /\ [Next]_vars => RetirementInv(0)'
    BY RetirementInductive
<1>3. Inv /\ TimerInv /\ DeadlineInv /\ RetirementInv(0) => EmptyGatewaysAreRemoved
  <2> SUFFICES ASSUME Inv, TimerInv, DeadlineInv, RetirementInv(0),
                      NEW g \in DOMAIN GATEWAYS_TO_REMOVE
               PROVE  time - GATEWAYS_TO_REMOVE[g]
                          <= 2 * (PARAMS.send_ack_interval + MaxTimerDelay)
      BY DEF EmptyGatewaysAreRemoved
  <2>1. time - GATEWAYS_TO_REMOVE[g]
            <= 2 * (PARAMS.send_ack_interval + MaxTimerDelay) + 0
      BY RetirementBound
  <2> QED BY <2>1, TimerTypes
<1> QED BY <1>1, <1>2, <1>3, DeadlineInvariant, PTL DEF Spec
=============================================================================
