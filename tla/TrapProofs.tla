----------------------------- MODULE TrapProofs -----------------------------
(***************************************************************************)
(* Theorems about callbacks that trap in a loop.  A trap brings back a     *)
(* state from before the loop, among timers and at a time that have gone   *)
(* on: what the theorems on WsCdk rely on has to hold of that state all    *)
(* along.                                                                  *)
(***************************************************************************)
EXTENDS WsTraps, RefinementProofs

----------------------------------------------------------------------------
(***************************************************************************)
(* The state that a trap would bring back, seen as a state of WsCdk.       *)
(***************************************************************************)

Undone == INSTANCE RefinementProofs WITH
    REGISTERED_CLIENTS <- saved.clients, CURRENT_CLIENT_KEY_MAP <- saved.current,
    CLIENTS_WAITING_FOR_KEEP_ALIVE <- saved.waiting,
    OUTGOING_MESSAGE_TO_CLIENT_NUM_MAP <- saved.outgoing,
    INCOMING_MESSAGE_FROM_CLIENT_NUM_MAP <- saved.incoming,
    REGISTERED_GATEWAYS <- saved.gateways, GATEWAYS_TO_REMOVE <- saved.to_remove,
    CERT_TREE <- saved.tree, certified_data <- saved.certified,
    executing <- "idle", client_keys <- {}, in_on_close <- FALSE

\* What the theorems on WsCdk rely on, of the maps that a trap would bring back.
UndoneInv ==
    /\ Undone!StateInv /\ Undone!RetiredInv /\ Undone!QueuesInOrder
    /\ Undone!CertInv /\ Undone!StreamInv

\* A loop that calls on_close only removes clients.
OnlyRemoves == DOMAIN REGISTERED_CLIENTS \subseteq DOMAIN saved.clients

\* The state is sound, and so would be the state that a trap brings back.
TrapInv ==
    /\ CdkInv
    /\ traps \in Seq(ClientKey)
    /\ calls_on_close_in_a_loop => UndoneInv /\ OnlyRemoves

----------------------------------------------------------------------------
(***************************************************************************)
(* The definitions of Undone that no variable is in are those of WsCdk.    *)
(***************************************************************************)

LEMMA SameCardinality ==
    /\ \A S : Undone!IsFiniteSet(S) = IsFiniteSet(S)
    /\ \A S : Undone!Cardinality(S) = Cardinality(S)
<1>1. \A S : Undone!IsFiniteSet(S) = IsFiniteSet(S)
    BY Zenon DEF Undone!IsFiniteSet, IsFiniteSet
<1>2. \A S : Undone!Cardinality(S) = Cardinality(S)
    BY Zenon DEF Undone!Cardinality, Cardinality
<1> QED BY <1>1, <1>2

LEMMA SameTypes ==
    /\ Undone!ClientKey = ClientKey /\ Undone!RegisteredClient = RegisteredClient
    /\ Undone!Message = Message
    /\ Undone!Timer = Timer /\ Undone!NoTimer = NoTimer
    /\ \A map, S, T : Undone!MapInto(map, S, T) = MapInto(map, S, T)
    /\ \A rg : Undone!GatewaysOK(rg) = GatewaysOK(rg)
<1>1. Undone!ClientKey = ClientKey /\ Undone!RegisteredClient = RegisteredClient
    BY DEF Undone!ClientKey, ClientKey, Undone!RegisteredClient, RegisteredClient
<1>2. Undone!Content = Content
    BY DEF Undone!Content, Content, Undone!ApplicationMessage, ApplicationMessage,
           Undone!OpenMessage, OpenMessage, Undone!CloseMessageReason, CloseMessageReason
<1>3. Undone!Message = Message
    BY <1>1, <1>2 DEF Undone!Message, Message
<1>4. Undone!Timer = Timer /\ Undone!NoTimer = NoTimer
    BY DEF Undone!Timer, Timer, Undone!NoTimer, NoTimer
<1>5. \A map, S, T : Undone!MapInto(map, S, T) = MapInto(map, S, T)
    BY DEF Undone!MapInto, MapInto
<1>6. Undone!GatewayRecord = GatewayRecord
    BY <1>3 DEF Undone!GatewayRecord, GatewayRecord
<1>7. \A rg : Undone!GatewaysOK(rg) = GatewaysOK(rg)
    BY <1>5, <1>6 DEF Undone!GatewaysOK, GatewaysOK
<1> QED BY <1>1, <1>3, <1>4, <1>5, <1>7

LEMMA SameQueues ==
    /\ \A gw, g, now : Undone!QueueInOrder(gw, g, now) = QueueInOrder(gw, g, now)
    /\ \A rg, tree : Undone!Matches(rg, tree) = Matches(rg, tree)
    /\ \A rg : Undone!Waiting(rg) = Waiting(rg)
    /\ \A queue : Undone!Numbered(queue) = Numbered(queue)
    /\ \A queue, k, n : Undone!EndsWith(queue, k, n) = EndsWith(queue, k, n)
    /\ \A rg : Undone!logs_of(rg) = logs_of(rg)
    /\ \A p, nonce : Undone!key_of(p, nonce) = key_of(p, nonce)
<1>1. \A gw, g, now : Undone!QueueInOrder(gw, g, now) = QueueInOrder(gw, g, now)
    BY DEF Undone!QueueInOrder, QueueInOrder
<1>2. /\ \A rg, tree : Undone!Matches(rg, tree) = Matches(rg, tree)
      /\ \A rg : Undone!Waiting(rg) = Waiting(rg)
    BY DEF Undone!Matches, Matches, Undone!Waiting, Waiting, Undone!queue_of, queue_of
<1>3. \A queue : Undone!Numbered(queue) = Numbered(queue)
  <2>1. \A a, b : Undone!may_follow(a, b) = may_follow(a, b)
      BY DEF Undone!may_follow, may_follow, Undone!OpenMessage, OpenMessage
  <2>2. \A queue, i, j : Undone!next_in(queue, i, j) = next_in(queue, i, j)
      BY DEF Undone!next_in, next_in
  <2>3. Undone!OpenMessage = OpenMessage
      BY DEF Undone!OpenMessage, OpenMessage
  <2> QED BY <2>1, <2>2, <2>3 DEF Undone!Numbered, Numbered
<1>4. \A queue, k, n : Undone!EndsWith(queue, k, n) = EndsWith(queue, k, n)
    BY DEF Undone!EndsWith, EndsWith, Undone!last_in, last_in
<1>5. /\ \A rg : Undone!logs_of(rg) = logs_of(rg)
      /\ \A p, nonce : Undone!key_of(p, nonce) = key_of(p, nonce)
    BY DEF Undone!logs_of, logs_of, Undone!log_of, log_of, Undone!key_of, key_of
<1> QED BY <1>1, <1>2, <1>3, <1>4, <1>5

----------------------------------------------------------------------------
(***************************************************************************)
(* The saved state when a loop begins, while it goes on, and when a trap   *)
(* brings it back.                                                         *)
(***************************************************************************)

\* A loop begins: what would be undone leads back to the state it begins in.
LEMMA Saved ==
    ASSUME CdkInv, saved' = heap, UNCHANGED time
    PROVE  UndoneInv'
<1> USE DEF CdkInv, ServiceInv, Inv, StateInv, heap
<1>1. Undone!StateInv'
  <2>1. Undone!MapsOK'
      BY SameTypes, SameCardinality DEF MapsOK, Undone!MapsOK
  <2>2. Undone!RegistryConsistent'
      BY DEF RegistryConsistent, Undone!RegistryConsistent
  <2>3. Undone!GatewayCounts'
      BY SameCardinality
         DEF GatewayCounts, Undone!GatewayCounts, clients_of, Undone!clients_of,
             gateway_of, Undone!gateway_of
  <2> QED BY <2>1, <2>2, <2>3 DEF Undone!StateInv
<1>2. Undone!RetiredInv' /\ Undone!QueuesInOrder' /\ Undone!CertInv'
    BY SameQueues DEF RetiredInv, Undone!RetiredInv, QueuesInOrder, Undone!QueuesInOrder,
           CertInv, Undone!CertInv
<1>3. Undone!StreamInv'
  <2>1. Undone!Logs' = Logs /\ Undone!Sessions' = Sessions
      BY SameQueues
         DEF Logs, Undone!Logs, Sessions, Undone!Sessions, session_of, Undone!session_of,
             gateway_of, Undone!gateway_of
  <2> QED BY <2>1, SameQueues DEF StreamInv, Undone!StreamInv
<1> QED BY <1>1, <1>2, <1>3 DEF UndoneInv

\* A loop goes on.
LEMMA StillSaved ==
    ASSUME UndoneInv, UNCHANGED <<saved, time>>
    PROVE  UndoneInv'
<1>1. Undone!StateInv'
  <2>1. Undone!MapsOK'
      BY SameTypes, SameCardinality DEF UndoneInv, Undone!StateInv, Undone!MapsOK
  <2>2. Undone!RegistryConsistent'
      BY DEF UndoneInv, Undone!StateInv, Undone!RegistryConsistent
  <2>3. Undone!GatewayCounts'
      BY SameCardinality
         DEF UndoneInv, Undone!StateInv, Undone!GatewayCounts, Undone!clients_of,
             Undone!gateway_of
  <2> QED BY <2>1, <2>2, <2>3 DEF Undone!StateInv
<1>2. Undone!RetiredInv' /\ Undone!QueuesInOrder' /\ Undone!CertInv'
    BY SameQueues
       DEF UndoneInv, Undone!RetiredInv, Undone!QueuesInOrder, Undone!CertInv
<1>3. Undone!StreamInv'
  <2>1. Undone!Logs' = Undone!Logs /\ Undone!Sessions' = Undone!Sessions
      BY SameQueues
         DEF Undone!Logs, Undone!Sessions, Undone!session_of, Undone!gateway_of
  <2> QED BY <2>1, SameQueues DEF UndoneInv, Undone!StreamInv
<1> QED BY <1>1, <1>2, <1>3 DEF UndoneInv

\* A trap brings the saved maps back, among the timers of now.
LEMMA Restored ==
    ASSUME TrapInv, NEW k, on_close_traps(k)
    PROVE  CdkInv'
<1>1. /\ restore /\ UNCHANGED <<timer_vars, PARAMS, time>>
      /\ executing' = "idle" /\ client_keys' = {} /\ in_on_close' = FALSE
      /\ UndoneInv /\ Inv /\ TimerInv /\ DeadlineInv
    BY DEF on_close_traps, TrapInv, CdkInv, ServiceInv
<1>2. StateInv'
  <2>1. MapsOK'
      BY <1>1, SameTypes, SameCardinality
         DEF restore, MapsOK, UndoneInv, Undone!StateInv, Undone!MapsOK
  <2>2. RegistryConsistent'
      BY <1>1
         DEF restore, RegistryConsistent, UndoneInv, Undone!StateInv,
             Undone!RegistryConsistent
  <2>3. GatewayCounts'
      BY <1>1, SameCardinality
         DEF restore, GatewayCounts, clients_of, gateway_of, UndoneInv, Undone!StateInv,
             Undone!GatewayCounts, Undone!clients_of, Undone!gateway_of
  <2> QED BY <2>1, <2>2, <2>3 DEF StateInv
<1>3. ControlInv'
    BY <1>1 DEF Inv, ControlInv, LoopKeysAreRegistered, timer_vars
<1>4. TimerInv' /\ DeadlineInv' /\ CheckInv' /\ AskedInv'
    BY <1>1 DEF TimerInv, DeadlineInv, CheckInv, AskedInv, timer_vars, check_validity
<1>5. RetiredInv' /\ QueuesInOrder' /\ CertInv'
    BY <1>1, SameQueues
       DEF restore, UndoneInv, RetiredInv, Undone!RetiredInv, QueuesInOrder,
           Undone!QueuesInOrder, CertInv, Undone!CertInv
<1>6. StreamInv'
  <2>1. Logs' = Undone!Logs /\ Sessions' = Undone!Sessions
      BY <1>1, SameQueues
         DEF restore, Logs, Undone!Logs, Sessions, Undone!Sessions, session_of,
             Undone!session_of, gateway_of, Undone!gateway_of
  <2> QED BY <1>1, <2>1, SameQueues DEF UndoneInv, StreamInv, Undone!StreamInv
<1> QED BY <1>2, <1>3, <1>4, <1>5, <1>6 DEF CdkInv, ServiceInv, Inv

----------------------------------------------------------------------------
(***************************************************************************)
(* The steps of a loop that calls on_close.                                *)
(***************************************************************************)

LEMMA LoopBegins ==
    ASSUME [Next]_vars, idle, calls_on_close_in_a_loop'
    PROVE  /\ wipe \/ check_keep_alive
           /\ UNCHANGED <<REGISTERED_CLIENTS, ACK_TIMER, KEEP_ALIVE_TIMER, PARAMS, time>>
<1>1. executing = "idle" /\ executing' \in {"wipe", "check_keep_alive"}
    BY DEF idle, calls_on_close_in_a_loop
<1>2. ~ \/ \E p \in Principal, nonce \in ClientNonce, g \in Gateway : ws_open(p, nonce, g)
        \/ \E g \in Gateway, k \in ClientKey : ws_close(g, k)
        \/ \E p \in Principal : send(p) \/ close(p)
  <2>1. ~ \E p \in Principal, nonce \in ClientNonce, g \in Gateway : ws_open(p, nonce, g)
    <3>1. ASSUME NEW p, NEW nonce, NEW g, ws_open(p, nonce, g)
          PROVE  UNCHANGED loop_vars
        BY <3>1, Zenon DEF ws_open
    <3> QED BY <1>1, <3>1 DEF loop_vars
  <2>2. ~ \E g \in Gateway, k \in ClientKey : ws_close(g, k)
      BY <1>1 DEF ws_close, loop_vars
  <2>3. ~ \E p \in Principal : send(p) \/ close(p)
      BY <1>1 DEF send, close, loop_vars
  <2> QED BY <2>1, <2>2, <2>3
<1>3. ~ \E p \in Principal, k \in ClientKey :
            \/ ws_message(p, k)
            \/ ws_message_keep_alive(p, k)
            \/ ws_message_wrong_sequence_number(p, k)
    BY <1>1 DEF ws_message, ws_message_keep_alive, accept_message,
           ws_message_wrong_sequence_number, loop_vars
<1>4. ~ \/ \E params \in InitParams : init(params) \/ upgrade(params)
        \/ send_ack_to_clients \/ tick \/ UNCHANGED vars
    BY <1>1 DEF init, upgrade, send_ack_to_clients, start_loop, tick, vars, loop_vars
<1>5. ~ \/ wipe_end \/ send_ack_end \/ check_keep_alive_end
        \/ \E k \in client_keys : wipe_client(k) \/ send_ack(k) \/ close_silent_client(k)
    BY <1>1 DEF wipe_end, send_ack_end, check_keep_alive_end, end_loop, wipe_client,
           send_ack, close_silent_client, next_iteration
<1>6. wipe \/ check_keep_alive
    BY <1>2, <1>3, <1>4, <1>5 DEF Next
<1> QED BY <1>6 DEF wipe, check_keep_alive, client_vars, timer_vars

LEMMA LoopGoesOn ==
    ASSUME Inv, [Next]_vars, ~idle, calls_on_close_in_a_loop'
    PROVE  /\ executing' = executing
           /\ DOMAIN REGISTERED_CLIENTS' \subseteq DOMAIN REGISTERED_CLIENTS
           /\ UNCHANGED <<timer_vars, PARAMS, time>>
<1>1. executing # "idle" /\ executing' # "idle" /\ executing' # "send_ack"
    BY DEF idle, calls_on_close_in_a_loop
<1>2. LeavesTimers
  <2>1. /\ \A params \in InitParams : ~init(params) /\ ~upgrade(params)
        /\ ~send_ack_to_clients /\ ~send_ack_end /\ ~check_keep_alive /\ ~tick
      BY <1>1 DEF init, upgrade, send_ack_to_clients, send_ack_end, end_loop,
             check_keep_alive, tick, idle
  <2> QED BY <2>1, Steps
<1>3. InsideLoop
    BY <1>1, <1>2 DEF LeavesTimers, OutsideLoops, idle
<1> QED BY <1>2, <1>3 DEF LeavesTimers, InsideLoop

\* What is saved after a step without a trap.
LEMMA StepWithoutTrap ==
    ASSUME runs_without_trap \/ UNCHANGED trap_vars
    PROVE  /\ [Next]_vars /\ traps' = traps
           /\ idle /\ calls_on_close_in_a_loop' => saved' = heap
           /\ ~idle /\ calls_on_close_in_a_loop' => saved' = saved
<1>1. CASE runs_without_trap
    BY <1>1 DEF runs_without_trap
<1>2. CASE UNCHANGED trap_vars
    BY <1>2 DEF trap_vars, vars, loop_vars, idle, calls_on_close_in_a_loop
<1> QED BY <1>1, <1>2

LEMMA TrapInductive ==
    ASSUME TrapInv, [TrapNext]_trap_vars
    PROVE  TrapInv'
<1>1. ASSUME runs_without_trap \/ UNCHANGED trap_vars
      PROVE  TrapInv'
  <2>1. /\ [Next]_vars /\ traps' = traps
        /\ idle /\ calls_on_close_in_a_loop' => saved' = heap
        /\ ~idle /\ calls_on_close_in_a_loop' => saved' = saved
      BY <1>1, StepWithoutTrap
  <2>2. CdkInv /\ Inv /\ CdkInv'
      BY <2>1, CdkInductive DEF TrapInv, CdkInv, ServiceInv
  <2>3. ASSUME calls_on_close_in_a_loop', idle
        PROVE  UndoneInv' /\ OnlyRemoves'
    <3>1. UNCHANGED <<REGISTERED_CLIENTS, time>>
        BY <2>1, <2>3, LoopBegins
    <3>2. UndoneInv'
        BY <2>1, <2>2, <2>3, <3>1, Saved
    <3> QED BY <2>1, <2>3, <3>1, <3>2 DEF OnlyRemoves, heap
  <2>4. ASSUME calls_on_close_in_a_loop', ~idle
        PROVE  UndoneInv' /\ OnlyRemoves'
    <3>1. /\ executing' = executing /\ UNCHANGED time
          /\ DOMAIN REGISTERED_CLIENTS' \subseteq DOMAIN REGISTERED_CLIENTS
        BY <2>1, <2>2, <2>4, LoopGoesOn
    <3>2. UndoneInv /\ OnlyRemoves
        BY <2>4, <3>1 DEF TrapInv, calls_on_close_in_a_loop
    <3>3. UndoneInv'
        BY <2>1, <2>4, <3>1, <3>2, StillSaved
    <3> QED BY <2>1, <2>4, <3>1, <3>2, <3>3 DEF OnlyRemoves
  <2> QED BY <2>1, <2>2, <2>3, <2>4 DEF TrapInv
<1>2. ASSUME NEW k \in client_keys, on_close_traps(k)
      PROVE  TrapInv'
  <2>1. CdkInv'
      BY <1>2, Restored
  <2>2. traps' = Append(traps, k) /\ executing' = "idle"
      BY <1>2 DEF on_close_traps
  <2>3. k \in ClientKey
      BY DEF TrapInv, CdkInv, ServiceInv, Inv, StateInv, MapsOK, MapInto, ControlInv,
             LoopKeysAreRegistered
  <2>4. traps' \in Seq(ClientKey)
      BY <2>2, <2>3 DEF TrapInv
  <2> QED BY <2>1, <2>2, <2>4 DEF TrapInv, calls_on_close_in_a_loop
<1> QED BY <1>1, <1>2 DEF TrapNext

LEMMA TrapInvariant == TrapSpec => []TrapInv
<1>1. TrapInit => TrapInv
  <2> SUFFICES ASSUME TrapInit PROVE TrapInv
      OBVIOUS
  <2>1. CdkInv
      BY CdkAtStart DEF TrapInit
  <2>2. traps = << >> /\ executing = "idle"
      BY DEF TrapInit, Init
  <2>3. traps \in Seq(ClientKey)
      BY <2>2
  <2> QED BY <2>1, <2>2, <2>3 DEF TrapInv, calls_on_close_in_a_loop
<1>2. TrapInv /\ [TrapNext]_trap_vars => TrapInv'
    BY TrapInductive
<1> QED BY <1>1, <1>2, PTL DEF TrapSpec

----------------------------------------------------------------------------
(***************************************************************************)
(* What a trap undoes, a later check does.                                 *)
(***************************************************************************)

\* What one trap adds to the time that a client or a gateway may stay.
interval == PARAMS.send_ack_interval + MaxTimerDelay

\* Clients and gateways are at most d later than without traps, and would be at most e
\* later if the loop that is running were undone.
DelaysAre(d, e) ==
    /\ SilenceInv(d) /\ RetirementInv(d)
    /\ calls_on_close_in_a_loop => Undone!SilenceInv(e) /\ Undone!RetirementInv(e)

DelayInv ==
    \E d, e \in Nat :
        /\ d = Len(traps) * interval /\ e = (Len(traps) + 1) * interval
        /\ DelaysAre(d, e)

\* A check that is undone has used its timer up: it is the next acknowledgement, an
\* interval after that of the check, which waits for the same clients again.
LEMMA DelaySaved ==
    ASSUME Inv, TimerInv, DeadlineInv, [Next]_vars, idle, calls_on_close_in_a_loop',
           saved' = heap, NEW d \in Nat, NEW e \in Nat, e = d + interval,
           SilenceInv(d), RetirementInv(d)
    PROVE  Undone!SilenceInv(e)' /\ Undone!RetirementInv(e)'
<1> DEFINE A == ACK_TIMER.deadline
           K == KEEP_ALIVE_TIMER.deadline
           I == PARAMS.send_ack_interval
           T == CLIENT_KEEP_ALIVE_TIMEOUT
           D == MaxTimerDelay
<1>1. /\ wipe \/ check_keep_alive
      /\ UNCHANGED <<ACK_TIMER, KEEP_ALIVE_TIMER, PARAMS, time>>
    BY LoopBegins
<1>2. timers' = timers \/ (KEEP_ALIVE_TIMER \in timers /\ timers' = {ACK_TIMER})
    BY <1>1, CheckFires DEF wipe, timer_vars
<1>3. /\ KEEP_ALIVE_TIMER \in timers => A - I = K - T
      /\ KEEP_ALIVE_TIMER # ACK_TIMER
      /\ A \in Nat /\ K \in Nat /\ I \in Nat /\ T \in Nat /\ D \in Nat
      /\ e = d + (I + D)
    BY TimerTypes DEF TimerInv, DeadlineInv, interval
<1>4. executing # "check_keep_alive"
    BY DEF idle
<1>5. ASSUME NEW k \in DOMAIN REGISTERED_CLIENTS
      PROVE  \/ A <= heard(k) + I + e
             \/ /\ KEEP_ALIVE_TIMER \in timers' /\ k \in CLIENTS_WAITING_FOR_KEEP_ALIVE
                /\ K <= heard(k) + I + T + D + e
  <2>1. heard(k) \in Nat
      BY TimerTypes
  <2>2. \/ A <= heard(k) + I + d
        \/ /\ KEEP_ALIVE_TIMER \in timers /\ k \in CLIENTS_WAITING_FOR_KEEP_ALIVE
           /\ K <= heard(k) + I + T + D + d
      BY <1>4 DEF SilenceInv
  <2> HIDE DEF A, K, I, T, D
  <2>3. CASE A <= heard(k) + I + d
      BY <1>3, <2>1, <2>3
  <2>4. CASE /\ KEEP_ALIVE_TIMER \in timers /\ k \in CLIENTS_WAITING_FOR_KEEP_ALIVE
             /\ K <= heard(k) + I + T + D + d
    <3>1. K <= heard(k) + I + T + D + e
        BY <1>3, <2>1, <2>4
    <3>2. A <= heard(k) + I + e
        BY <1>3, <2>1, <2>4
    <3> QED BY <3>1, <3>2
  <2> QED BY <2>2, <2>3, <2>4
<1>6. ASSUME NEW g \in DOMAIN GATEWAYS_TO_REMOVE
      PROVE  IF KEEP_ALIVE_TIMER \in timers'
             THEN K <= GATEWAYS_TO_REMOVE[g] + 2 * I + D + e
             ELSE A + T <= GATEWAYS_TO_REMOVE[g] + 2 * I + e
  <2>1. GATEWAYS_TO_REMOVE[g] \in Nat
      BY TimerTypes
  <2>2. IF KEEP_ALIVE_TIMER \in timers
        THEN K <= GATEWAYS_TO_REMOVE[g] + 2 * I + D + d
        ELSE A + T <= GATEWAYS_TO_REMOVE[g] + 2 * I + d
      BY DEF RetirementInv
  <2>3. KEEP_ALIVE_TIMER \in timers' => KEEP_ALIVE_TIMER \in timers
      BY <1>2, <1>3
  <2> HIDE DEF A, K, I, T, D
  <2>4. CASE KEEP_ALIVE_TIMER \in timers
      BY <1>3, <2>1, <2>2, <2>4
  <2>5. CASE KEEP_ALIVE_TIMER \notin timers
      BY <1>3, <2>1, <2>2, <2>3, <2>5
  <2> QED BY <2>4, <2>5
<1>7. Undone!SilenceInv(e)'
    BY <1>1, <1>5 DEF Undone!SilenceInv, Undone!heard, heard, heap
<1>8. Undone!RetirementInv(e)'
    BY <1>1, <1>6 DEF Undone!RetirementInv, heap
<1> QED BY <1>7, <1>8

LEMMA DelayStillSaved ==
    ASSUME UNCHANGED <<saved, timer_vars, PARAMS, time>>,
           NEW e, Undone!SilenceInv(e), Undone!RetirementInv(e)
    PROVE  Undone!SilenceInv(e)' /\ Undone!RetirementInv(e)'
BY DEF Undone!SilenceInv, Undone!heard, Undone!RetirementInv, timer_vars

LEMMA DelayRestored ==
    ASSUME NEW k, on_close_traps(k),
           NEW e, Undone!SilenceInv(e), Undone!RetirementInv(e)
    PROVE  SilenceInv(e)' /\ RetirementInv(e)'
BY DEF on_close_traps, restore, SilenceInv, Undone!SilenceInv, heard, Undone!heard,
       RetirementInv, Undone!RetirementInv, timer_vars

\* The interval changes only when every client is forgotten.
LEMMA IntervalStays ==
    ASSUME "init" \notin Maintenance, Inv, TimerInv, [Next]_vars
    PROVE  \/ PARAMS' = PARAMS
           \/ /\ DOMAIN REGISTERED_CLIENTS' = {} /\ DOMAIN GATEWAYS_TO_REMOVE' = {}
              /\ executing' = "idle"
<1>1. ASSUME NEW params \in InitParams, init(params) \/ upgrade(params)
      PROVE  /\ DOMAIN REGISTERED_CLIENTS' = {} /\ DOMAIN GATEWAYS_TO_REMOVE' = {}
             /\ executing' = "idle"
    BY <1>1, UpgradeForgets DEF init
<1> QED BY <1>1, Steps, AckSets, CheckFires DEF LeavesTimers, send_ack_to_clients, tick

LEMMA Multiples ==
    ASSUME NEW n \in Nat, NEW i \in Nat
    PROVE  n * i \in Nat /\ (n + 1) * i = n * i + i
OBVIOUS

LEMMA IntervalType == Inv => interval \in Nat
BY TimerTypes DEF interval

LEMMA DelayInductive ==
    ASSUME "init" \notin Maintenance, TrapInv, DelayInv, [TrapNext]_trap_vars
    PROVE  DelayInv'
<1>1. /\ Inv /\ TimerInv /\ DeadlineInv /\ Inv' /\ interval \in Nat /\ interval' \in Nat
      /\ Len(traps) \in Nat /\ Len(traps') \in Nat
  <2>1. TrapInv'
      BY TrapInductive
  <2>2. /\ Inv /\ TimerInv /\ DeadlineInv /\ Inv'
        /\ traps \in Seq(ClientKey) /\ traps' \in Seq(ClientKey)
      BY <2>1 DEF TrapInv, CdkInv, ServiceInv
  <2>3. Inv' => interval' \in Nat
    <3>1. Inv' => PARAMS' \in InitParams
        BY DEF Inv, ControlInv
    <3> QED BY <3>1, InitParamsAssumption, ConstantsAssumption
            DEF InitParamsAssumption, ConstantsAssumption, interval
  <2> QED BY <2>2, <2>3, IntervalType
<1>2. PICK d \in Nat, e \in Nat :
          /\ d = Len(traps) * interval /\ e = (Len(traps) + 1) * interval
          /\ DelaysAre(d, e)
    BY DEF DelayInv
<1>3. e = d + interval
    BY <1>1, <1>2, Multiples
<1>4. ASSUME runs_without_trap \/ UNCHANGED trap_vars
      PROVE  DelayInv'
  <2>1. /\ [Next]_vars /\ traps' = traps
        /\ idle /\ calls_on_close_in_a_loop' => saved' = heap
        /\ ~idle /\ calls_on_close_in_a_loop' => saved' = saved
      BY <1>4, StepWithoutTrap
  <2>2. CASE PARAMS' = PARAMS
    <3>1. SilenceInv(d)' /\ RetirementInv(d)'
        BY <1>1, <1>2, <2>1, SilenceInductive, RetirementInductive DEF DelaysAre
    <3>2. ASSUME calls_on_close_in_a_loop', idle
          PROVE  Undone!SilenceInv(e)' /\ Undone!RetirementInv(e)'
        BY <1>1, <1>2, <1>3, <2>1, <3>2, DelaySaved DEF DelaysAre
    <3>3. ASSUME calls_on_close_in_a_loop', ~idle
          PROVE  Undone!SilenceInv(e)' /\ Undone!RetirementInv(e)'
      <4>1. executing' = executing /\ UNCHANGED <<timer_vars, PARAMS, time>>
          BY <1>1, <2>1, <3>3, LoopGoesOn
      <4>2. Undone!SilenceInv(e) /\ Undone!RetirementInv(e)
          BY <1>2, <3>3, <4>1 DEF DelaysAre, calls_on_close_in_a_loop
      <4> QED BY <2>1, <3>3, <4>1, <4>2, DelayStillSaved
    <3>4. DelaysAre(d, e)'
        BY <3>1, <3>2, <3>3 DEF DelaysAre
    <3>5. interval' = interval
        BY <2>2 DEF interval
    <3> QED BY <1>2, <2>1, <3>4, <3>5 DEF DelayInv
  <2>3. CASE /\ DOMAIN REGISTERED_CLIENTS' = {} /\ DOMAIN GATEWAYS_TO_REMOVE' = {}
             /\ executing' = "idle"
    <3>1. \A x : SilenceInv(x)' /\ RetirementInv(x)'
        BY <2>3 DEF SilenceInv, RetirementInv
    <3>2. \A x, y : DelaysAre(x, y)'
        BY <2>3, <3>1 DEF DelaysAre, calls_on_close_in_a_loop
    <3>3. Len(traps') * interval' \in Nat /\ (Len(traps') + 1) * interval' \in Nat
        BY <1>1, Multiples
    <3> QED BY <3>2, <3>3 DEF DelayInv
  <2> QED BY <1>1, <2>1, <2>2, <2>3, IntervalStays
<1>5. ASSUME NEW k \in client_keys, on_close_traps(k)
      PROVE  DelayInv'
  <2>1. /\ Len(traps') = Len(traps) + 1 /\ PARAMS' = PARAMS /\ executing' = "idle"
        /\ calls_on_close_in_a_loop
      BY <1>5 DEF on_close_traps, TrapInv
  <2>2. SilenceInv(e)' /\ RetirementInv(e)'
      BY <1>2, <1>5, <2>1, DelayRestored DEF DelaysAre
  <2>3. \A x : DelaysAre(e, x)'
      BY <2>1, <2>2 DEF DelaysAre, calls_on_close_in_a_loop
  <2>4. /\ e = Len(traps') * interval'
        /\ (Len(traps') + 1) * interval' \in Nat
    <3>1. interval' = interval
        BY <2>1 DEF interval
    <3>2. e = Len(traps') * interval'
        BY <1>2, <2>1, <3>1
    <3>3. (Len(traps') + 1) \in Nat
        BY <1>1
    <3> QED BY <1>1, <3>2, <3>3, Multiples
  <2> QED BY <2>3, <2>4 DEF DelayInv
<1> QED BY <1>4, <1>5 DEF TrapNext

----------------------------------------------------------------------------
(***************************************************************************)
(* A trap leaves the acknowledgements that the gateways can poll.          *)
(***************************************************************************)

AcknowledgedInv ==
    AckedInv /\ (calls_on_close_in_a_loop => Undone!AckedInv)

LEMMA AckedSaved ==
    ASSUME AckedInv, idle, saved' = heap, UNCHANGED <<ACK_TIMER, PARAMS, time>>
    PROVE  Undone!AckedInv'
<1>1. executing = "idle"
    BY DEF idle
<1>2. \A k : gateway_of(k) = Undone!gateway_of(k)'
    BY DEF gateway_of, Undone!gateway_of, heap
<1>3. \A m, k : acknowledges(m, k) <=> Undone!acknowledges(m, k)'
    BY <1>1 DEF acknowledges, Undone!acknowledges
<1>4. \A k : IsAcknowledged(k) <=> Undone!IsAcknowledged(k)'
    BY <1>2, <1>3 DEF IsAcknowledged, Undone!IsAcknowledged, heap
<1> QED BY <1>1, <1>4 DEF AckedInv, Undone!AckedInv, heap

LEMMA AckedStillSaved ==
    ASSUME Undone!AckedInv, UNCHANGED <<saved, timer_vars, PARAMS, time>>
    PROVE  Undone!AckedInv'
<1>1. \A k : Undone!gateway_of(k)' = Undone!gateway_of(k)
    BY DEF Undone!gateway_of
<1>2. \A m, k : Undone!acknowledges(m, k)' <=> Undone!acknowledges(m, k)
    BY DEF Undone!acknowledges, timer_vars
<1>3. \A k : Undone!IsAcknowledged(k)' <=> Undone!IsAcknowledged(k)
    BY <1>1, <1>2 DEF Undone!IsAcknowledged
<1> QED BY <1>3 DEF Undone!AckedInv

LEMMA AckedRestored ==
    ASSUME Undone!AckedInv, NEW x, on_close_traps(x)
    PROVE  AckedInv'
<1>1. restore /\ executing' = "idle" /\ UNCHANGED <<ACK_TIMER, PARAMS, time>>
    BY DEF on_close_traps, timer_vars
<1>2. \A k : gateway_of(k)' = Undone!gateway_of(k)
    BY <1>1 DEF restore, gateway_of, Undone!gateway_of
<1>3. \A m, k : acknowledges(m, k)' <=> Undone!acknowledges(m, k)
    BY <1>1 DEF acknowledges, Undone!acknowledges
<1>4. \A k : IsAcknowledged(k)' <=> Undone!IsAcknowledged(k)
    BY <1>1, <1>2, <1>3 DEF restore, IsAcknowledged, Undone!IsAcknowledged
<1> QED BY <1>1, <1>4 DEF restore, AckedInv, Undone!AckedInv

LEMMA AcknowledgedInductive ==
    ASSUME "init" \notin Maintenance, MaxTimerDelay = 0,
           TrapInv, AcknowledgedInv, [TrapNext]_trap_vars
    PROVE  AcknowledgedInv'
<1>1. ServiceInv /\ DeadlineInv /\ Inv
    BY DEF TrapInv, CdkInv, ServiceInv
<1>2. ASSUME runs_without_trap \/ UNCHANGED trap_vars
      PROVE  AcknowledgedInv'
  <2>1. /\ [Next]_vars
        /\ idle /\ calls_on_close_in_a_loop' => saved' = heap
        /\ ~idle /\ calls_on_close_in_a_loop' => saved' = saved
      BY <1>2, StepWithoutTrap
  <2>2. AckedInv'
      BY <1>1, <2>1, AckedInductive DEF AcknowledgedInv
  <2>3. ASSUME calls_on_close_in_a_loop', idle
        PROVE  Undone!AckedInv'
      BY <2>1, <2>3, LoopBegins, AckedSaved DEF AcknowledgedInv
  <2>4. ASSUME calls_on_close_in_a_loop', ~idle
        PROVE  Undone!AckedInv'
    <3>1. executing' = executing /\ UNCHANGED <<timer_vars, PARAMS, time>>
        BY <1>1, <2>1, <2>4, LoopGoesOn
    <3>2. Undone!AckedInv
        BY <2>4, <3>1 DEF AcknowledgedInv, calls_on_close_in_a_loop
    <3> QED BY <2>1, <2>4, <3>1, <3>2, AckedStillSaved
  <2> QED BY <2>2, <2>3, <2>4 DEF AcknowledgedInv
<1>3. ASSUME NEW k \in client_keys, on_close_traps(k)
      PROVE  AcknowledgedInv'
  <2>1. calls_on_close_in_a_loop /\ executing' = "idle"
      BY <1>3 DEF on_close_traps
  <2>2. AckedInv'
      BY <1>3, <2>1, AckedRestored DEF AcknowledgedInv
  <2> QED BY <2>1, <2>2 DEF AcknowledgedInv, calls_on_close_in_a_loop
<1> QED BY <1>2, <1>3 DEF TrapNext

----------------------------------------------------------------------------
(***************************************************************************)
(* The theorems.                                                           *)
(***************************************************************************)

\* Whatever a trap undoes, in the midst of wipe or of a check, clients, gateways, queues,
\* sequence numbers, tree and certified data agree as they do without traps, and a loop
\* meets only clients that are registered.
THEOREM TrapsLeaveTheStateSound ==
    TrapSpec => [](/\ TypeOK /\ RegistryConsistent /\ GatewayCounts /\ LoopKeysAreRegistered
                   /\ QueuesInOrder /\ CertTreeMatchesQueues /\ ServedMessagesAreCertified
                   /\ StreamsInOrder /\ TimersAreTracked)
<1>1. TrapInv => /\ Inv /\ TimerInv /\ QueuesInOrder /\ CertInv /\ StreamInv
    BY DEF TrapInv, CdkInv, ServiceInv
<1>2. Inv => /\ TypeOK /\ RegistryConsistent /\ GatewayCounts /\ LoopKeysAreRegistered
    BY TypesOfInv DEF Inv, StateInv, ControlInv
<1>3. Inv /\ CertInv => CertTreeMatchesQueues /\ ServedMessagesAreCertified
    BY MatchesIsTheProperty
       DEF Inv, StateInv, MapsOK, CertInv, Waiting, queue_of, ServedMessagesAreCertified
<1>4. Inv /\ StreamInv => StreamsInOrder
    BY StreamsAreNumbered
<1>5. TimerInv => TimersAreTracked
    BY DEF TimerInv, TimersAreTracked
<1> QED BY <1>1, <1>2, <1>3, <1>4, <1>5, TrapInvariant, PTL

\* With timers that fire on time, a check removes no client that sent a keep alive after
\* the last acknowledgement, whether its callbacks trap or not: a trap removes nobody.
THEOREM AnsweringClientsStayInSpiteOfTraps ==
    ASSUME MaxTimerDelay = 0
    PROVE  TrapSpec => AnsweredAckKeepsClient
<1> DEFINE kept ==
        executing = "check_keep_alive" =>
            \A k \in DOMAIN REGISTERED_CLIENTS \ DOMAIN REGISTERED_CLIENTS' :
                REGISTERED_CLIENTS[k].last_keep_alive_timestamp
                    <= KEEP_ALIVE_TIMER.deadline - CLIENT_KEEP_ALIVE_TIMEOUT
<1>1. TrapInv /\ [TrapNext]_trap_vars => [kept]_vars
  <2> SUFFICES ASSUME TrapInv, [TrapNext]_trap_vars, executing = "check_keep_alive",
                      NEW k \in DOMAIN REGISTERED_CLIENTS \ DOMAIN REGISTERED_CLIENTS'
               PROVE  heard(k) <= KEEP_ALIVE_TIMER.deadline - CLIENT_KEEP_ALIVE_TIMEOUT
      BY DEF heard
  <2>1. Inv /\ TimerInv /\ DeadlineInv /\ CheckInv /\ OnlyRemoves
      BY DEF TrapInv, CdkInv, ServiceInv, calls_on_close_in_a_loop
  <2>2. ~ \E x \in client_keys : on_close_traps(x)
      BY <2>1 DEF on_close_traps, restore, OnlyRemoves
  <2>3. [Next]_vars
      BY <2>2, StepWithoutTrap DEF TrapNext
  <2>4. heard(k) < KEEP_ALIVE_TIMER.deadline + MaxTimerDelay - CLIENT_KEEP_ALIVE_TIMEOUT
      BY <2>1, <2>3, CheckClosesTheSilent
  <2>5. heard(k) \in Nat
      BY <2>1, TimerTypes
  <2> QED BY <2>1, <2>4, <2>5, TimerTypes
<1> QED BY <1>1, TrapInvariant, PTL DEF TrapSpec, AnsweredAckKeepsClient

\* With timers that fire on time and without another init, every client has been sent its
\* open message or an acknowledgement within the last interval, and its gateway can still
\* poll it, however often callbacks trap: neither wipe nor a check that is undone takes
\* back an acknowledgement, and the timer of the next one is set before the check runs.
THEOREM TrapsDoNotStopAcknowledgements ==
    ASSUME "init" \notin Maintenance
    PROVE  TrapSpec => []ClientsAreAcknowledged
<1>1. CASE MaxTimerDelay = 0
  <2>1. TrapInit => AcknowledgedInv
      BY Empty DEF TrapInit, Init, AcknowledgedInv, AckedInv, calls_on_close_in_a_loop
  <2>2. TrapInv /\ AcknowledgedInv /\ [TrapNext]_trap_vars => AcknowledgedInv'
      BY <1>1, AcknowledgedInductive
  <2>3. TrapInv /\ AcknowledgedInv => ClientsAreAcknowledged
    <3> SUFFICES ASSUME TrapInv, AcknowledgedInv, executing # "send_ack",
                        NEW k \in DOMAIN REGISTERED_CLIENTS
                 PROVE  \E i \in DOMAIN REGISTERED_GATEWAYS[gateway_of(k)].messages_queue :
                            LET m == REGISTERED_GATEWAYS[gateway_of(k)].messages_queue[i]
                            IN  /\ m.client_key = k
                                /\ m.content.kind \in {"OpenMessage", "AckMessage"}
                                /\ time - m.timestamp <= PARAMS.send_ack_interval
        BY DEF ClientsAreAcknowledged
    <3> DEFINE queue == REGISTERED_GATEWAYS[gateway_of(k)].messages_queue
    <3>1. Inv /\ TimerInv /\ DeadlineInv /\ StateInv /\ QueuesInOrder
        BY DEF TrapInv, CdkInv, ServiceInv, Inv
    <3>2. PICK i \in DOMAIN queue : acknowledges(queue[i], k)
        BY DEF AcknowledgedInv, AckedInv, IsAcknowledged
    <3>3. queue[i].timestamp \in Nat
      <4>1. queue \in Seq(Message)
          BY <3>1, GatewayOfClient DEF GatewaysOK, MapInto, GatewayRecord
      <4>2. queue[i] \in Message
          BY <3>2, <4>1
      <4> QED BY <4>2 DEF Message
    <3>4. ACK_TIMER.deadline <= queue[i].timestamp + PARAMS.send_ack_interval
        BY <3>2 DEF acknowledges
    <3>5. time <= ACK_TIMER.deadline
        BY <1>1, <3>1, TimerTypes DEF TimerInv, DeadlineInv
    <3>6. time - queue[i].timestamp <= PARAMS.send_ack_interval
      <4> HIDE DEF queue
      <4> QED BY <3>1, <3>3, <3>4, <3>5, TimerTypes
    <3> QED BY <3>2, <3>6 DEF acknowledges
  <2> QED BY <2>1, <2>2, <2>3, TrapInvariant, PTL DEF TrapSpec
<1>2. CASE MaxTimerDelay # 0
  <2>1. ClientsAreAcknowledged
      BY <1>2 DEF ClientsAreAcknowledged
  <2> QED BY <2>1, PTL
<1> QED BY <1>1, <1>2

\* Without another init, every trap keeps the clients that are silent, and the gateways
\* without clients, for one more interval (and what a timer is late) at the most, even if
\* it is always the same client whose on_close traps.
THEOREM TrapsDelayRemovals ==
    ASSUME "init" \notin Maintenance
    PROVE  TrapSpec => []TrapsOnlyDelay
<1>1. TrapInit => DelayInv
  <2> SUFFICES ASSUME TrapInit PROVE DelayInv
      OBVIOUS
  <2>1. /\ Len(traps) = 0 /\ executing = "idle" /\ interval \in Nat
        /\ DOMAIN REGISTERED_CLIENTS = {} /\ DOMAIN GATEWAYS_TO_REMOVE = {}
      BY InvAtStart, IntervalType, Empty DEF TrapInit, Init
  <2>2. \A x, y : DelaysAre(x, y)
      BY <2>1 DEF DelaysAre, SilenceInv, RetirementInv, calls_on_close_in_a_loop
  <2>3. Len(traps) * interval \in Nat /\ (Len(traps) + 1) * interval \in Nat
      BY <2>1, Multiples
  <2> QED BY <2>2, <2>3 DEF DelayInv
<1>2. TrapInv /\ DelayInv /\ [TrapNext]_trap_vars => DelayInv'
    BY DelayInductive
<1>3. TrapInv /\ DelayInv => TrapsOnlyDelay
  <2> SUFFICES ASSUME TrapInv, DelayInv PROVE TrapsOnlyDelay
      OBVIOUS
  <2>1. Inv /\ TimerInv /\ DeadlineInv
      BY DEF TrapInv, CdkInv, ServiceInv
  <2>2. PICK d \in Nat : d = Len(traps) * interval /\ SilenceInv(d) /\ RetirementInv(d)
      BY DEF DelayInv, DelaysAre
  <2>3. /\ \A k \in DOMAIN REGISTERED_CLIENTS :
               time - heard(k) <= PARAMS.send_ack_interval + CLIENT_KEEP_ALIVE_TIMEOUT
                                      + 2 * MaxTimerDelay + d
        /\ \A g \in DOMAIN GATEWAYS_TO_REMOVE :
               time - GATEWAYS_TO_REMOVE[g]
                   <= 2 * (PARAMS.send_ack_interval + MaxTimerDelay) + d
      BY <2>1, <2>2, SilenceBound, RetirementBound
  <2> QED BY <2>2, <2>3 DEF TrapsOnlyDelay, heard, interval
<1> QED BY <1>1, <1>2, <1>3, TrapInvariant, PTL DEF TrapSpec
=============================================================================
