# The IC WebSocket CDK in TLA+

`ic-websocket-cdk` is the part of IC WebSocket that runs inside a canister: it
keeps the WebSocket-like sessions of clients, queues and certifies the messages
to them, and lets untrusted WS Gateways poll the queues. This directory holds a
TLA+ specification of that state and its handlers, of the gateways and
clients around them, an abstract specification that they implement, TLC
configurations that check all of it on small instances, and TLAPS proofs of the
safety properties of the canister and of the refinement.
Paths like `state.rs:330` are under `src/src/ic-websocket-cdk/src/`.

## 1. The system

| component | state | operations | where |
|---|---|---|---|
| client registry | `REGISTERED_CLIENTS`, `CURRENT_CLIENT_KEY_MAP`, `CLIENTS_WAITING_FOR_KEEP_ALIVE`, `OUTGOING_MESSAGE_TO_CLIENT_NUM_MAP`, `INCOMING_MESSAGE_FROM_CLIENT_NUM_MAP` | `ws_open`, `ws_close`, `ws_message`, `close`, `remove_client` | lib.rs, state.rs |
| gateway registry | `REGISTERED_GATEWAYS`, `GATEWAYS_TO_REMOVE` | counting clients, retiring empty gateways | state.rs, types.rs |
| outgoing messages | per gateway: `messages_queue`, `messages_to_delete`, `outgoing_message_nonce` | `_ws_send`, `delete_old_messages` | state.rs, types.rs |
| certification | `CERT_TREE`, the canister's certified data | inserting and deleting hashes, `certified_data_set` | state.rs |
| polling | none (a query) | `ws_get_messages` | lib.rs, state.rs |
| timers | `ACK_TIMER`, `KEEP_ALIVE_TIMER`, the timers of `ic_cdk_timers` | `send_ack_to_clients_timer_callback`, `check_keep_alive_timer_callback` | timers.rs |
| parameters | `PARAMS` | `init`, `check_validity` | lib.rs, types.rs |
| maintenance | all of it | `wipe`; an upgrade (`post_upgrade` calls `init`) | lib.rs, state.rs, test_canister |
| callbacks | the application's own | `on_open`, `on_message`, `on_close` | types.rs |
| outside | a poller's cursor, a client's counters, messages on the way | polling, relaying, answering, closing | other repositories |

How they interact. A client calls `ws_open` through a gateway: a session of the
same principal is removed, the client is counted at its gateway (which is
registered by its first client) and an open message is sent. Everything that is
sent goes through `_ws_send`: it numbers the message twice (the nonce of the
gateway, which is in the message's key, and the sequence number of the client),
prunes up to five old messages of that gateway from queue and tree, inserts the
new hash, certifies the root and appends the message. The gateway polls the
queue from the nonce it has reached. Every `send_ack_interval` all clients are
sent an acknowledgement and are from then on waited for; one
`CLIENT_KEEP_ALIVE_TIMEOUT` later the gateways that have been empty for more
than an interval are removed, and every client that is waited for and whose last
keep alive is older than the timeout is closed. A client is also closed when it
sends a wrong sequence number, and when the application or the gateway says so.

What is hard about it. One fact is kept in several places (five maps of clients;
a count, a queue of messages, a queue of ages and a due date per gateway; one
tree over all gateways; two timer ids beside the timers), and every handler must
move all of them. The timer callbacks and `wipe` iterate over a copy of the keys
while they, and the application's `on_close`, change what the copy was made
from, and an `on_close` that traps undoes all of the loop. The clock, late
timers, re-initialisation, upgrades and `wipe` come in between. And what the
canister keeps is half of a protocol: the other halves are a poller's cursor and
a client's counters, which survive what the canister forgets. `PROJECT.json` lists each such hazard at its line with the property
that would catch it.

## 2. Modules

* `RegisteredGateway` - the record of one gateway and the pure operations on it:
  counting, `add_message_to_queue`, `delete_old_messages` and the range of the
  queue a poll returns. No variables; `WsCdk` extends it.
* `WsCdk` - the state and every handler. Variables have the names of the
  code's; `timers`, `certified_data` and `time` are the runtime's, `executing`,
  `client_keys` and `in_on_close` say where a loop stands. The properties are at
  its end.
* `WsReplies` - what every endpoint and function answers: `Ok`, or the error of the
  first check that fails, that of the content of a service message included. On top of `WsCdk`, which has no action for a refused call.
* `WsTraps` - `WsCdk` with an `on_close` that may trap in a loop. `saved` is the heap
  at the start of the message that is running, `traps` the clients it trapped for.
* `WsService` - the abstract specification: sessions of principals, and per gateway a
  log that grows at the end and is forgotten from the front. No maps to keep in
  step, no loops, timers, counts or tree.
* `WsRefinement` - the mapping under which `WsCdk` implements `WsService`: a session is
  read off the five maps, a log off the record of a gateway.
* `WsSystem` - `WsCdk` composed with gateways that poll and relay, clients that
  connect, count, answer and leave, and a network with bounded latency.
* `MessageKey` - the keys of messages as strings, over the operations of
  `RegisteredGateway`.
* `MCWsCdk`, `MCWsTraps`, `MCWsSystem`, `MCMessageKey` - the constants and symmetry sets
  the configurations use.
* `RegisteredGatewayProofs`, `WsCdkProofs`, `QueueProofs`, `EndpointProofs`,
  `TimerProofs`, `RefinementProofs`, `TrapProofs`, `SystemProofs` - theorems and proofs
  (section 5).

    RegisteredGateway <- MessageKey
    RegisteredGateway <- WsCdk <- WsReplies
                               <- WsRefinement   (INSTANCE WsService)
                               <- WsTraps
                               <- WsSystem
    RegisteredGateway <- RegisteredGatewayProofs

    RegisteredGatewayProofs <- WsCdkProofs    <- QueueProofs, TimerProofs
    QueueProofs, WsReplies                    <- EndpointProofs
    QueueProofs, TimerProofs, WsRefinement     <- RefinementProofs
    RefinementProofs, WsTraps                  <- TrapProofs
    RefinementProofs, EndpointProofs, WsSystem <- SystemProofs

Operators that a comment calls *Mutant* are plausible bugs. Nothing uses them;
`PROJECT.json` says which definition each replaces and which property then fails.

**Steps.** A canister executes one message at a time and no handler awaits, so a
handler is one action, with all it does to every structure. The exceptions are
the three loops (`wipe`, `send_ack_to_clients_timer_callback`,
`check_keep_alive_timer_callback`), whose iterations are steps in an arbitrary
order (that of a hash map); no other handler runs meanwhile, but after an
iteration that called `on_close` the application may `send`. It may not `close`
there: types.rs:411 and lib.rs:268 forbid it, and the mutant `anywhere` shows
what happens otherwise. Calls the code refuses before changing anything are not
actions. Two error returns come after a change, and are in the actions that make it:
a message with a wrong number has its client removed
(`ws_message_wrong_sequence_number`), and a service message that is not a keep alive,
or that cannot be decoded, is refused after its number was counted (lib.rs:209-213,
`ws_message`). No others do:
`GatewayCounts` and `RegistryConsistent` exclude the causes (and are proved).

**Data.** A message is a record whose content is its kind (plus the number or
reason the code puts in). Its key is the pair of gateway and nonce; the code's
string has the nonce padded to 20 digits so that string order is numeric order.
`MessageKey` has the string, as a sequence of character codes, and says so of every
queue: its base and width are constants (2 and 3 in the run, for 10 and 20).
The tree maps a key to the message instead of its SHA-256 hash, so equal roots
mean equal trees. One tick is one unit for both `send_ack_interval` and
`CLIENT_KEEP_ALIVE_TIMEOUT`, which in the code are milliseconds compared with
differences of nanoseconds. The 64-bit counters are taken as unbounded: no
canister lives long enough to overflow one by increments of one.

**The runtime, as assumed.** Timers fire in the order of their deadlines, at most
`MaxTimerDelay` ticks late; an interval timer keeps its id and starts again when
its callback has run. An upgrade loses heap and timers and keeps the certified
data. A poll is answered from one state. Principals cannot be forged: `ws_open`
is not accepted from the anonymous principal, and `ws_message` takes the caller
as the client. A message in which a callback traps has changed nothing, except
that a one-shot timer that fired for it is gone; an interval starts again.

**Outside the canister.** `WsSystem` fixes what the CDK's interface leaves to others.
A gateway asks for the nonce after the last message it got
(`get_next_polling_nonce_from_messages` in the integration tests), relays one batch
before it polls again, polls from nonce 0 when a first client connects through it,
and reports a client that is gone with `ws_close`. A client numbers its messages
from 1, answers each acknowledgement with a keep alive, leaves at a close message,
and does not use a client nonce twice. Its messages reach the canister in order. A
poll whose reply is lost changes nothing, and the gateway asks again: it is a
stuttering step. A message takes at most `Latency`, which is at most half of the
timeout; in the code `CLIENT_KEEP_ALIVE_TIMEOUT_MS` is exactly twice
`COMMUNICATION_LATENCY_BOUND_MS`, and an answer at the bound arrives at the moment of
the check, before or after it.

**Fairness** (`Fairness` in `WsSystem`). The IC runs timers that are due and finishes
every message (weak fairness of `run`); a gateway relays what it has (weak) and
polls, a message of a client gets its turn, and a client that is gone is reported
(strong, since other messages of the canister come in between and disable them
each time). Nothing makes time pass, a client act, or the application send.

## 3. Properties and runs

| property | what it says | proved |
|---|---|---|
| `TypeOK` | types; an expected sequence number is never 0 | yes |
| `RegistryConsistent` | the five maps agree; at most one session per principal, found by `CURRENT_CLIENT_KEY_MAP` | yes |
| `GatewayCounts` | a client's gateway is registered, counts are exact, due for removal iff empty | yes |
| `LoopKeysAreRegistered` | the snapshot of keys a loop runs over is never stale | yes |
| `QueuesInOrder` | the two queues are in lockstep, nonces contiguous, ages sorted and not in the future | yes |
| `CertTreeMatchesQueues` | the tree is exactly what can be polled | yes |
| `ServedMessagesAreCertified` | a stale root hash is never beside a non-empty queue | yes |
| `PollIsExact` | from any cursor: no gap, no repetition, a full batch or all there is, a correct end flag | batches > 0 |
| `PollIsCertified` | the witness reveals the batch and nothing else, and the root of the tree it is cut from is the certified one | yes |
| `StreamsInOrder` | the numbering of each client's messages across sessions that reuse its key | yes |
| `TimersAreTracked` | no timer exists that `init` could not cancel | yes |
| `SessionsAreServed` | the next message of a session that exists is refused for its content or not at all, no send to it and no closing of it is refused; `_ws_send` does not fail half way | yes |
| `OldSessionsAreRefused` | a key that was replaced, or is another gateway's, gets the error meant for it, whatever is sent with it | yes |
| `MessagesAreKept` | (action) no message leaves a queue before its interval is over | yes |
| `AnsweredAckKeepsClient` | (action) the check does not remove a client that answered | timers on time |
| `SilentClientsAreRemoved` | a bound on how long a silent client stays | no second `init` |
| `EmptyGatewaysAreRemoved` | a bound on how long an empty gateway stays | no second `init` |
| `ClientsAreAcknowledged` | traps or not, with timers on time every client was written to within the last interval | no second `init` |
| `TrapsOnlyDelay` | a trap costs silent clients and empty gateways one interval more | no second `init` |
| `ImplementsService` | (refinement) every step is one of `WsService`, or none | yes |
| `PollStartsAtNonce` | comparing keys as strings finds what comparing nonces finds | |
| `RangeIsOfOneQueue` | a range of the shared tree has no other gateway's key in it | |
| `NonceIsReadBack` | a poller reads the nonce back from a key | |
| `StreamsAreComplete` | a client that is there has, or has coming, all that was sent to it, in order | yes |
| `CountsAgree` | the number the canister expects is the one of the client's next message | yes |
| `ResponsiveClientsStay` | with bounded latency the check closes a client that is there only when its answer, at exactly the bound, is about to be delivered | timers on time |
| `AllowedLatencyKeepsClients` | with bounded latency the check closes no client that is there | timers on time, latency below the bound |
| `NextMessageIsPolled` | a gateway with clients polls from no later than the next nonce | yes |
| `MessagesArrive` | (liveness) a client with messages coming goes on receiving | |
| `ViewsAgree` | (liveness) client and canister come to agree on whether the session is open | |

The two bounds are safety properties over the clock: they need no fairness, since
`tick` may not pass a deadline by more than `MaxTimerDelay`.

| run | instance | shows |
|---|---|---|
| `sessions` | 2 principals, 2 nonces, 2 gateways, time to 3 | sessions replaced, moved between gateways and reusing a key, one gateway retired while the other has messages in the tree; old keys refused, holders served |
| `keep_alive` | 2 principals and the anonymous one, 1 gateway, time to 8, 2 traps | three rounds, each with its check, sends and traps in `on_close` |
| `polling` | 1 client, time to 8, batches of 1 or 2, two pruned per send, timers 1 late | every cursor, including pruned and not yet reached nonces; silence, closing and retirement; the refinement |
| `maintenance` | 2 clients, time to 4, intervals 1, 2 and 3 | `init`, `upgrade` and `wipe` between all else; the refinement |
| `message_keys` | 3 gateways, nonces to 5 in base 2, width 3 | one to three digits, a text that begins another |
| `system` | 1 principal with 2 nonces, 1 gateway, interval 3, timeout 2 for a latency of 1, time to 7 | a connection replaced, a round of acknowledgements and its check, batches of 2, at the code's ratio of timeout and latency |
| `delivery` | 1 principal with 2 nonces, 1 gateway, interval 4, timeout 3, time to 5, batches of 1 | liveness under `Fairness` |
| `late_check` | timers 2 late | violation, see below |
| `latency_bound` | 1 client, timeout 2 for a latency of 1, time to 6 | violation, see below |
| `empty_batch` | batches of 0 | violation, see below |
| `upgraded_poller` | 2 clients, 1 gateway, an upgrade | violation, see below |
| `trapped` | 2 clients, 1 trap | violation, see below |

Bounds are constants in the guards of what the environment does: `MaxTime` stops
the clock, `MaxNonce` the calls that send (the timers' own messages are not
bounded by it, the clock bounds them), `MaxNonceInOnClose` the sends an
application makes from `on_close` inside a loop (`keep_alive` and `maintenance`
leave room for them above `MaxNonce`, since by the time a loop closes a client the
other messages have used that up), `MaxIncoming` the messages of a client.
`MaxTraps` bounds the traps, `MaxSent` the messages a client of `WsSystem` sends on its
own; its answers are not bounded. In `delivery` the bounds stop the environment, not the
actions fairness is about, so that nothing holds because the model has ended.
They are the reason for `CHECK_DEADLOCK FALSE`: at the bounds nothing is enabled.
Two clients are enough for a loop with a step between its iterations and for a
gateway that loses one client and keeps another; two gateways for a tree with
the keys of a gateway that goes and of one that stays; two nonces for a session
that is replaced and one that comes back. The interval is the smallest valid one
(2, with a timeout of 1), so that few ticks hold several rounds. Clients, nonces
and gateways are only compared for equality, and no property orders them, so
they are symmetric; the anonymous principal is left out of the symmetry, and
`delivery` uses none, since symmetry is unsound for liveness. With a latency of 1, a
timeout of 2 (and so an interval of 3) is the code's ratio, which `system` has; 3 (and
4) is the smallest at which an answer comes before the check, which `delivery` has.

**The refinement.** `ImplementsService` is `Service!ServiceSpec` under the mapping of
`WsRefinement`. `Open`, `Send`, `Receive`, `ReceiveKeepAlive`, `Acknowledge`, `Close`, `Drop`,
`Retire` and `Tick` are what a handler or one step of a loop does to sessions and logs;
an upgrade, and the end of `wipe`, is `ForgetEverything`, and `init` is `SetInterval`.
Closing for silence is allowed there only for a client that was asked, and
forgetting only for messages older than an interval: `may_forget` does not say how
many go, so the code may prune five at a time or none. `ws_open` with an old
session is one `Open`, since no message of the old session is sent. The scheduling
of timers, the start and end of loops and the tree are stuttering steps.

## 4. What the runs found

* **`late_check`.** timers.rs:110 says a client is removed if it "has not sent a
  keep alive message". The code looks at the age of the last one when the check
  runs; an answer does not take a client out of `CLIENTS_WAITING_FOR_KEEP_ALIVE`
  (nothing but its removal does). With timers on time the two agree (run
  `keep_alive`). If the check is late by more than the answer took, a client
  that answered is closed.
* **`latency_bound`.** lib.rs:33 calls the latency bound "the maximum communication
  latency allowed between the client and the canister", and lib.rs:36 makes the
  timeout twice that, not more. An acknowledgement that takes all of it, and an
  answer that does, bring the answer to the canister at the time at which the check is due
  (timers.rs:71), and nothing orders the two: when the check runs first, a client
  that kept to the bound is closed. `ResponsiveClientsStay` says that this is the only
  case; below the bound there is none (`PromptClientsStay`).
* **`empty_batch`.** types.rs:163 documents `is_end_of_queue` as "Whether the end
  of the messages queue has been reached". A batch size of 0 is accepted, and
  then every poll answers `true`, whatever is in the queue (state.rs:425).
* **`upgraded_poller`.** lib.rs:236 says a message is added to the queue "that the WS
  Gateway will poll in the next iteration". After an upgrade a gateway is
  registered anew, with nonce 0 (state.rs:86). One that still serves a client of
  before goes on from its old nonce and gets nothing of the new queue, until that
  has grown past it. Retirement has the same effect on a queue, but happens only
  to a gateway without clients: without upgrades `NextMessageIsPolled` holds (run
  `system`).
* **`trapped`.** types.rs:416 says that if a callback traps, "the CDK will disconnect
  the client". The trap undoes the whole message (types.rs:430): after an `on_close`
  that traps in the keep alive check, that client is registered again, with every
  other client and gateway the check had removed. The next check tries
  again (`TrapsOnlyDelay`); an `on_close` that always traps for one client keeps all
  silent clients, and all retired gateways, for good.

Noted while reading, with no run: types.rs:108 says both directions are numbered
0, 1, 2...; both start at 1. `CloseMessageReason::InvalidServiceMessage` (types.rs:328)
is never sent: an invalid service message is refused, after its sequence number
was counted, and the client stays. state.rs:40 says all cells are reset; `PARAMS`
is not.

## 5. What is proved

All theorems are proved for every value of the constants that satisfies
`ConstantsAssumption` and `InitParamsAssumption` (and in `SystemProofs`
`LatencyAssumption`, which the constants of the code satisfy), and any finite or infinite sets
of principals, nonces and gateways. Where a theorem has a hypothesis of its own, a
run shows that it is needed, or it is what the README says of the property.

    WsCdkProofs       TypeCorrect                 Spec => []TypeOK
                      RegistryIsConsistent        Spec => []RegistryConsistent
                      GatewaysCountClients        Spec => []GatewayCounts
                      LoopsMeetRegisteredClients  Spec => []LoopKeysAreRegistered
    QueueProofs       QueuesStayInOrder           Spec => []QueuesInOrder
                      TreeHoldsTheQueues          Spec => []CertTreeMatchesQueues
                      NothingIsServedUncertified  Spec => []ServedMessagesAreCertified
    EndpointProofs    HoldersOfSessionsAreServed  Spec => []SessionsAreServed
                      NobodyElseIsServed          Spec => []OldSessionsAreRefused
                      PollsAreExact               Spec => [](batches > 0 => PollIsExact)
                      PollsAreCertified           Spec => []PollIsCertified
    TimerProofs       TimersStayTracked           Spec => []TimersAreTracked
                      AnsweringClientsStay        Spec => AnsweredAckKeepsClient
                      SilentClientsLeave          Spec => []SilentClientsAreRemoved
                      EmptyGatewaysLeave          Spec => []EmptyGatewaysAreRemoved
    RefinementProofs  ServiceIsImplemented        Spec => ImplementsService
                      YoungMessagesStay           Spec => MessagesAreKept
                      MessagesAreNumbered         Spec => []StreamsInOrder
    SystemProofs      CountsStayEqual             SystemSpec => []CountsAgree
                      MessagesArePolled           SystemSpec => []NextMessageIsPolled
                      StreamsStayComplete         SystemSpec => []StreamsAreComplete
                      RespondingClientsStay       SystemSpec => []ResponsiveClientsStay
                      PromptClientsStay           SystemSpec => []AllowedLatencyKeepsClients
    TrapProofs        TrapsLeaveTheStateSound     TrapSpec => [](nine of the above)
                      AnsweringClientsStayInSpiteOfTraps
                                                  TrapSpec => AnsweredAckKeepsClient
                      TrapsDoNotStopAcknowledgements
                                                  TrapSpec => []ClientsAreAcknowledged
                      TrapsDelayRemovals          TrapSpec => []TrapsOnlyDelay

**Types, maps and counts.** The first four come from one inductive invariant, `Inv`,
the conjunction of `StateInv` (types of the maps, finiteness of the set of clients,
`RegistryConsistent`, `GatewayCounts`) and `ControlInv` (types of timers, parameters
and loop state, `LoopKeysAreRegistered`). None of the four is inductive alone. That
a loop meets only registered clients is needed for the steps of the loops: closing
a client that is gone would take the principal's current session out of one map
only. `RegistryConsistent` is needed for the counts, because it says that the
session `ws_open` removes is the only one of the principal. And the gateway of a
client must be registered before a send to it is known to have the types of a
message. `InvAtStart` is the base case, `InvInductive` has a step per action of
`Next`, and the theorems are projections of `Invariant`. The arithmetic of counts is
in lemmas on cardinalities of `clients_of`; the lemmas of `RegisteredGatewayProofs`
(`DeleteCount`, `DeleteOldMessages`, `AddMessageToQueue`, ...) say what the
operations on one gateway return.

**Queues.** `QueuesInOrder` is inductive relative to `Inv`. `QueueInOrder(gw, g, now)`
says it of one gateway at one time, and one lemma for each thing that happens to a
queue says that it survives: the clock (`SameInOrder`), the deletion of a prefix
(`DeleteInOrder`), an append (`AppendInOrder`) and both together, as a send does
them (`PushInOrder`). `OrderInductive` goes through the actions.

**Certification.** The two properties come from `CertInv`: the tree matches the
queues (`Matches`), and if any message is waiting then `certified_data` is the
tree. Only that implication can be invariant: `wipe` and an upgrade empty the
tree and certify nothing. Pruning, and the removal of a retired gateway,
must not take another message's key out of the tree, so the keys of waiting
messages have to be distinct (`KeysDiffer`), which follows from `QueuesInOrder`.
`PushMatches` is the step of `_ws_send`, the only one that adds to the tree;
`CheckCert` is that of the check, which removes a gateway's keys and certifies.

**Endpoints.** These four are consequences of the invariants above, with no induction
of their own. What a call answers follows from `StateInv`, check by check, in the
order of the code (`FirstError`). What a poll returns is a slice of the queue:
`StartIndex` says where the binary search of the code ends, `PollIsASlice` that the
batch is what stands from there, and `PollReturnsThePending` and
`PollRevealsTheSlice` conclude with `QueuesInOrder` (nonces rise by one) and `CertInv`
(they are in the tree, and while any message is waiting the tree is certified). `PollsAreExact` excludes batches of 0, with which the
property is false (`empty_batch`).

**Timers.** `TimerInv` says that a pending check is due before the next
acknowledgement, which is what `check_validity` is for, and `DeadlineInv` how far the
deadlines are from the clock and from each other. `SilenceInv` says of every client
that it was heard of since the last acknowledgement, or that the pending check will
find it, or that the running check is closing it, each with its bound;
`RetirementInv` the same of gateways without clients. `CheckInv` says that a check
closes only clients that are still silent, since no message is executed between
its steps. Both bounds, and the
lemmas about them, have a slack `d`, which is 0 here and is what traps cost below.
`AnsweringClientsStay` assumes `MaxTimerDelay = 0` (the run `late_check` is a
counterexample without), and the two bounds assume that `init` is not called a
second time: it replaces both timers, so that calls of it that are close enough
postpone every check.

**Refinement.** `StepRefines` has a case per action of `Next`. A lemma per kind of
step says what it does to `Sessions` (`OpenedSessions`, `SentSessions`,
`ReceivedSessions`, ...) and to `Logs` (`SendLogs`, `OpenLogs`, `CloseLogs`, `CheckLogs`),
and the two halves make one step of `WsService`. `ServiceInv` adds to the invariants
above that a check closes only clients which it waits for (`AskedInv`), and that a
gateway which is due for removal has got nothing since its last client left
(`RetiredInv`): so its log, when it is forgotten, is older than an interval, as
`Retire` requires. `MessagesAreKept` then needs no look at handlers at all: it holds
of every `KeepingStep` of the service.

**Streams.** So does the numbering. `StreamInv` says that the log of a gateway is
`Numbered` and that the messages of a session, if any is left, end with its number
(`EndsWith`) and with no close message. It is inductive over the steps of `WsService`
(`StreamInductive`): a message is added with the next number (`AddNumbered`), a prefix
is forgotten (`SuffixNumbered`), a session ends, or a log is deleted that no session
uses. That a key which is used again starts over with an open message is `OpenStream`.

**The system.** Every step of `WsSystem` is a step of `WsCdk` or leaves `vars` alone
(`SystemIsCdk`), so all of the above holds in it. Towards clients and gateways a step
of the canister is one of few kinds (`Quiet`, `Sends`, `Closes`, `Drops`, `Receives`,
`Opens`, `Retires`), stated over the logs of the refinement; `SystemSteps` says which
step of the system is of which kind, and there is a lemma per kind.
`CountInv` strengthens `CountsAgree`: the messages on the way to the canister carry
the numbers from the expected one on. `MailOK` is about the other direction.
`CursorInv` is that no gateway polls from after its next nonce, registered with
clients or not. `MailInv` says that what a gateway has or can get is for clients
that connected through it, and not from the future. `ServedInv` says that of the
messages of an open client those on the way are exactly the ones from the next
number it expects to the last one sent, or to its close message. Three steps could
break it. A send prunes: what goes is older than the interval, which is more than
`Latency`, while `timely` keeps what is on the way to an open client younger
(`AddedMail`). A gateway is retired: an open client of it still
waits for its close message, but what the gateway has to relay was sent before it was
due for removal (`RetiredMail`), an interval ago and so longer than `Latency`: there is
no such client. And `ws_open` makes a new record at nonce 0, from which the
gateway then polls. `Keeping`, `Adding`, `Taking` and `Forgetting` say what a change of a
sequence does to the messages of one client in it.

**Clients that answer.** `AnswerInv` follows an acknowledgement around. Of every
registered client that is there and was asked at time `A`, with the check still to
come (`AskedAt`), one of three things holds (`Answers`): an acknowledgement sent at
`A` is on its way to it, or a keep alive sent by it between `A` and `A + Latency` is
on its way back, or the canister has heard of it since `A`. An acknowledgement on
its way is taken only by the gateway that relays it (`OnlyRelayingTakes`; that
pruning, retirement and a new connection leave it there is the work of `ServedInv` again),
and in that step the client answers (`AskedIsAnswered`). An answer is taken only by
a `ws_message` that the canister accepts and records (`AnswerArrives`), since by
`CountInv` its number is the one expected. `AnswersInTime` bounds the way back, as
`ServedInv` does the way there. At the check, a timeout after `A`, the acknowledgement
cannot be on its way any more, so that a client which the check finds silent has its
answer on the way back (`SilentIsAnswering`), and so it stays while the check
runs, since nothing is delivered meanwhile (`LateAnswerStays`). Both ways together
then took the whole timeout, each of them half of it (`LateIsAtTheBound`). Under the
hypothesis `2 * Latency < CLIENT_KEEP_ALIVE_TIMEOUT` of `PromptClientsStay` there is no
such answer; the run `latency_bound` shows one without it.
Both theorems assume `MaxTimerDelay = 0`, as `AnsweringClientsStay` does:
the check counts the silence up to its own time, and when it is late a client that
answered early looks silent (run `late_check`).

**Traps.** The theorems on `WsCdk` cannot be cited for `WsTraps`: a trap leads from a
state in the midst of a loop back to the maps of before, while timers and clock
stay as they are now, and that step is no step of `WsCdk`. So all they rely on is
said of the saved maps too. `Undone` is `RefinementProofs` once more, with `saved` for
the maps and no loop running: what a trap would bring back, seen as a state of
`WsCdk`. `TrapInv` is the inductive invariant: `CdkInv`, which is all of the above in one,
and inside `wipe` and the check `UndoneInv`, the part of it about maps, counts, queues,
tree and streams (`Saved`, `StillSaved` and `Restored` take it into a loop, through it and
out of it by a trap). `Restored` also needs that nothing in `ControlInv` and the timers' invariants
depends on the maps: the loop is over, and time has not passed in it.
`AnsweringClientsStayInSpiteOfTraps` adds `OnlyRemoves`: a trap removes no client.

`TrapsDelayRemovals` is `SilenceInv` and `RetirementInv` with a slack. After `n` traps the
state satisfies them with `n` intervals, and the saved state, if a loop is running,
with `n + 1` (`DelayInv`): when the check starts its timer is used up, so that what
would be undone has to wait for the check of the next acknowledgement, one interval
on (`DelaySaved`). A trap then makes the second the first. It is not assumed whose
`on_close` traps; if it always does, `n` grows with every check.

`TrapsDoNotStopAcknowledgements` needs where a client's last acknowledgement is.
`AckedInv` says that every client has a message in its gateway's queue, its open
message or an acknowledgement, after which the next acknowledgement is at most an
interval away; while the acknowledgements are sent, every client the loop has been
to has one of now. A send prunes only what is older than an interval, and
`YoungMessagesKept` says the same of every step; the timer of the next
acknowledgement is set again in the loop that sends them, so no trap in the check can
undo it. `AckLoopStep` and `AckStep` are the steps inside and outside that loop.

Both assume that `init` is not called again. It changes the interval under the
deadlines and the ages that the two properties compare with it.

**What TLC alone checks.** The liveness properties of `WsSystem` are out of the
prover's reach. So are the three invariants of `MessageKey`, which has no theorem.
They are about the digits of every nonce below `Base ^ Width`: what a recursive
definition computes for all of them is an induction over data, which the installed
provers cannot use, and none of their backends knows `^`. Every other property of a
passing run is proved. The modules with theorems use
no `RECURSIVE` operators: what deletes a prefix or selects a range is defined by
positions.

## 6. Not modelled

Serialisation (a message is a record; CBOR and Candid are libraries): that a message of
the canister can be serialised is assumed, and which bytes cannot be decoded is left
open, but not what they are answered; the wording of errors; logging; the shape
of the certification tree and the encoding of a witness, which are the library's;
the handshake between client and gateway, its signatures, and the verification of
certificates by a client (other repositories). A gateway that restarts, or that
loses its cursor, is a new gateway for the canister. `InitParams` is read at
`init`; the handlers in it are fixed. The test canister, tests and scripts only
forward to the CDK or drive it. Of a message that traps outside a loop there is
nothing to model: one action does not happen.
