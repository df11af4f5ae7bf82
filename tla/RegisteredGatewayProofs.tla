---------------------- MODULE RegisteredGatewayProofs ----------------------
(***************************************************************************)
(* What the operations on the record of a gateway return and preserve.     *)
(***************************************************************************)
EXTENDS RegisteredGateway, SequenceTheorems, WellFoundedInduction, TLAPS

\* Every non-empty set of natural numbers has a least element.
LEMMA LeastNumber ==
    ASSUME NEW T, T \subseteq Nat, T # {}
    PROVE  \E x \in T : \A y \in T : x <= y
<1>1. \E x \in T : \A y \in T : ~(<<y, x>> \in OpToRel(<, Nat))
    BY NatLessThanWellFounded, WFMin
<1>2. ASSUME NEW x \in Nat, NEW y \in Nat, y < x
      PROVE  <<y, x>> \in OpToRel(<, Nat)
    BY <1>2 DEF OpToRel
<1>3. ASSUME NEW x \in Nat, NEW y \in Nat, ~(y < x)
      PROVE  x <= y
    BY <1>3
<1> QED BY <1>1, <1>2, <1>3

\* delete_count is the number of messages the loop of delete_old_messages pops:
\* it is at most n and at most what there is, all of them are older than the
\* maximal age, and it stops before n only at one that is not, or at the end.
LEMMA DeleteCount ==
    ASSUME NEW gw, NEW n \in Nat, NEW time, NEW max_age,
           NEW S, gw.messages_to_delete \in Seq(S)
    PROVE  LET d == delete_count(gw, n, time, max_age)
           IN  /\ d \in 0..n
               /\ d <= Len(gw.messages_to_delete)
               /\ \A i \in 1..d :
                      older_than(gw.messages_to_delete[i], time, max_age)
               /\ d < n /\ d < Len(gw.messages_to_delete) =>
                      ~older_than(gw.messages_to_delete[d + 1], time, max_age)
<1> DEFINE front(i) == i <= Len(gw.messages_to_delete)
                       /\ older_than(gw.messages_to_delete[i], time, max_age)
           Stops == {i \in 0..n : i < n => ~front(i + 1)}
           P(d) == (\A i \in 1..d : front(i)) /\ (d < n => ~front(d + 1))
<1>1. Stops \subseteq Nat /\ n \in Stops
    OBVIOUS
<1>2. PICK d \in Stops : \A y \in Stops : d <= y
    BY <1>1, LeastNumber
<1>3. d \in 0..n /\ P(d)
  <2>1. ASSUME NEW i \in 1..d PROVE front(i)
    <3>1. i - 1 \in 0..n /\ i - 1 < n /\ ~(d <= i - 1) /\ (i - 1) + 1 = i
        OBVIOUS
    <3>2. i - 1 \notin Stops
        BY <3>1, <1>2
    <3>3. front((i - 1) + 1)
      <4> HIDE DEF front
      <4> QED BY <3>1, <3>2
    <3> HIDE DEF front
    <3> QED BY <3>1, <3>3
  <2> QED BY <2>1
<1> HIDE DEF front
<1>4. delete_count(gw, n, time, max_age) = CHOOSE e \in 0..n : P(e)
    BY DEF delete_count, front
<1>5. LET e == delete_count(gw, n, time, max_age) IN e \in 0..n /\ P(e)
    BY <1>3, <1>4
<1>6. Len(gw.messages_to_delete) \in Nat
    OBVIOUS
<1>7. \A i : front(i) <=> i <= Len(gw.messages_to_delete)
                         /\ older_than(gw.messages_to_delete[i], time, max_age)
    BY DEF front
<1>8. ASSUME NEW e \in 0..n, P(e)
      PROVE  /\ e <= Len(gw.messages_to_delete)
             /\ \A i \in 1..e : older_than(gw.messages_to_delete[i], time, max_age)
             /\ e < n /\ e < Len(gw.messages_to_delete) =>
                    ~older_than(gw.messages_to_delete[e + 1], time, max_age)
  <2>1. e = 0 \/ e \in 1..e
      OBVIOUS
  <2> QED BY <1>6, <1>7, <1>8, <2>1
<1> QED BY <1>5, <1>8

\* The records of gateways whose queue holds messages of S.
GatewaysOf(S) ==
    [messages_queue : Seq(S), messages_to_delete : Seq(Nat),
     outgoing_message_nonce : Nat, connected_clients_count : Nat]

\* A sequence without its first d elements.
LEMMA Suffix ==
    ASSUME NEW S, NEW s \in Seq(S), NEW d \in 0..Len(s)
    PROVE  /\ SubSeq(s, d + 1, Len(s)) \in Seq(S)
           /\ Len(SubSeq(s, d + 1, Len(s))) = Len(s) - d
           /\ \A i \in 1..Len(s) - d : SubSeq(s, d + 1, Len(s))[i] = s[i + d]
<1> DEFINE len == Len(s)
<1>1. d \in Nat /\ len \in Nat /\ d <= len /\ d + 1 \in Int
    OBVIOUS
<1>2. \A i \in d + 1..len : s[i] \in S
    BY <1>1, ElementOfSeq
<1> HIDE DEF len
<1>3. \A i \in 1..len - (d + 1) + 1 : (d + 1) + i - 1 = i + d
    BY <1>1
<1>4. len - (d + 1) + 1 = len - d
    BY <1>1
<1>5. IF d + 1 <= len THEN len - (d + 1) + 1 = len - d ELSE 0 = len - d
    BY <1>1
<1>6. /\ SubSeq(s, d + 1, len) \in Seq(S)
      /\ Len(SubSeq(s, d + 1, len)) = len - d
      /\ \A i \in 1..len - d : SubSeq(s, d + 1, len)[i] = s[i + d]
    BY <1>1, <1>2, <1>3, <1>4, <1>5, SubSeqProperties
<1> QED BY <1>6 DEF len

\* delete_old_messages drops the same number of elements from the head of both
\* queues and leaves the rest of the record alone.
LEMMA DeleteOldMessages ==
    ASSUME NEW S, NEW gw \in GatewaysOf(S), NEW n \in Nat, NEW time, NEW max_age,
           Len(gw.messages_to_delete) = Len(gw.messages_queue)
    PROVE  LET d  == delete_count(gw, n, time, max_age)
               gd == delete_old_messages(gw, n, time, max_age)
           IN  /\ gd \in GatewaysOf(S)
               /\ gd.connected_clients_count = gw.connected_clients_count
               /\ gd.outgoing_message_nonce = gw.outgoing_message_nonce
               /\ d \in 0..Len(gw.messages_queue)
               /\ Len(gd.messages_queue) = Len(gw.messages_queue) - d
               /\ Len(gd.messages_to_delete) = Len(gw.messages_queue) - d
               /\ \A i \in 1..Len(gw.messages_queue) - d :
                      /\ gd.messages_queue[i] = gw.messages_queue[i + d]
                      /\ gd.messages_to_delete[i] = gw.messages_to_delete[i + d]
<1> DEFINE d   == delete_count(gw, n, time, max_age)
           len == Len(gw.messages_queue)
           gd  == delete_old_messages(gw, n, time, max_age)
<1>1. /\ gw.messages_queue \in Seq(S) /\ gw.messages_to_delete \in Seq(Nat)
      /\ gw.outgoing_message_nonce \in Nat /\ gw.connected_clients_count \in Nat
      /\ len \in Nat
    BY DEF GatewaysOf
<1>2. d \in 0..n /\ d <= len
    BY <1>1, DeleteCount
<1>3. gd = [gw EXCEPT
               !.messages_queue = SubSeq(gw.messages_queue, d + 1, len),
               !.messages_to_delete = SubSeq(gw.messages_to_delete, d + 1, len)]
    BY DEF delete_old_messages
<1> HIDE DEF d, len, gd
<1>4. d \in Nat /\ len \in Nat /\ d <= len /\ d + 1 \in Int
    BY <1>1, <1>2
<1>5. Len(gw.messages_queue) = len /\ Len(gw.messages_to_delete) = len
    BY DEF len
<1>6. /\ SubSeq(gw.messages_queue, d + 1, len) \in Seq(S)
      /\ Len(SubSeq(gw.messages_queue, d + 1, len)) = len - d
      /\ \A i \in 1..len - d : SubSeq(gw.messages_queue, d + 1, len)[i]
                                 = gw.messages_queue[i + d]
    BY <1>1, <1>4, <1>5, Suffix
<1>7. /\ SubSeq(gw.messages_to_delete, d + 1, len) \in Seq(Nat)
      /\ Len(SubSeq(gw.messages_to_delete, d + 1, len)) = len - d
      /\ \A i \in 1..len - d : SubSeq(gw.messages_to_delete, d + 1, len)[i]
                                 = gw.messages_to_delete[i + d]
    BY <1>1, <1>4, <1>5, Suffix
<1>8. /\ gd \in GatewaysOf(S)
      /\ gd.messages_queue = SubSeq(gw.messages_queue, d + 1, len)
      /\ gd.messages_to_delete = SubSeq(gw.messages_to_delete, d + 1, len)
      /\ gd.outgoing_message_nonce = gw.outgoing_message_nonce
      /\ gd.connected_clients_count = gw.connected_clients_count
  <2> DEFINE queue == SubSeq(gw.messages_queue, d + 1, len)
             ages == SubSeq(gw.messages_to_delete, d + 1, len)
  <2>1. /\ queue \in Seq(S) /\ ages \in Seq(Nat)
        /\ gd = [gw EXCEPT !.messages_queue = queue, !.messages_to_delete = ages]
      BY <1>3, <1>6, <1>7
  <2> HIDE DEF queue, ages
  <2>2. /\ gd \in GatewaysOf(S)
        /\ gd.messages_queue = queue /\ gd.messages_to_delete = ages
        /\ gd.outgoing_message_nonce = gw.outgoing_message_nonce
        /\ gd.connected_clients_count = gw.connected_clients_count
      BY <1>1, <2>1 DEF GatewaysOf
  <2> QED BY <2>2 DEF queue, ages
<1>9. d \in 0..len
    BY <1>4
<1> QED BY <1>6, <1>7, <1>8, <1>9 DEF d, len, gd

\* add_message_to_queue appends to both queues and moves the nonce by one.
LEMMA AddMessageToQueue ==
    ASSUME NEW S, NEW gw \in GatewaysOf(S), NEW m \in S, NEW t \in Nat
    PROVE  LET ga == add_message_to_queue(gw, m, t)
           IN  /\ ga \in GatewaysOf(S)
               /\ ga.connected_clients_count = gw.connected_clients_count
               /\ ga.outgoing_message_nonce = gw.outgoing_message_nonce + 1
               /\ ga.messages_queue = Append(gw.messages_queue, m)
               /\ ga.messages_to_delete = Append(gw.messages_to_delete, t)
<1> DEFINE ga == add_message_to_queue(gw, m, t)
           queue == Append(gw.messages_queue, m)
           ages == Append(gw.messages_to_delete, t)
           nonce == gw.outgoing_message_nonce + 1
<1>1. queue \in Seq(S) /\ ages \in Seq(Nat) /\ nonce \in Nat
    BY DEF GatewaysOf
<1>2. ga = [gw EXCEPT !.messages_queue = queue, !.messages_to_delete = ages,
                      !.outgoing_message_nonce = nonce]
    BY DEF add_message_to_queue
<1> HIDE DEF ga, queue, ages, nonce
<1>3. /\ ga \in GatewaysOf(S)
      /\ ga.messages_queue = queue /\ ga.messages_to_delete = ages
      /\ ga.outgoing_message_nonce = nonce
      /\ ga.connected_clients_count = gw.connected_clients_count
    BY <1>1, <1>2 DEF GatewaysOf
<1> QED BY <1>3 DEF ga, queue, ages, nonce

\* The operations on the number of clients leave the rest of the record alone.
LEMMA ClientsCount ==
    ASSUME NEW S, NEW gw \in GatewaysOf(S)
    PROVE  /\ increment_clients_count(gw) \in GatewaysOf(S)
           /\ increment_clients_count(gw).connected_clients_count
                  = gw.connected_clients_count + 1
           /\ increment_clients_count(gw).messages_queue = gw.messages_queue
           /\ increment_clients_count(gw).messages_to_delete = gw.messages_to_delete
           /\ increment_clients_count(gw).outgoing_message_nonce
                  = gw.outgoing_message_nonce
           /\ decrement_clients_count(gw) \in GatewaysOf(S)
           /\ decrement_clients_count(gw).connected_clients_count
                  = IF gw.connected_clients_count = 0
                    THEN 0 ELSE gw.connected_clients_count - 1
           /\ decrement_clients_count(gw).messages_queue = gw.messages_queue
           /\ decrement_clients_count(gw).messages_to_delete = gw.messages_to_delete
           /\ decrement_clients_count(gw).outgoing_message_nonce
                  = gw.outgoing_message_nonce
BY DEF GatewaysOf, increment_clients_count, decrement_clients_count

LEMMA NewGateway ==
    ASSUME NEW S
    PROVE  new_gateway \in GatewaysOf(S)
BY EmptySeq DEF new_gateway, GatewaysOf, INITIAL_OUTGOING_MESSAGE_NONCE
=============================================================================
