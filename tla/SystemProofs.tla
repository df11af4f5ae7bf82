---------------------------- MODULE SystemProofs ----------------------------
(***************************************************************************)
(* Theorems about the canister between its gateways and clients: clients   *)
(* miss no message, the two ends agree in their counts, gateways poll what *)
(* is sent, and no client that answers is closed for silence.              *)
(***************************************************************************)
EXTENDS WsSystem, RefinementProofs, EndpointProofs

----------------------------------------------------------------------------
(***************************************************************************)
(* The messages for one client in a sequence of messages.                  *)
(***************************************************************************)

places(seq, k) == {i \in 1..Len(seq) : seq[i].client_key = k}

\* The messages for k are those numbered from r + 1 to n, in order.
Complete(seq, k, r, n) ==
    /\ r <= n
    /\ \A i, j \in places(seq, k) : i < j => seq[i].sequence_num < seq[j].sequence_num
    /\ {seq[i].sequence_num : i \in places(seq, k)} = r + 1..n

CompleteToClose(seq, k, r) ==
    \E i \in places(seq, k) :
        seq[i].content.kind = "CloseMessage" /\ Complete(seq, k, r, seq[i].sequence_num)

\* The sequence new is old without some messages that are not for k.
Keeps(old, new, k) ==
    \E f \in [1..Len(new) -> 1..Len(old)] :
        /\ \A i, j \in 1..Len(new) : i < j => f[i] < f[j]
        /\ \A i \in 1..Len(new) : new[i] = old[f[i]]
        /\ \A j \in places(old, k) : \E i \in 1..Len(new) : f[i] = j

LEMMA Keeping ==
    ASSUME NEW old, NEW new, Len(old) \in Nat, Len(new) \in Nat, NEW k, Keeps(old, new, k)
    PROVE  /\ \A i \in 1..Len(new) : \E j \in 1..Len(old) : new[i] = old[j]
           /\ \A j \in places(old, k) : \E i \in places(new, k) : new[i] = old[j]
           /\ \A r, n : Complete(old, k, r, n) => Complete(new, k, r, n)
           /\ \A r : CompleteToClose(old, k, r) => CompleteToClose(new, k, r)
<1>1. PICK f \in [1..Len(new) -> 1..Len(old)] :
          /\ \A i, j \in 1..Len(new) : i < j => f[i] < f[j]
          /\ \A i \in 1..Len(new) : new[i] = old[f[i]]
          /\ \A j \in places(old, k) : \E i \in 1..Len(new) : f[i] = j
    BY DEF Keeps
<1>2. \A i \in 1..Len(new) : f[i] \in 1..Len(old)
    OBVIOUS
<1>3. \A i \in places(new, k) : i \in 1..Len(new) /\ f[i] \in places(old, k)
    BY <1>1, <1>2 DEF places
<1>4. \A j \in places(old, k) :
          \E i \in places(new, k) : f[i] = j /\ new[i] = old[j]
    BY <1>1 DEF places
<1>5. ASSUME NEW r, NEW n, Complete(old, k, r, n)
      PROVE  Complete(new, k, r, n)
  <2>1. \A i, j \in places(new, k) : i < j => new[i].sequence_num < new[j].sequence_num
      BY <1>1, <1>3, <1>5 DEF Complete
  <2>2. {new[i].sequence_num : i \in places(new, k)} = {old[i].sequence_num : i \in places(old, k)}
      BY <1>1, <1>3, <1>4
  <2> QED BY <1>5, <2>1, <2>2 DEF Complete
<1>6. ASSUME NEW r, CompleteToClose(old, k, r)
      PROVE  CompleteToClose(new, k, r)
    BY <1>4, <1>5, <1>6 DEF CompleteToClose
<1>7. \A i \in 1..Len(new) : \E j \in 1..Len(old) : new[i] = old[j]
    BY <1>1, <1>2
<1>8. \A j \in places(old, k) : \E i \in places(new, k) : new[i] = old[j]
    BY <1>4
<1> QED BY <1>5, <1>6, <1>7, <1>8

LEMMA KeepsAll ==
    ASSUME NEW seq, NEW k
    PROVE  Keeps(seq, seq, k)
<1> DEFINE f == [i \in 1..Len(seq) |-> i]
<1>1. /\ f \in [1..Len(seq) -> 1..Len(seq)]
      /\ \A i \in 1..Len(seq) : f[i] = i
    OBVIOUS
<1> HIDE DEF f
<1> QED BY <1>1 DEF Keeps, places

\* A message for k is added, or one for another client.
LEMMA Adding ==
    ASSUME NEW seq \in Seq(Message), NEW m \in Message, NEW k
    PROVE  /\ places(Append(seq, m), k) =
                  places(seq, k) \cup (IF m.client_key = k THEN {Len(seq) + 1} ELSE {})
           /\ \A r, n : m.client_key # k /\ Complete(seq, k, r, n)
                            => Complete(Append(seq, m), k, r, n)
           /\ \A r : m.client_key # k /\ CompleteToClose(seq, k, r)
                            => CompleteToClose(Append(seq, m), k, r)
           /\ \A r, n \in Nat :
                  m.client_key = k /\ m.sequence_num = n + 1 /\ Complete(seq, k, r, n) =>
                      /\ Complete(Append(seq, m), k, r, n + 1)
                      /\ m.content.kind = "CloseMessage"
                             => CompleteToClose(Append(seq, m), k, r)
<1> DEFINE new == Append(seq, m)
           len == Len(seq)
           P == places(seq, k)
<1>1. /\ len \in Nat /\ Len(new) = len + 1 /\ new[len + 1] = m
      /\ \A i \in 1..len : new[i] = seq[i]
    BY AppendProperties
<1>2. \A i \in 1..len + 1 : i \in 1..len \/ i = len + 1
    BY <1>1
<1>3. \A i \in P : i \in 1..len /\ i < len + 1 /\ i \in Int /\ new[i] = seq[i]
    BY <1>1 DEF places
<1> HIDE DEF new, len
<1>4. places(new, k) = P \cup (IF m.client_key = k THEN {len + 1} ELSE {})
    BY <1>1, <1>2 DEF places, len
<1> HIDE DEF P
<1>5. ASSUME m.client_key # k, NEW r, NEW n, Complete(seq, k, r, n)
      PROVE  Complete(new, k, r, n)
  <2>1. places(new, k) = P
      BY <1>4, <1>5
  <2>2. {new[i].sequence_num : i \in P} = {seq[i].sequence_num : i \in P}
      BY <1>3
  <2>3. \A i, j \in P : i < j => new[i].sequence_num < new[j].sequence_num
      BY <1>3, <1>5 DEF Complete, P
  <2> QED BY <1>5, <2>1, <2>2, <2>3 DEF Complete, P
<1>6. ASSUME m.client_key # k, NEW r, CompleteToClose(seq, k, r)
      PROVE  CompleteToClose(new, k, r)
  <2>1. PICK i \in P : seq[i].content.kind = "CloseMessage"
                       /\ Complete(seq, k, r, seq[i].sequence_num)
      BY <1>6 DEF CompleteToClose, P
  <2> QED BY <1>3, <1>4, <1>5, <1>6, <2>1 DEF CompleteToClose
<1>7. ASSUME m.client_key = k, NEW r \in Nat, NEW n \in Nat, m.sequence_num = n + 1,
             Complete(seq, k, r, n)
      PROVE  Complete(new, k, r, n + 1)
  <2>1. /\ r <= n /\ {seq[i].sequence_num : i \in P} = r + 1..n
        /\ \A i, j \in P : i < j => seq[i].sequence_num < seq[j].sequence_num
      BY <1>7 DEF Complete, P
  <2>2. \A i \in P : new[i].sequence_num \in r + 1..n
      BY <1>3, <2>1
  <2>3. places(new, k) = P \cup {len + 1} /\ new[len + 1].sequence_num = n + 1
      BY <1>1, <1>4, <1>7
  <2>4. {new[i].sequence_num : i \in places(new, k)} = (r + 1..n) \cup {n + 1}
      BY <1>3, <2>1, <2>3
  <2>5. (r + 1..n) \cup {n + 1} = r + 1..n + 1
      BY <2>1
  <2>6. ASSUME NEW i \in places(new, k), NEW j \in places(new, k), i < j
        PROVE  new[i].sequence_num < new[j].sequence_num
    <3>1. i \in P
        BY <1>1, <1>3, <2>3, <2>6
    <3>2. CASE j \in P
        BY <1>3, <2>1, <2>6, <3>1, <3>2
    <3>3. CASE j = len + 1
      <4>1. new[i].sequence_num \in r + 1..n
          BY <2>2, <3>1
      <4> QED BY <2>3, <3>3, <4>1
    <3> QED BY <2>3, <3>2, <3>3
  <2> QED BY <2>1, <2>4, <2>5, <2>6 DEF Complete
<1>8. ASSUME m.client_key = k, NEW r \in Nat, NEW n \in Nat, m.sequence_num = n + 1,
             Complete(seq, k, r, n), m.content.kind = "CloseMessage"
      PROVE  CompleteToClose(new, k, r)
  <2>1. Complete(new, k, r, n + 1) /\ len + 1 \in places(new, k) /\ new[len + 1] = m
      BY <1>1, <1>4, <1>7, <1>8
  <2> QED BY <1>8, <2>1 DEF CompleteToClose
<1> QED BY <1>4, <1>5, <1>6, <1>7, <1>8 DEF new, len, P

\* The first message is taken away: if it is for k, it is the next one of k.
LEMMA Taking ==
    ASSUME NEW seq \in Seq(Message), seq # << >>, NEW k
    PROVE  /\ Tail(seq) \in Seq(Message) /\ Head(seq) \in Message
           /\ Head(seq).client_key # k => Keeps(seq, Tail(seq), k)
           /\ \A i \in places(Tail(seq), k) :
                  i + 1 \in places(seq, k) /\ Tail(seq)[i] = seq[i + 1]
           /\ \A j \in places(seq, k) :
                  \/ j = 1 /\ seq[j] = Head(seq)
                  \/ j - 1 \in places(Tail(seq), k) /\ Tail(seq)[j - 1] = seq[j]
           /\ \A r, n \in Nat : Head(seq).client_key = k /\ Complete(seq, k, r, n) =>
                  Head(seq).sequence_num = r + 1 /\ Complete(Tail(seq), k, r + 1, n)
           /\ \A r \in Nat :
                  /\ Head(seq).client_key = k /\ Head(seq).content.kind # "CloseMessage"
                  /\ CompleteToClose(seq, k, r)
                  => /\ Head(seq).sequence_num = r + 1
                     /\ CompleteToClose(Tail(seq), k, r + 1)
<1> DEFINE rest == Tail(seq)
           len  == Len(seq)
           h    == Head(seq)
<1>1. /\ len \in Nat \ {0} /\ rest \in Seq(Message) /\ Len(rest) = len - 1
      /\ \A i \in 1..len - 1 : rest[i] = seq[i + 1]
      /\ h = seq[1] /\ h \in Message
  <2>1. len \in Nat \ {0}
      BY EmptySeq
  <2>2. h = seq[1]
      OBVIOUS
  <2>3. h \in Message /\ rest \in Seq(Message) /\ Len(rest) = len - 1
        /\ \A i \in 1..Len(rest) : rest[i] = seq[i + 1]
      BY HeadTailProperties
  <2> QED BY <2>1, <2>2, <2>3
<1> HIDE DEF rest, len, h
<1>2. \A i \in places(rest, k) :
          i \in Nat \ {0} /\ i + 1 \in places(seq, k) /\ rest[i] = seq[i + 1]
    BY <1>1 DEF places, len
<1>3. \A j \in places(seq, k) :
          \/ j = 1 /\ seq[j] = h
          \/ j \in Nat /\ j - 1 \in places(rest, k) /\ rest[j - 1] = seq[j]
  <2> SUFFICES ASSUME NEW j \in places(seq, k), j # 1
               PROVE  j \in Nat /\ j - 1 \in places(rest, k) /\ rest[j - 1] = seq[j]
      BY <1>1
  <2>1. j \in Nat /\ j - 1 \in 1..len - 1 /\ j - 1 + 1 = j /\ seq[j].client_key = k
      BY <1>1 DEF places, len
  <2> QED BY <1>1, <2>1 DEF places
<1>4. ASSUME h.client_key # k
      PROVE  Keeps(seq, rest, k)
  <2> DEFINE f == [i \in 1..len - 1 |-> i + 1]
  <2>1. /\ f \in [1..len - 1 -> 1..len] /\ \A i \in 1..len - 1 : f[i] = i + 1
      BY <1>1
  <2> HIDE DEF f
  <2>2. \A i, j \in 1..len - 1 : i < j => f[i] < f[j]
      BY <2>1
  <2>3. \A i \in 1..len - 1 : rest[i] = seq[f[i]]
      BY <1>1, <2>1
  <2>4. \A j \in places(seq, k) : \E i \in 1..len - 1 : f[i] = j
    <3> SUFFICES ASSUME NEW j \in places(seq, k)
                 PROVE  \E i \in 1..len - 1 : f[i] = j
        OBVIOUS
    <3>1. j \in Nat /\ j - 1 \in 1..len - 1 /\ j - 1 + 1 = j
        BY <1>1, <1>4 DEF places, len
    <3> QED BY <2>1, <3>1
  <2> QED BY SMTT(30), <1>1, <2>1, <2>2, <2>3, <2>4 DEF Keeps, len
<1>5. ASSUME h.client_key = k, NEW r \in Nat, NEW n, Complete(seq, k, r, n), n \in Nat
      PROVE  h.sequence_num = r + 1 /\ Complete(rest, k, r + 1, n)
  <2>1. 1 \in places(seq, k) /\ seq[1] = h
      BY <1>1, <1>5 DEF places, len
  <2>2. /\ {seq[i].sequence_num : i \in places(seq, k)} = r + 1..n
        /\ \A i, j \in places(seq, k) : i < j => seq[i].sequence_num < seq[j].sequence_num
      BY <1>5 DEF Complete
  <2>3. h.sequence_num \in r + 1..n
      BY <2>1, <2>2
  <2>4. r + 1 \in r + 1..n /\ r + 1 <= n
      BY <1>5, <2>3
  <2>5. PICK j \in places(seq, k) : seq[j].sequence_num = r + 1
      BY <2>2, <2>4
  <2>6. j = 1
    <3>1. j \in Nat /\ 1 <= j
        BY DEF places
    <3>2. CASE 1 < j
      <4>1. h.sequence_num < r + 1
          BY <2>1, <2>2, <2>5, <3>2
      <4> QED BY <2>3, <4>1
    <3> QED BY <3>1, <3>2
  <2>7. h.sequence_num = r + 1
      BY <2>1, <2>5, <2>6
  <2>8. ASSUME NEW a \in places(rest, k), NEW b \in places(rest, k), a < b
        PROVE  rest[a].sequence_num < rest[b].sequence_num
    <3>1. /\ a + 1 \in places(seq, k) /\ b + 1 \in places(seq, k) /\ a + 1 < b + 1
          /\ rest[a] = seq[a + 1] /\ rest[b] = seq[b + 1]
        BY <1>2, <2>8
    <3> QED BY <2>2, <3>1
  <2>9. \A i \in places(rest, k) : rest[i].sequence_num \in r + 2..n
    <3> SUFFICES ASSUME NEW i \in places(rest, k)
                 PROVE  rest[i].sequence_num \in r + 2..n
        OBVIOUS
    <3>1. i + 1 \in places(seq, k) /\ 1 < i + 1 /\ rest[i] = seq[i + 1]
        BY <1>2
    <3>2. rest[i].sequence_num \in r + 1..n /\ h.sequence_num < rest[i].sequence_num
        BY <2>1, <2>2, <3>1
    <3> QED BY <2>7, <3>2
  <2>10. ASSUME NEW x \in r + 2..n
         PROVE  \E i \in places(rest, k) : rest[i].sequence_num = x
    <3>1. x \in r + 1..n /\ x # r + 1
        OBVIOUS
    <3>2. PICK i \in places(seq, k) : seq[i].sequence_num = x
        BY <2>2, <3>1
    <3>3. i # 1
        BY <2>1, <2>7, <3>1, <3>2
    <3> QED BY <1>3, <3>2, <3>3
  <2>11. {rest[i].sequence_num : i \in places(rest, k)} = (r + 1) + 1..n
    <3>1. (r + 1) + 1 = r + 2
        OBVIOUS
    <3> QED BY <2>9, <2>10, <3>1
  <2> QED BY <2>4, <2>7, <2>8, <2>11 DEF Complete
<1>6. ASSUME h.client_key = k, h.content.kind # "CloseMessage", NEW r \in Nat,
             CompleteToClose(seq, k, r)
      PROVE  h.sequence_num = r + 1 /\ CompleteToClose(rest, k, r + 1)
  <2>1. PICK j \in places(seq, k) : seq[j].content.kind = "CloseMessage"
                                    /\ Complete(seq, k, r, seq[j].sequence_num)
      BY <1>6 DEF CompleteToClose
  <2>2. seq[j].sequence_num \in Nat
    <3>1. j \in 1..Len(seq)
        BY DEF places
    <3>2. seq[j] \in Message
        BY <3>1, ElementOfSeq
    <3> QED BY <3>2 DEF Message
  <2>3. h.sequence_num = r + 1 /\ Complete(rest, k, r + 1, seq[j].sequence_num)
      BY <1>5, <1>6, <2>1, <2>2
  <2>4. j - 1 \in places(rest, k) /\ rest[j - 1] = seq[j]
      BY <1>3, <1>6, <2>1
  <2> QED BY <2>1, <2>3, <2>4 DEF CompleteToClose
<1>7. \A r, n \in Nat : h.client_key = k /\ Complete(seq, k, r, n) =>
          h.sequence_num = r + 1 /\ Complete(rest, k, r + 1, n)
    BY <1>5
<1>8. \A r \in Nat :
          h.client_key = k /\ h.content.kind # "CloseMessage" /\ CompleteToClose(seq, k, r)
              => h.sequence_num = r + 1 /\ CompleteToClose(rest, k, r + 1)
    BY <1>6
<1> QED BY <1>1, <1>2, <1>3, <1>4, <1>7, <1>8 DEF rest, h

\* What is forgotten of a queue is in the middle of what its gateway has to relay.
LEMMA Forgetting ==
    ASSUME NEW read \in Seq(Message), NEW queue \in Seq(Message), NEW k,
           NEW s \in 0..Len(queue), NEW c \in s..Len(queue),
           \A i \in s + 1..c : queue[i].client_key # k
    PROVE  Keeps(read \o SubSeq(queue, s + 1, Len(queue)),
                 read \o SubSeq(queue, c + 1, Len(queue)), k)
<1> DEFINE len == Len(queue)
           p   == Len(read)
           old == read \o SubSeq(queue, s + 1, len)
           new == read \o SubSeq(queue, c + 1, len)
           f   == [i \in 1..p + len - c |-> IF i <= p THEN i ELSE i + (c - s)]
<1>1. /\ len \in Nat /\ p \in Nat /\ s \in Nat /\ c \in Nat /\ s <= c /\ c <= len
      /\ c \in 0..len
    OBVIOUS
<1>2. ASSUME NEW a \in 0..len
      PROVE  /\ Len(read \o SubSeq(queue, a + 1, len)) = p + len - a
             /\ \A i \in 1..p : (read \o SubSeq(queue, a + 1, len))[i] = read[i]
             /\ \A i \in p + 1..p + len - a :
                    (read \o SubSeq(queue, a + 1, len))[i] = queue[i - p + a]
  <2> DEFINE rest == SubSeq(queue, a + 1, len)
             n    == len - a
  <2>1. /\ rest \in Seq(Message) /\ Len(rest) = n
        /\ \A i \in 1..n : rest[i] = queue[i + a]
      BY Suffix
  <2>2. n \in Nat /\ p + n = p + len - a
      BY <1>1
  <2> HIDE DEF rest, n
  <2>3. /\ Len(read \o rest) = p + n
        /\ \A i \in 1..p + n :
               (read \o rest)[i] = IF i <= p THEN read[i] ELSE rest[i - p]
      BY <2>1, ConcatProperties
  <2> HIDE DEF p, len
  <2>4. \A i \in 1..p : (read \o rest)[i] = read[i]
      BY <1>1, <2>2, <2>3
  <2>5. ASSUME NEW i \in p + 1..p + len - a
        PROVE  (read \o rest)[i] = queue[i - p + a]
    <3>1. i \in 1..p + n /\ ~(i <= p) /\ i - p \in 1..n
        BY <1>1, <2>2
    <3> QED BY <2>1, <2>3, <3>1
  <2>6. Len(read \o rest) = p + len - a
      BY <2>2, <2>3
  <2> QED BY <2>4, <2>5, <2>6 DEF rest
<1>3. /\ Len(old) = p + len - s /\ Len(new) = p + len - c
      /\ \A i \in 1..p : old[i] = read[i] /\ new[i] = read[i]
      /\ \A i \in p + 1..p + len - s : old[i] = queue[i - p + s]
      /\ \A i \in p + 1..p + len - c : new[i] = queue[i - p + c]
    BY <1>1, <1>2
<1> HIDE DEF old, new, len, p
<1>4. \A i \in 1..p + len - c : f[i] = IF i <= p THEN i ELSE i + (c - s)
    OBVIOUS
<1>5. f \in [1..Len(new) -> 1..Len(old)]
    BY SMTT(30), <1>1, <1>3
<1> HIDE DEF f
<1>6. \A i, j \in 1..Len(new) : i < j => f[i] < f[j]
    BY <1>1, <1>3, <1>4
<1>7. ASSUME NEW i \in 1..Len(new)
      PROVE  new[i] = old[f[i]]
  <2>1. CASE i <= p
    <3>1. i \in 1..p /\ f[i] = i
        BY <1>1, <1>3, <1>4, <2>1
    <3> QED BY <1>3, <3>1
  <2>2. CASE ~(i <= p)
    <3>1. /\ f[i] = i + (c - s) /\ i \in p + 1..p + len - c
          /\ f[i] \in p + 1..p + len - s
          /\ f[i] - p + s = i - p + c
        BY <1>1, <1>3, <1>4, <2>2
    <3>2. new[i] = queue[i - p + c]
        BY <1>3, <3>1
    <3>3. old[f[i]] = queue[f[i] - p + s]
        BY <1>3, <3>1
    <3> QED BY <3>1, <3>2, <3>3
  <2> QED BY <2>1, <2>2
<1>8. ASSUME NEW j \in places(old, k)
      PROVE  \E i \in 1..Len(new) : f[i] = j
  <2>1. j \in 1..p + len - s /\ old[j].client_key = k
      BY <1>3 DEF places
  <2>2. CASE j <= p
    <3>1. j \in 1..p + len - c
        BY <1>1, <2>1, <2>2
    <3> QED BY <1>3, <1>4, <2>2, <3>1
  <2>3. CASE ~(j <= p)
    <3>1. j \in p + 1..p + len - s /\ j - p + s \in s + 1..len
        BY <1>1, <2>1, <2>3
    <3>2. queue[j - p + s].client_key = k
        BY <1>3, <2>1, <3>1
    <3>3. j - p + s \notin s + 1..c
        BY <3>2
    <3>4. /\ j - (c - s) \in 1..p + len - c /\ ~(j - (c - s) <= p)
          /\ j - (c - s) + (c - s) = j
        BY <1>1, <3>1, <3>3
    <3>5. f[j - (c - s)] = j
        BY <1>4, <3>4
    <3> QED BY <1>3, <3>4, <3>5
  <2> QED BY <2>2, <2>3
<1>9. Keeps(old, new, k)
    BY <1>5, <1>6, <1>7, <1>8 DEF Keeps
<1> QED BY <1>9 DEF old, new, len

----------------------------------------------------------------------------
(***************************************************************************)
(* What the steps of the canister do to its sessions and logs.             *)
(***************************************************************************)

Registered == DOMAIN REGISTERED_CLIENTS
sent_number(k) == OUTGOING_MESSAGE_TO_CLIENT_NUM_MAP[k]
next_number(k) == INCOMING_MESSAGE_FROM_CLIENT_NUM_MAP[k]

Same(S) ==
    \A x \in S : /\ gateway_of(x)' = gateway_of(x)
                 /\ sent_number(x)' = sent_number(x)
                 /\ next_number(x)' = next_number(x)

Quiet == Registered' = Registered /\ Same(Registered) /\ Logs' = Logs

Sends(k, content) ==
    /\ k \in Registered /\ content \in Content
    /\ content.kind # "CloseMessage" /\ content # OpenMessage
    /\ Registered' = Registered /\ Same(Registered \ {k})
    /\ gateway_of(k)' = gateway_of(k)
    /\ sent_number(k)' = sent_number(k) + 1
    /\ next_number(k)' = next_number(k)
    /\ Logs' \in with_content(k, content)

Closes(k, content) ==
    /\ k \in Registered /\ content \in Content
    /\ content.kind = "CloseMessage"
    /\ Registered' = Registered \ {k} /\ Same(Registered \ {k})
    /\ Logs' \in with_content(k, content)

Drops(k) ==
    /\ k \in Registered
    /\ Registered' = Registered \ {k} /\ Same(Registered \ {k})
    /\ Logs' = Logs

Receives(k) ==
    /\ k \in Registered
    /\ Registered' = Registered /\ Same(Registered \ {k})
    /\ gateway_of(k)' = gateway_of(k)
    /\ sent_number(k)' = sent_number(k)
    /\ next_number(k)' = next_number(k) + 1
    /\ Logs' = Logs

sessions_of(p) == {x \in Registered : x.client_principal = p}

\* The logs, with an empty one for g if it has none.
logs_with(g) ==
    IF g \in DOMAIN Logs THEN Logs
    ELSE Service!insert(Logs, g, [start |-> 0, messages |-> << >>])

Opens(p, nonce, g) ==
    LET k == [client_principal |-> p, client_nonce |-> nonce]
    IN  /\ k \in ClientKey /\ k \notin Registered
        /\ Registered' = (Registered \ sessions_of(p)) \cup {k}
        /\ Same(Registered \ sessions_of(p))
        /\ gateway_of(k)' = g
        /\ sent_number(k)' = 1
        /\ next_number(k)' = 1
        /\ Logs' \in Service!with_message(logs_with(g), g, p, nonce, 1, OpenMessage)

Retires ==
    /\ Registered' = Registered /\ Same(Registered)
    /\ Logs' = Service!delete(Logs, expired_gateways)

LEMMA ClientMaps ==
    ASSUME Inv
    PROVE  /\ MapInto(REGISTERED_CLIENTS, ClientKey, RegisteredClient)
           /\ MapInto(OUTGOING_MESSAGE_TO_CLIENT_NUM_MAP, ClientKey, Nat)
           /\ MapInto(INCOMING_MESSAGE_FROM_CLIENT_NUM_MAP, ClientKey, Nat \ {0})
           /\ DOMAIN OUTGOING_MESSAGE_TO_CLIENT_NUM_MAP = DOMAIN REGISTERED_CLIENTS
           /\ DOMAIN INCOMING_MESSAGE_FROM_CLIENT_NUM_MAP = DOMAIN REGISTERED_CLIENTS
BY DEF Inv, StateInv, MapsOK, RegistryConsistent

LEMMA QuietStep ==
    ASSUME UNCHANGED <<client_vars, REGISTERED_GATEWAYS>>
    PROVE  Quiet
BY DEF client_vars, Quiet, Same, Registered, gateway_of, sent_number, next_number, Logs,
       logs_of

LEMMA SendingStep ==
    ASSUME Inv, QueuesInOrder, NEW k \in Registered, NEW content \in Content,
           content.kind # "CloseMessage", content # OpenMessage, ws_send(k, content),
           UNCHANGED <<REGISTERED_CLIENTS, INCOMING_MESSAGE_FROM_CLIENT_NUM_MAP>>
    PROVE  Sends(k, content)
<1>1. Logs' \in with_content(k, content)
    BY SendLogs DEF Inv, Registered
<1>2. OUTGOING_MESSAGE_TO_CLIENT_NUM_MAP' = [OUTGOING_MESSAGE_TO_CLIENT_NUM_MAP EXCEPT ![k] = @ + 1]
    BY DEF ws_send
<1>3. /\ sent_number(k)' = sent_number(k) + 1
      /\ \A x \in Registered \ {k} : sent_number(x)' = sent_number(x)
    BY <1>2, ClientMaps DEF sent_number, Registered
<1> QED BY <1>1, <1>3 DEF Sends, Same, Registered, gateway_of, next_number

\* The maps without client k.
LEMMA WithoutClient ==
    ASSUME Inv, NEW k \in Registered, remove_from_client_maps(k)
    PROVE  Registered' = Registered \ {k} /\ Same(Registered \ {k})
<1>1. /\ REGISTERED_CLIENTS' = remove(REGISTERED_CLIENTS, {k})
      /\ OUTGOING_MESSAGE_TO_CLIENT_NUM_MAP' = remove(OUTGOING_MESSAGE_TO_CLIENT_NUM_MAP, {k})
      /\ INCOMING_MESSAGE_FROM_CLIENT_NUM_MAP' = remove(INCOMING_MESSAGE_FROM_CLIENT_NUM_MAP, {k})
    BY DEF remove_from_client_maps
<1>2. /\ Registered' = Registered \ {k}
      /\ \A x \in Registered \ {k} : REGISTERED_CLIENTS'[x] = REGISTERED_CLIENTS[x]
    BY <1>1, ClientMaps, Remove DEF Registered
<1>3. \A x \in Registered \ {k} : sent_number(x)' = sent_number(x)
    BY <1>1, ClientMaps, Remove DEF Registered, sent_number
<1>4. \A x \in Registered \ {k} : next_number(x)' = next_number(x)
    BY <1>1, ClientMaps, Remove DEF Registered, next_number
<1> QED BY <1>2, <1>3, <1>4 DEF Same, gateway_of

LEMMA ClosingStep ==
    ASSUME Inv, QueuesInOrder, NEW k \in Registered, NEW reason \in CloseMessageReason,
           close_client(k, reason)
    PROVE  Closes(k, CloseMessage(reason))
<1>1. Logs' \in with_content(k, CloseMessage(reason))
    BY CloseLogs DEF Inv, Registered
<1>2. Registered' = Registered \ {k} /\ Same(Registered \ {k})
    BY WithoutClient DEF close_client
<1>3. CloseMessage(reason) \in Content /\ CloseMessage(reason).kind = "CloseMessage"
    BY ContentOK DEF CloseMessage
<1> QED BY <1>1, <1>2, <1>3 DEF Closes

LEMMA DroppingStep ==
    ASSUME Inv, QueuesInOrder, NEW k \in Registered, remove_client(k)
    PROVE  Drops(k)
<1>1. Logs' = Logs
    BY RemoveLogs DEF Inv, Registered
<1>2. Registered' = Registered \ {k} /\ Same(Registered \ {k})
    BY WithoutClient DEF remove_client
<1> QED BY <1>1, <1>2 DEF Drops

LEMMA ReceivingStep ==
    ASSUME Inv, NEW p \in Principal, NEW k \in ClientKey,
           ws_message(p, k) \/ ws_message_keep_alive(p, k)
    PROVE  Receives(k)
<1>1. /\ k \in Registered /\ is_current(p, k) /\ accept_message(k)
      /\ \/ REGISTERED_CLIENTS' = REGISTERED_CLIENTS
         \/ REGISTERED_CLIENTS' = [REGISTERED_CLIENTS EXCEPT ![k].last_keep_alive_timestamp = time]
    BY ClientMaps DEF ws_message, ws_message_keep_alive, is_current, Registered
<1>2. /\ INCOMING_MESSAGE_FROM_CLIENT_NUM_MAP' =
             [INCOMING_MESSAGE_FROM_CLIENT_NUM_MAP EXCEPT ![k] = @ + 1]
      /\ UNCHANGED <<OUTGOING_MESSAGE_TO_CLIENT_NUM_MAP, REGISTERED_GATEWAYS>>
    BY <1>1 DEF accept_message, gateway_vars
<1>3. /\ next_number(k)' = next_number(k) + 1
      /\ \A x \in Registered \ {k} : next_number(x)' = next_number(x)
    BY <1>1, <1>2, ClientMaps DEF next_number, Registered
<1>4. /\ Registered' = Registered
      /\ \A x \in Registered : gateway_of(x)' = gateway_of(x)
  <2>1. \A x \in Registered : REGISTERED_CLIENTS[x] \in RegisteredClient
      BY ClientMaps DEF MapInto, Registered
  <2> QED BY <1>1, <2>1 DEF Registered, gateway_of, RegisteredClient
<1>5. Logs' = Logs /\ \A x : sent_number(x)' = sent_number(x)
    BY <1>2 DEF Logs, logs_of, sent_number
<1> QED BY <1>1, <1>3, <1>4, <1>5 DEF Receives, Same

LEMMA OpeningStep ==
    ASSUME Inv, QueuesInOrder, NEW p \in Principal, NEW nonce \in ClientNonce,
           NEW g \in Gateway, ws_open(p, nonce, g)
    PROVE  Opens(p, nonce, g)
<1> DEFINE k == [client_principal |-> p, client_nonce |-> nonce]
           old == current_keys(p)
           client == [last_keep_alive_timestamp |-> time, gateway_principal |-> g]
<1>1. Logs' \in Service!with_message(logs_with(g), g, p, nonce, 1, OpenMessage)
    BY OpenLogs DEF Inv, logs_with
<1>2. /\ k \in ClientKey /\ k \notin Registered
      /\ REGISTERED_CLIENTS' = put(remove(REGISTERED_CLIENTS, old), k, client)
      /\ INCOMING_MESSAGE_FROM_CLIENT_NUM_MAP' =
             put(remove(INCOMING_MESSAGE_FROM_CLIENT_NUM_MAP, old), k, 1)
      /\ OUTGOING_MESSAGE_TO_CLIENT_NUM_MAP' =
             put(remove(OUTGOING_MESSAGE_TO_CLIENT_NUM_MAP, old), k, 1)
    BY DEF ws_open, message_to, INITIAL_CLIENT_SEQUENCE_NUM, INITIAL_CANISTER_SEQUENCE_NUM,
           ClientKey, Registered
<1>3. sessions_of(p) = old \cap Registered
    BY CurrentKeys DEF Inv, sessions_of, Registered
<1>4. client.gateway_principal = g
    OBVIOUS
<1> HIDE DEF k, old, client
<1>5. ASSUME NEW map, DOMAIN map = Registered, NEW v
      PROVE  LET new == put(remove(map, old), k, v)
             IN  /\ DOMAIN new = (Registered \ old) \cup {k}
                 /\ new[k] = v
                 /\ \A x \in Registered \ old : new[x] = map[x]
    BY <1>2, <1>5 DEF put, remove, Restrict
<1>6. /\ Registered' = (Registered \ sessions_of(p)) \cup {k}
      /\ REGISTERED_CLIENTS'[k] = client
      /\ \A x \in Registered \ old : REGISTERED_CLIENTS'[x] = REGISTERED_CLIENTS[x]
    BY <1>2, <1>3, <1>5 DEF Registered
<1>7. /\ sent_number(k)' = 1
      /\ \A x \in Registered \ old : sent_number(x)' = sent_number(x)
    BY <1>2, <1>5, ClientMaps DEF Registered, sent_number
<1>8. /\ next_number(k)' = 1
      /\ \A x \in Registered \ old : next_number(x)' = next_number(x)
    BY <1>2, <1>5, ClientMaps DEF Registered, next_number
<1>9. Same(Registered \ sessions_of(p)) /\ gateway_of(k)' = g
    BY <1>3, <1>4, <1>6, <1>7, <1>8 DEF Same, gateway_of
<1> QED BY <1>1, <1>2, <1>6, <1>7, <1>8, <1>9 DEF Opens, k

\* A client is sent an acknowledgement.
LEMMA AckSends ==
    ASSUME Inv, QueuesInOrder, NEW k \in client_keys, send_ack(k)
    PROVE  /\ time' = time
           /\ \E content : content.kind = "AckMessage" /\ Sends(k, content)
<1> DEFINE content == AckMessage(next_number(k) - 1)
<1>1. /\ k \in Registered /\ next_number(k) \in Nat \ {0}
    BY ClientMaps DEF Inv, ControlInv, LoopKeysAreRegistered, Registered, next_number, MapInto
<1>2. content.kind = "AckMessage" /\ OpenMessage.kind = "OpenMessage"
    BY DEF AckMessage, OpenMessage
<1>3. content \in Content
  <2>1. next_number(k) - 1 \in Nat
      BY <1>1
  <2> QED BY <2>1, ContentOK
<1>4. /\ ws_send(k, content) /\ time' = time
      /\ UNCHANGED <<REGISTERED_CLIENTS, INCOMING_MESSAGE_FROM_CLIENT_NUM_MAP>>
    BY DEF send_ack, next_number
<1> HIDE DEF content
<1>5. content.kind # "CloseMessage" /\ content # OpenMessage
    BY <1>2
<1>6. Sends(k, content)
    BY <1>1, <1>3, <1>4, <1>5, SendingStep
<1> QED BY <1>2, <1>4, <1>6

\* The canister goes on with a loop, starts or ends one.
LEMMA RunStep ==
    ASSUME Inv, QueuesInOrder, run
    PROVE  /\ time' = time
           /\ \/ Quiet
              \/ Retires
              \/ \E k, content : Sends(k, content) \/ Closes(k, content)
<1>1. client_keys \subseteq Registered
    BY DEF Inv, ControlInv, LoopKeysAreRegistered, Registered
<1>2. CASE send_ack_to_clients \/ send_ack_end \/ check_keep_alive_end
  <2>1. UNCHANGED <<client_vars, REGISTERED_GATEWAYS, time>>
      BY <1>2 DEF send_ack_to_clients, send_ack_end, check_keep_alive_end, gateway_vars
  <2> QED BY <2>1, QuietStep
<1>3. CASE check_keep_alive
  <2>1. remove_empty_expired_gateways /\ UNCHANGED <<client_vars, time>>
      BY <1>3 DEF check_keep_alive
  <2>2. Registered' = Registered /\ Same(Registered)
      BY <2>1 DEF client_vars, Same, Registered, gateway_of, sent_number, next_number
  <2> QED BY <2>1, <2>2, CheckLogs DEF Retires
<1>4. ASSUME NEW k \in client_keys, send_ack(k)
      PROVE  time' = time /\ \E content : Sends(k, content)
    BY <1>4, AckSends
<1>5. ASSUME NEW k \in client_keys, close_silent_client(k)
      PROVE  time' = time /\ \E content : Closes(k, content)
  <2>1. close_client(k, "KeepAliveTimeout") /\ time' = time
      BY <1>5 DEF close_silent_client
  <2>2. "KeepAliveTimeout" \in CloseMessageReason
      BY DEF CloseMessageReason
  <2> QED BY <1>1, <2>1, <2>2, ClosingStep
<1> QED BY <1>2, <1>3, <1>4, <1>5 DEF run

LEMMA ApplicationStep ==
    ASSUME Inv, QueuesInOrder, NEW p \in Principal, application(p)
    PROVE  time' = time /\ \E k, content : Sends(k, content) \/ Closes(k, content)
<1>1. \A q \in DOMAIN CURRENT_CLIENT_KEY_MAP : CURRENT_CLIENT_KEY_MAP[q] \in Registered
    BY DEF Inv, StateInv, RegistryConsistent, Registered
<1>2. CASE send(p)
  <2>1. PICK k \in Registered :
            /\ ws_send(k, ApplicationMessage) /\ time' = time
            /\ UNCHANGED <<REGISTERED_CLIENTS, INCOMING_MESSAGE_FROM_CLIENT_NUM_MAP>>
      BY <1>1, <1>2 DEF send
  <2>2. /\ ApplicationMessage \in Content /\ ApplicationMessage.kind # "CloseMessage"
        /\ ApplicationMessage # OpenMessage
      BY ContentOK DEF ApplicationMessage, OpenMessage
  <2> QED BY <2>1, <2>2, SendingStep
<1>3. CASE close(p)
  <2>1. PICK k \in Registered : close_client(k, "ClosedByApplication") /\ time' = time
      BY <1>1, <1>3 DEF close
  <2>2. "ClosedByApplication" \in CloseMessageReason
      BY DEF CloseMessageReason
  <2> QED BY <2>1, <2>2, ClosingStep
<1> QED BY <1>2, <1>3 DEF application

----------------------------------------------------------------------------
(***************************************************************************)
(* The types of the network.                                               *)
(***************************************************************************)

Connection == [open : BOOLEAN, gateway : Gateway, received : Nat, sent : Nat]
ClientMessage == [sequence_num : Nat, kind : {"Application", "KeepAlive"}, timestamp : Nat]

\* Every session that is registered is one of a connection, with the same gateway.
NetworkOK ==
    /\ MapInto(connections, ClientKey, Connection)
    /\ to_canister \in [DOMAIN connections -> Seq(ClientMessage)]
    /\ polling_nonce \in [Gateway -> Nat]
    /\ polled \in [Gateway -> Seq(Message)]
    /\ Registered \subseteq DOMAIN connections
    /\ \A k \in Registered : gateway_of(k) = connections[k].gateway

\* The connection of x is as it was, but perhaps closed.
LEMMA OpenField ==
    ASSUME NEW c \in Connection, NEW b \in BOOLEAN
    PROVE  LET new == [c EXCEPT !.open = b]
           IN  /\ new \in Connection /\ new.open = b /\ new.gateway = c.gateway
               /\ new.received = c.received /\ new.sent = c.sent
BY DEF Connection

LEMMA ConnectEffect ==
    ASSUME NetworkOK, time \in Nat, NEW p \in Principal, NEW nonce \in ClientNonce,
           NEW g \in Gateway, connect(p, nonce, g)
    PROVE  LET k == [client_principal |-> p, client_nonce |-> nonce]
           IN  /\ k \in ClientKey /\ k \notin DOMAIN connections
               /\ DOMAIN connections' = DOMAIN connections \cup {k}
               /\ MapInto(connections', ClientKey, Connection)
               /\ connections'[k].gateway = g /\ connections'[k].open
               /\ connections'[k].received = 0 /\ connections'[k].sent = 0
               /\ \A x \in DOMAIN connections :
                      /\ connections'[x].gateway = connections[x].gateway
                      /\ connections'[x].received = connections[x].received
                      /\ connections'[x].sent = connections[x].sent
                      /\ connections'[x].open =>
                             connections[x].open /\ x.client_principal # p
               /\ to_canister' \in [DOMAIN connections' -> Seq(ClientMessage)]
               /\ to_canister'[k] = << >>
               /\ \A x \in DOMAIN connections : to_canister'[x] = to_canister[x]
               /\ ws_open(p, nonce, g) /\ polled' = polled
<1> DEFINE k == [client_principal |-> p, client_nonce |-> nonce]
           b(x) == connections[x].open /\ x.client_principal # p
           left == [c \in DOMAIN connections |-> [connections[c] EXCEPT !.open = b(c)]]
<1>1. /\ k \in ClientKey /\ k \notin DOMAIN connections
      /\ connections' = put(left, k, new_connection(g))
      /\ to_canister' = put(to_canister, k, << >>)
      /\ ws_open(p, nonce, g) /\ polled' = polled
    BY DEF connect, ClientKey
<1>2. /\ \A x \in DOMAIN connections : connections[x] \in Connection
      /\ DOMAIN connections \subseteq ClientKey
    BY DEF NetworkOK, MapInto
<1>3. ASSUME NEW x \in DOMAIN connections
      PROVE  /\ left[x] \in Connection
             /\ left[x].gateway = connections[x].gateway
             /\ left[x].received = connections[x].received
             /\ left[x].sent = connections[x].sent
             /\ left[x].open => connections[x].open /\ x.client_principal # p
  <2>1. b(x) \in BOOLEAN
      OBVIOUS
  <2>2. left[x] = [connections[x] EXCEPT !.open = b(x)]
      BY Zenon
  <2>3. /\ left[x] \in Connection /\ left[x].open = b(x)
        /\ left[x].gateway = connections[x].gateway
        /\ left[x].received = connections[x].received
        /\ left[x].sent = connections[x].sent
      BY <1>2, <2>1, <2>2, OpenField
  <2>4. left[x].open => b(x)
      BY <2>3, Zenon
  <2> QED BY <2>3, <2>4
<1>4. DOMAIN left = DOMAIN connections
    OBVIOUS
<1> HIDE DEF left, k
<1>5. /\ DOMAIN connections' = DOMAIN connections \cup {k}
      /\ connections'[k] = new_connection(g)
      /\ \A x \in DOMAIN connections : connections'[x] = left[x]
      /\ connections' = [x \in DOMAIN connections' |-> connections'[x]]
    BY <1>1, <1>4 DEF put
<1>6. new_connection(g) \in Connection /\ new_connection(g).gateway = g
      /\ new_connection(g).open /\ new_connection(g).received = 0
      /\ new_connection(g).sent = 0
    BY DEF new_connection, Connection
<1>7. MapInto(connections', ClientKey, Connection)
    BY <1>1, <1>2, <1>3, <1>5, <1>6 DEF MapInto
<1>8. /\ to_canister' \in [DOMAIN connections' -> Seq(ClientMessage)]
      /\ to_canister'[k] = << >>
      /\ \A x \in DOMAIN connections : to_canister'[x] = to_canister[x]
    BY <1>1, <1>5 DEF put, NetworkOK
<1> QED BY <1>1, <1>3, <1>5, <1>6, <1>7, <1>8 DEF k

\* A client gets, or misses, the next message its gateway has to relay.
LEMMA RelayEffect ==
    ASSUME NetworkOK, time \in Nat, NEW g \in Gateway, relay(g)
    PROVE  LET m == Head(polled[g])
               k == m.client_key
               is_ack == m.content.kind = "AckMessage"
           IN  /\ polled[g] # << >> /\ polled[g] \in Seq(Message) /\ m \in Message
               /\ polled' \in [Gateway -> Seq(Message)]
               /\ polled'[g] = Tail(polled[g])
               /\ \A x \in Gateway : x # g => polled'[x] = polled[x]
               /\ UNCHANGED <<vars, polling_nonce>>
               /\ DOMAIN connections' = DOMAIN connections
               /\ MapInto(connections', ClientKey, Connection)
               /\ to_canister' \in [DOMAIN connections -> Seq(ClientMessage)]
               /\ \A x \in DOMAIN connections :
                      x # k => connections'[x] = connections[x]
                               /\ to_canister'[x] = to_canister[x]
               /\ ~is_open(k) => connections' = connections /\ to_canister' = to_canister
               /\ is_open(k) =>
                      /\ connections'[k].gateway = connections[k].gateway
                      /\ connections'[k].received = m.sequence_num
                      /\ connections'[k].sent =
                             IF is_ack THEN connections[k].sent + 1 ELSE connections[k].sent
                      /\ connections'[k].open => m.content.kind # "CloseMessage"
                      /\ to_canister'[k] = IF is_ack
                                           THEN Append(to_canister[k], client_message(k, "KeepAlive"))
                                           ELSE to_canister[k]
<1> DEFINE m == Head(polled[g])
           k == m.client_key
           is_ack == m.content.kind = "AckMessage"
           sent == IF is_ack THEN connections[k].sent + 1 ELSE connections[k].sent
           answer == IF is_ack THEN Append(to_canister[k], client_message(k, "KeepAlive"))
                     ELSE to_canister[k]
<1>1. /\ MapInto(connections, ClientKey, Connection)
      /\ to_canister \in [DOMAIN connections -> Seq(ClientMessage)]
      /\ polled \in [Gateway -> Seq(Message)] /\ polled[g] \in Seq(Message)
    BY DEF NetworkOK
<1>2. /\ polled[g] # << >>
      /\ polled' = [polled EXCEPT ![g] = Tail(@)]
      /\ UNCHANGED <<vars, polling_nonce>>
      /\ IF is_open(k) THEN receive(k, m) ELSE UNCHANGED <<connections, to_canister>>
    BY DEF relay
<1>3. m \in Message /\ Tail(polled[g]) \in Seq(Message)
    BY <1>1, <1>2, HeadTailProperties
<1>4. /\ polled' \in [Gateway -> Seq(Message)]
      /\ polled'[g] = Tail(polled[g])
      /\ \A x \in Gateway : x # g => polled'[x] = polled[x]
    BY <1>1, <1>2, <1>3
<1>5. CASE ~is_open(k)
    BY <1>1, <1>2, <1>3, <1>4, <1>5
<1>6. CASE is_open(k)
  <2>0. PICK stays \in BOOLEAN : stays = (m.content.kind # "CloseMessage")
      BY Zenon
  <2> DEFINE c == [connections[k] EXCEPT !.received = m.sequence_num, !.sent = sent,
                                         !.open = stays]
  <2>1. /\ connections' = [connections EXCEPT ![k] = c]
        /\ to_canister' = [to_canister EXCEPT ![k] = answer]
      BY <1>2, <1>6, <2>0, Zenon DEF receive
  <2>2. k \in DOMAIN connections /\ connections[k] \in Connection
      BY <1>1, <1>6 DEF is_open, MapInto
  <2>3. m.sequence_num \in Nat /\ sent \in Nat
      BY <1>3, <2>2 DEF Message, Connection
  <2>4. answer \in Seq(ClientMessage)
    <3>1. client_message(k, "KeepAlive") \in ClientMessage
        BY <2>2 DEF client_message, ClientMessage, Connection
    <3>2. to_canister[k] \in Seq(ClientMessage)
        BY <1>1, <2>2
    <3> QED BY <3>1, <3>2, AppendProperties
  <2>. stays \in BOOLEAN
      OBVIOUS
  <2> HIDE DEF sent, answer, k, m
  <2>5. /\ c \in Connection /\ c.open = stays /\ c.gateway = connections[k].gateway
        /\ c.received = m.sequence_num /\ c.sent = sent
      BY <2>2, <2>3 DEF Connection
  <2> HIDE DEF c
  <2>6. /\ DOMAIN connections' = DOMAIN connections
        /\ connections'[k] = c
        /\ \A x \in DOMAIN connections : x # k => connections'[x] = connections[x]
        /\ connections' \in [DOMAIN connections -> Connection]
      BY <1>1, <2>1, <2>2, <2>5 DEF MapInto
  <2>7. /\ to_canister' \in [DOMAIN connections -> Seq(ClientMessage)]
        /\ to_canister'[k] = answer
        /\ \A x \in DOMAIN connections : x # k => to_canister'[x] = to_canister[x]
      BY <1>1, <2>1, <2>2, <2>4
  <2>8. MapInto(connections', ClientKey, Connection)
      BY <1>1, <2>6 DEF MapInto
  <2>9. connections'[k].open => m.content.kind # "CloseMessage"
      BY <2>0, <2>5, <2>6, Zenon
  <2> QED BY <1>2, <1>3, <1>4, <1>6, <2>5, <2>6, <2>7, <2>8, <2>9
          DEF m, k, sent, answer
<1> QED BY <1>5, <1>6

\* The reply to a poll, if it is not empty, is what the gateway has not read of its
\* queue, up to number e.
LEMMA PollEffect ==
    ASSUME Inv, QueuesInOrder, NetworkOK, NEW g \in Gateway, poll(g)
    PROVE  /\ g \in DOMAIN REGISTERED_GATEWAYS /\ polled[g] = << >>
           /\ \E s, e : LET gw    == REGISTERED_GATEWAYS[g]
                            queue == gw.messages_queue
                        IN  /\ s \in 0..Len(queue) /\ e \in s + 1..Len(queue)
                            /\ s = start_index(gw, polling_nonce[g])
                            /\ polled'[g] = SubSeq(queue, s + 1, e)
                            /\ polling_nonce'[g] = nonce_at(gw, e) + 1
           /\ \A x \in Gateway :
                  x # g => polled'[x] = polled[x] /\ polling_nonce'[x] = polling_nonce[x]
           /\ DOMAIN polled' = Gateway /\ DOMAIN polling_nonce' = Gateway
           /\ UNCHANGED <<vars, connections, to_canister>>
<1> DEFINE gw    == REGISTERED_GATEWAYS[g]
           nonce == polling_nonce[g]
           max   == PARAMS.max_number_of_returned_messages
           queue == gw.messages_queue
           reply == ws_get_messages(g, nonce)
           s     == start_index(gw, nonce)
           e     == end_index(gw, nonce, max)
<1>1. /\ polled[g] = << >> /\ reply.messages # << >>
      /\ polled' = [polled EXCEPT ![g] = reply.messages]
      /\ polling_nonce' = [polling_nonce EXCEPT ![g] =
             reply.messages[Len(reply.messages)].key[2] + 1]
      /\ UNCHANGED <<vars, connections, to_canister>>
    BY DEF poll
<1>2. g \in DOMAIN REGISTERED_GATEWAYS /\ reply.messages = SubSeq(queue, s + 1, e)
  <2>1. CASE g \notin DOMAIN REGISTERED_GATEWAYS
      BY <1>1, <2>1 DEF ws_get_messages, empty_reply
  <2>2. CASE g \in DOMAIN REGISTERED_GATEWAYS
      BY <1>1, <2>2 DEF ws_get_messages, get_cert_messages, empty_reply,
                         get_messages_for_gateway
  <2> QED BY <2>1, <2>2
<1>3. /\ polled \in [Gateway -> Seq(Message)] /\ polling_nonce \in [Gateway -> Nat]
      /\ nonce \in Nat /\ max \in Nat
      /\ queue \in Seq(Message) /\ Len(queue) \in Nat /\ gw.outgoing_message_nonce \in Nat
      /\ \A i \in 1..Len(queue) : queue[i].key = <<g, nonce_at(gw, i)>>
  <2>1. max \in Nat
      BY InitParamsAssumption DEF Inv, ControlInv, InitParamsAssumption
  <2> QED BY <1>2, <2>1, NonceAt DEF NetworkOK
<1>4. s \in 0..Len(queue)
    BY <1>3, StartIndex
<1>5. e = IF Len(queue) - s > max THEN s + max ELSE Len(queue)
    BY DEF end_index
<1> HIDE DEF s, e, nonce, max
<1>6. e \in s..Len(queue)
    BY <1>3, <1>4, <1>5
<1>7. /\ SubSeq(queue, s + 1, e) \in Seq(Message)
      /\ Len(SubSeq(queue, s + 1, e)) = e - s
      /\ \A i \in 1..e - s : SubSeq(queue, s + 1, e)[i] = queue[s + i]
  <2>1. /\ s + 1 \in Int /\ e \in Int
        /\ \A i \in s + 1..e : i \in 1..Len(queue)
        /\ (s + 1 <= e => e - (s + 1) + 1 = e - s) /\ (~(s + 1 <= e) => 0 = e - s)
        /\ \A i \in 1..e - s : (s + 1) + i - 1 = s + i
        /\ e - (s + 1) + 1 = e - s
      BY <1>3, <1>4, <1>6
  <2>2. \A i \in s + 1..e : queue[i] \in Message
      BY <1>3, <2>1, ElementOfSeq
  <2> QED BY <2>1, <2>2, SubSeqProperties
<1>8. e # s
    BY <1>1, <1>2, <1>4, <1>7, EmptySeq
<1>9. e \in s + 1..Len(queue) /\ e - s \in 1..e - s /\ s + (e - s) = e /\ e \in 1..Len(queue)
    BY <1>3, <1>4, <1>6, <1>8
<1>10. polling_nonce'[g] = nonce_at(gw, e) + 1
  <2>1. reply.messages[Len(reply.messages)] = queue[e]
      BY <1>2, <1>7, <1>9
  <2>2. polling_nonce'[g] = reply.messages[Len(reply.messages)].key[2] + 1
      BY <1>1, <1>3
  <2>3. queue[e].key[2] = nonce_at(gw, e)
      BY <1>3, <1>9
  <2> HIDE DEF reply, queue, gw
  <2> QED BY <2>1, <2>2, <2>3
<1>11. polled'[g] = SubSeq(queue, s + 1, e)
    BY <1>1, <1>2, <1>3
<1>12. /\ \A x \in Gateway :
              x # g => polled'[x] = polled[x] /\ polling_nonce'[x] = polling_nonce[x]
       /\ DOMAIN polled' = Gateway /\ DOMAIN polling_nonce' = Gateway
    BY <1>1, <1>3
<1> QED BY <1>1, <1>2, <1>4, <1>9, <1>10, <1>11, <1>12 DEF s, nonce

----------------------------------------------------------------------------
(***************************************************************************)
(* The steps of the system.                                                *)
(***************************************************************************)

\* The canister takes a step that clients and gateways do not see.
CanisterStep ==
    /\ UNCHANGED network_vars /\ time' = time
    /\ \/ Quiet
       \/ Retires
       \/ \E k, content : Sends(k, content) \/ Closes(k, content)
       \/ \E k : Drops(k) /\ ~is_open(k)

\* The canister gets the next message of client k, if the session is registered.
Delivers(k) ==
    LET message == Head(to_canister[k])
    IN  /\ k \in DOMAIN connections /\ to_canister[k] # << >>
        /\ to_canister' = [to_canister EXCEPT ![k] = Tail(@)]
        /\ UNCHANGED <<time, polling_nonce, polled, connections>>
        /\ \/ /\ message.sequence_num = next_number(k) /\ Receives(k)
              /\ message.kind = "KeepAlive" => heard(k)' = time
           \/ message.sequence_num # next_number(k) /\ \E content : Closes(k, content)
           \/ k \notin Registered /\ Quiet

LEMMA DeliverStep ==
    ASSUME Inv, QueuesInOrder, NetworkOK, NEW k \in DOMAIN connections, deliver(k)
    PROVE  [Next]_vars /\ Delivers(k)
<1> DEFINE message == Head(to_canister[k])
           p == k.client_principal
<1>1. k \in ClientKey /\ p \in Principal
    BY DEF NetworkOK, MapInto, ClientKey
<1>2. to_canister[k] # << >> /\ to_canister[k] \in Seq(ClientMessage)
    BY DEF deliver, NetworkOK
<1>3. message \in ClientMessage
    BY <1>2, HeadTailProperties
<1>4. /\ idle /\ to_canister' = [to_canister EXCEPT ![k] = Tail(@)]
      /\ UNCHANGED <<polling_nonce, polled, connections>>
    BY DEF deliver
<1>5. \/ is_current(p, k) /\ message.sequence_num = next_number(k)
             /\ \/ message.kind = "Application" /\ ws_message(p, k)
                \/ ws_message_keep_alive(p, k)
      \/ is_current(p, k) /\ message.sequence_num # next_number(k)
             /\ ws_message_wrong_sequence_number(p, k)
      \/ ~is_current(p, k) /\ UNCHANGED vars
    BY DEF deliver, next_number
<1> HIDE DEF message, p
<1>6. CASE /\ message.sequence_num = next_number(k)
           /\ \/ message.kind = "Application" /\ ws_message(p, k)
              \/ ws_message_keep_alive(p, k)
  <2>1. Next /\ Receives(k)
      BY <1>1, <1>6, ReceivingStep DEF Next
  <2>2. time' = time
      BY <1>6 DEF ws_message, ws_message_keep_alive, accept_message
  <2>3. ws_message_keep_alive(p, k) => heard(k)' = time
    <3>1. k \in Registered /\ REGISTERED_CLIENTS[k] \in RegisteredClient
        BY <2>1, ClientMaps DEF Receives, Registered, MapInto
    <3> QED BY <3>1 DEF ws_message_keep_alive, heard, Registered, RegisteredClient
  <2>4. message.kind = "KeepAlive" => heard(k)' = time
      BY <1>6, <2>3
  <2> QED BY <1>2, <1>4, <1>6, <2>1, <2>2, <2>4 DEF Delivers, message
<1>7. CASE message.sequence_num # next_number(k) /\ ws_message_wrong_sequence_number(p, k)
  <2>1. close_client(k, "WrongSequenceNumber") /\ time' = time /\ k \in Registered
      BY <1>7, ClientMaps DEF ws_message_wrong_sequence_number, is_current, Registered
  <2>2. "WrongSequenceNumber" \in CloseMessageReason
      BY DEF CloseMessageReason
  <2>3. \E content : Closes(k, content)
      BY <2>1, <2>2, ClosingStep
  <2>4. Next
      BY <1>1, <1>7 DEF Next
  <2> QED BY <1>2, <1>4, <1>7, <2>1, <2>3, <2>4 DEF Delivers, message
<1>8. CASE ~is_current(p, k) /\ UNCHANGED vars
  <2>1. k \notin Registered
      BY <1>4, <1>8, SessionOfClient, ClientMaps DEF Inv, is_current, Registered, p
  <2>2. Quiet /\ time' = time
      BY <1>8, QuietStep DEF vars, gateway_vars
  <2> QED BY <1>2, <1>4, <1>8, <2>1, <2>2 DEF Delivers
<1> QED BY <1>5, <1>6, <1>7, <1>8

\* A message of a client is on its way.
LEMMA SendEffect ==
    ASSUME NetworkOK, time \in Nat, NEW k, client_send(k)
    PROVE  /\ is_open(k) /\ UNCHANGED <<vars, polling_nonce, polled>>
           /\ DOMAIN connections' = DOMAIN connections
           /\ MapInto(connections', ClientKey, Connection)
           /\ to_canister' \in [DOMAIN connections -> Seq(ClientMessage)]
           /\ \A x \in DOMAIN connections :
                  /\ connections'[x].gateway = connections[x].gateway
                  /\ connections'[x].received = connections[x].received
                  /\ connections'[x].open => connections[x].open
                  /\ x # k => connections'[x].sent = connections[x].sent
                              /\ to_canister'[x] = to_canister[x]
           /\ connections'[k].sent = connections[k].sent + 1
           /\ to_canister'[k] = Append(to_canister[k], client_message(k, "Application"))
<1> DEFINE c == [connections[k] EXCEPT !.sent = @ + 1]
           message == client_message(k, "Application")
<1>1. /\ is_open(k) /\ k \in DOMAIN connections /\ connections[k] \in Connection
      /\ to_canister[k] \in Seq(ClientMessage)
      /\ connections \in [DOMAIN connections -> Connection]
      /\ DOMAIN connections \subseteq ClientKey
      /\ to_canister \in [DOMAIN connections -> Seq(ClientMessage)]
      /\ UNCHANGED <<vars, polling_nonce, polled>>
    BY DEF client_send, is_open, NetworkOK, MapInto
<1>2. /\ connections' = [connections EXCEPT ![k] = c]
      /\ to_canister' = [to_canister EXCEPT ![k] = Append(@, message)]
    BY DEF client_send
<1>3. /\ c \in Connection /\ c.gateway = connections[k].gateway
      /\ c.received = connections[k].received
      /\ c.open => connections[k].open
      /\ c.sent = connections[k].sent + 1
  <2> DEFINE n == connections[k].sent + 1
  <2>1. n \in Nat
      BY <1>1 DEF Connection
  <2> HIDE DEF n
  <2>2. LET new == [connections[k] EXCEPT !.sent = n]
        IN  /\ new \in Connection /\ new.gateway = connections[k].gateway
            /\ new.received = connections[k].received
            /\ new.open => connections[k].open
            /\ new.sent = n
      BY <1>1, <2>1 DEF Connection
  <2> QED BY <2>2 DEF n
<1>4. message \in ClientMessage
    BY <1>1 DEF client_message, ClientMessage, Connection
<1> HIDE DEF c, message
<1>5. /\ DOMAIN connections' = DOMAIN connections
      /\ MapInto(connections', ClientKey, Connection)
      /\ connections'[k] = c
      /\ \A x \in DOMAIN connections : x # k => connections'[x] = connections[x]
    BY <1>1, <1>2, <1>3 DEF MapInto
<1>6. /\ to_canister' \in [DOMAIN connections -> Seq(ClientMessage)]
      /\ to_canister'[k] = Append(to_canister[k], message)
      /\ \A x \in DOMAIN connections : x # k => to_canister'[x] = to_canister[x]
    BY <1>1, <1>2, <1>4, AppendProperties
<1>7. \A x \in DOMAIN connections :
          /\ connections'[x].gateway = connections[x].gateway
          /\ connections'[x].received = connections[x].received
          /\ connections'[x].open => connections[x].open
          /\ x # k => connections'[x].sent = connections[x].sent
    BY <1>3, <1>5
<1> QED BY <1>1, <1>3, <1>5, <1>6, <1>7 DEF message

LEMMA DisconnectEffect ==
    ASSUME NetworkOK, NEW k, disconnect(k)
    PROVE  /\ UNCHANGED <<vars, polling_nonce, polled, to_canister>>
           /\ DOMAIN connections' = DOMAIN connections
           /\ MapInto(connections', ClientKey, Connection)
           /\ \A x \in DOMAIN connections :
                  /\ connections'[x].gateway = connections[x].gateway
                  /\ connections'[x].received = connections[x].received
                  /\ connections'[x].sent = connections[x].sent
                  /\ connections'[x].open => connections[x].open
<1> DEFINE c == [connections[k] EXCEPT !.open = FALSE]
<1>1. /\ k \in DOMAIN connections /\ connections[k] \in Connection
      /\ connections \in [DOMAIN connections -> Connection]
      /\ DOMAIN connections \subseteq ClientKey
      /\ UNCHANGED <<vars, polling_nonce, polled, to_canister>>
      /\ connections' = [connections EXCEPT ![k] = c]
    BY DEF disconnect, is_open, NetworkOK, MapInto
<1>2. /\ c \in Connection /\ c.gateway = connections[k].gateway
      /\ c.received = connections[k].received /\ c.open = FALSE
      /\ c.sent = connections[k].sent
    BY <1>1 DEF Connection
<1> HIDE DEF c
<1>3. /\ DOMAIN connections' = DOMAIN connections
      /\ MapInto(connections', ClientKey, Connection)
      /\ connections'[k] = c
      /\ \A x \in DOMAIN connections : x # k => connections'[x] = connections[x]
    BY <1>1, <1>2 DEF MapInto
<1> QED BY <1>1, <1>2, <1>3

Connects(p, nonce, g) ==
    /\ p \in Principal /\ nonce \in ClientNonce /\ g \in Gateway
    /\ connect(p, nonce, g) /\ Opens(p, nonce, g)
    /\ time' = time

Ticks == timely /\ UNCHANGED network_vars /\ Quiet /\ time' = time + 1

LEMMA SystemSteps ==
    ASSUME Inv, QueuesInOrder, NetworkOK, [SystemNext]_system_vars
    PROVE  /\ [Next]_vars
           /\ \/ CanisterStep
              \/ \E p, nonce, g : Connects(p, nonce, g)
              \/ \E k : client_send(k) \/ disconnect(k) \/ Delivers(k)
              \/ \E g \in Gateway : poll(g) \/ relay(g)
              \/ Ticks
<1>1. ASSUME NEW p \in Principal, NEW nonce \in ClientNonce, NEW g \in Gateway,
             connect(p, nonce, g)
      PROVE  Next /\ Connects(p, nonce, g)
  <2>1. ws_open(p, nonce, g)
      BY <1>1 DEF connect
  <2>2. Opens(p, nonce, g)
      BY <2>1, OpeningStep
  <2>3. Next /\ time' = time
      BY <2>1 DEF Next, ws_open
  <2> QED BY <1>1, <2>2, <2>3 DEF Connects
<1>2. ASSUME NEW k \in DOMAIN connections, deliver(k)
      PROVE  [Next]_vars /\ Delivers(k)
    BY <1>2, DeliverStep
<1>3. ASSUME NEW k \in DOMAIN connections, report_closed(k)
      PROVE  Next /\ CanisterStep
  <2>1. k \in ClientKey /\ connections[k].gateway \in Gateway
      BY DEF NetworkOK, MapInto, Connection
  <2>2. /\ ~is_open(k) /\ UNCHANGED network_vars
        /\ ws_close(connections[k].gateway, k)
      BY <1>3 DEF report_closed, is_open
  <2>3. k \in Registered /\ remove_client(k) /\ time' = time
      BY <2>2 DEF ws_close, Registered
  <2>4. Drops(k)
      BY <2>3, DroppingStep
  <2>5. Next
      BY <2>1, <2>2 DEF Next
  <2> QED BY <2>2, <2>3, <2>4, <2>5 DEF CanisterStep
<1>4. ASSUME run, UNCHANGED network_vars
      PROVE  Next /\ CanisterStep
  <2>1. Next
      BY <1>4 DEF run, Next
  <2> QED BY <1>4, <2>1, RunStep DEF CanisterStep
<1>5. ASSUME NEW p \in Principal, application(p), UNCHANGED network_vars
      PROVE  Next /\ CanisterStep
  <2>1. Next
      BY <1>5 DEF application, Next
  <2> QED BY <1>5, <2>1, ApplicationStep DEF CanisterStep
<1>6. ASSUME timely, tick, UNCHANGED network_vars
      PROVE  Next /\ Ticks
  <2>1. Next
      BY <1>6 DEF Next
  <2>2. UNCHANGED <<client_vars, REGISTERED_GATEWAYS>> /\ time' = time + 1
      BY <1>6 DEF tick, gateway_vars
  <2> QED BY <1>6, <2>1, <2>2, QuietStep DEF Ticks
<1>7. ASSUME NEW k \in DOMAIN connections, client_send(k) \/ disconnect(k)
      PROVE  UNCHANGED vars
    BY <1>7 DEF client_send, disconnect
<1>8. ASSUME NEW g \in Gateway, poll(g) \/ relay(g)
      PROVE  UNCHANGED vars
    BY <1>8 DEF poll, relay
<1>9. ASSUME UNCHANGED system_vars
      PROVE  UNCHANGED vars /\ CanisterStep
  <2>1. UNCHANGED <<vars, network_vars>>
      BY <1>9 DEF system_vars
  <2>2. UNCHANGED <<client_vars, REGISTERED_GATEWAYS, time>>
      BY <2>1 DEF vars, gateway_vars
  <2> QED BY <2>1, <2>2, QuietStep DEF CanisterStep
<1> QED BY <1>1, <1>2, <1>3, <1>4, <1>5, <1>6, <1>7, <1>8, <1>9 DEF SystemNext

\* Only a client that connects has a session that was not registered.
LEMMA FewerSessions ==
    ASSUME \/ Quiet
           \/ Retires
           \/ \E k, content : Sends(k, content) \/ Closes(k, content)
           \/ \E k : Drops(k) \/ Receives(k)
    PROVE  /\ Registered' \subseteq Registered
           /\ \A x \in Registered' : gateway_of(x)' = gateway_of(x)
<1>1. CASE Quiet
    BY <1>1 DEF Quiet, Same
<1>2. CASE Retires
    BY <1>2 DEF Retires, Same
<1>3. ASSUME NEW k, NEW content, Sends(k, content)
      PROVE  /\ Registered' \subseteq Registered
             /\ \A x \in Registered' : gateway_of(x)' = gateway_of(x)
    BY <1>3 DEF Sends, Same
<1>4. ASSUME NEW k, NEW content, Closes(k, content)
      PROVE  /\ Registered' \subseteq Registered
             /\ \A x \in Registered' : gateway_of(x)' = gateway_of(x)
    BY <1>4 DEF Closes, Same
<1>5. ASSUME NEW k, Drops(k)
      PROVE  /\ Registered' \subseteq Registered
             /\ \A x \in Registered' : gateway_of(x)' = gateway_of(x)
    BY <1>5 DEF Drops, Same
<1>6. ASSUME NEW k, Receives(k)
      PROVE  /\ Registered' \subseteq Registered
             /\ \A x \in Registered' : gateway_of(x)' = gateway_of(x)
    BY <1>6 DEF Receives, Same
<1> QED BY <1>1, <1>2, <1>3, <1>4, <1>5, <1>6

LEMMA NetworkTypes ==
    ASSUME Inv, QueuesInOrder, NetworkOK, [SystemNext]_system_vars
    PROVE  NetworkOK'
<1>1. /\ MapInto(connections, ClientKey, Connection)
      /\ to_canister \in [DOMAIN connections -> Seq(ClientMessage)]
      /\ polling_nonce \in [Gateway -> Nat]
      /\ polled \in [Gateway -> Seq(Message)]
      /\ Registered \subseteq DOMAIN connections
      /\ \A k \in Registered : gateway_of(k) = connections[k].gateway
      /\ time \in Nat
    BY TimerTypes DEF NetworkOK
<1>2. ASSUME Registered' \subseteq Registered,
             \A x \in Registered' : gateway_of(x)' = gateway_of(x),
             DOMAIN connections' = DOMAIN connections,
             \A x \in DOMAIN connections : connections'[x].gateway = connections[x].gateway,
             MapInto(connections', ClientKey, Connection),
             to_canister' \in [DOMAIN connections -> Seq(ClientMessage)],
             polling_nonce' \in [Gateway -> Nat],
             polled' \in [Gateway -> Seq(Message)]
      PROVE  NetworkOK'
    BY <1>1, <1>2 DEF NetworkOK
<1>3. ASSUME UNCHANGED vars
      PROVE  /\ Registered' \subseteq Registered
             /\ \A x \in Registered' : gateway_of(x)' = gateway_of(x)
             /\ time' = time
  <2>1. Quiet
      BY <1>3, QuietStep DEF vars, gateway_vars
  <2> QED BY <1>3, <2>1, FewerSessions DEF vars
<1>4. CASE CanisterStep
  <2>1. /\ Registered' \subseteq Registered
        /\ \A x \in Registered' : gateway_of(x)' = gateway_of(x)
      BY <1>4, FewerSessions DEF CanisterStep
  <2>2. UNCHANGED <<polling_nonce, polled, connections, to_canister>>
      BY <1>4 DEF CanisterStep, network_vars
  <2>3. MapInto(connections', ClientKey, Connection)
      BY <1>1, <2>2 DEF MapInto
  <2> QED BY <1>1, <1>2, <2>1, <2>2, <2>3
<1>5. ASSUME NEW p, NEW nonce, NEW g, Connects(p, nonce, g)
      PROVE  NetworkOK'
  <2> DEFINE k == [client_principal |-> p, client_nonce |-> nonce]
  <2>1. p \in Principal /\ nonce \in ClientNonce /\ g \in Gateway
        /\ connect(p, nonce, g) /\ Opens(p, nonce, g)
      BY <1>5 DEF Connects
  <2>2. /\ DOMAIN connections' = DOMAIN connections \cup {k}
        /\ MapInto(connections', ClientKey, Connection)
        /\ connections'[k].gateway = g
        /\ \A x \in DOMAIN connections : connections'[x].gateway = connections[x].gateway
        /\ to_canister' \in [DOMAIN connections' -> Seq(ClientMessage)]
        /\ k \notin DOMAIN connections
        /\ polled' = polled
    <3>. p \in Principal /\ nonce \in ClientNonce /\ g \in Gateway
        BY <2>1
    <3>1. NetworkOK /\ time \in Nat /\ connect(p, nonce, g)
        BY <1>1, <2>1
    <3> QED BY <3>1, ConnectEffect
  <2>3. /\ Registered' = (Registered \ sessions_of(p)) \cup {k}
        /\ \A x \in Registered \ sessions_of(p) : gateway_of(x)' = gateway_of(x)
        /\ gateway_of(k)' = g
      BY <2>1 DEF Opens, Same
  <2>4. polling_nonce' \in [Gateway -> Nat]
      BY <1>1, <2>1 DEF connect, INITIAL_OUTGOING_MESSAGE_NONCE
  <2> HIDE DEF k
  <2>5. /\ Registered' \subseteq DOMAIN connections'
        /\ \A x \in Registered' : gateway_of(x)' = connections'[x].gateway
      BY <1>1, <2>2, <2>3
  <2> QED BY <1>1, <2>2, <2>4, <2>5 DEF NetworkOK
<1>6. ASSUME NEW k, client_send(k)
      PROVE  NetworkOK'
    BY <1>1, <1>2, <1>3, <1>6, SendEffect
<1>7. ASSUME NEW k, disconnect(k)
      PROVE  NetworkOK'
    BY <1>1, <1>2, <1>3, <1>7, DisconnectEffect
<1>8. ASSUME NEW k, Delivers(k)
      PROVE  NetworkOK'
  <2>1. /\ k \in DOMAIN connections /\ to_canister[k] # << >>
        /\ to_canister' = [to_canister EXCEPT ![k] = Tail(@)]
        /\ UNCHANGED <<polling_nonce, polled, connections>>
        /\ Receives(k) \/ (\E content : Closes(k, content)) \/ Quiet
      BY <1>8 DEF Delivers
  <2>2. /\ Registered' \subseteq Registered
        /\ \A x \in Registered' : gateway_of(x)' = gateway_of(x)
      BY <2>1, FewerSessions
  <2>3. Tail(to_canister[k]) \in Seq(ClientMessage)
      BY <1>1, <2>1, HeadTailProperties
  <2>4. to_canister' \in [DOMAIN connections -> Seq(ClientMessage)]
      BY <1>1, <2>1, <2>3
  <2>5. MapInto(connections', ClientKey, Connection)
      BY <1>1, <2>1 DEF MapInto
  <2> QED BY <1>1, <1>2, <2>1, <2>2, <2>4, <2>5
<1>9. ASSUME NEW g \in Gateway, poll(g)
      PROVE  NetworkOK'
  <2> DEFINE gw == REGISTERED_GATEWAYS[g]
             queue == gw.messages_queue
  <2>1. /\ g \in DOMAIN REGISTERED_GATEWAYS
        /\ UNCHANGED <<vars, connections, to_canister>>
        /\ DOMAIN polled' = Gateway /\ DOMAIN polling_nonce' = Gateway
        /\ \A x \in Gateway :
               x # g => polled'[x] = polled[x] /\ polling_nonce'[x] = polling_nonce[x]
      BY <1>9, PollEffect
  <2>2. PICK s, e :
            /\ s \in 0..Len(queue) /\ e \in s + 1..Len(queue)
            /\ polled'[g] = SubSeq(queue, s + 1, e)
            /\ polling_nonce'[g] = nonce_at(gw, e) + 1
      BY <1>9, PollEffect
  <2>3. /\ queue \in Seq(Message) /\ Len(queue) \in Nat /\ gw.outgoing_message_nonce \in Nat
        /\ Len(queue) <= gw.outgoing_message_nonce
      BY <2>1, NonceAt DEF QueuesInOrder, QueueInOrder
  <2>4. polled'[g] \in Seq(Message)
    <3>1. \A i \in s + 1..e : queue[i] \in Message
        BY <2>2, <2>3, ElementOfSeq
    <3> QED BY <2>2, <3>1, SubSeqProperties
  <2>5. polling_nonce'[g] \in Nat
      BY <2>2, <2>3 DEF nonce_at
  <2>6. polled' \in [Gateway -> Seq(Message)] /\ polling_nonce' \in [Gateway -> Nat]
    <3>1. (\A x \in Gateway : polled'[x] \in Seq(Message) /\ polling_nonce'[x] \in Nat)
        BY <1>1, <2>1, <2>4, <2>5
    <3>2. polled' = [x \in Gateway |-> polled'[x]]
          /\ polling_nonce' = [x \in Gateway |-> polling_nonce'[x]]
        BY <1>9, <2>1, <1>1 DEF poll
    <3> QED BY <3>1, <3>2
  <2>7. MapInto(connections', ClientKey, Connection)
      BY <1>1, <2>1 DEF MapInto
  <2> QED BY <1>1, <1>2, <1>3, <2>1, <2>6, <2>7
<1>10. ASSUME NEW g \in Gateway, relay(g)
       PROVE  NetworkOK'
  <2> DEFINE k == Head(polled[g]).client_key
  <2>1. /\ polled' \in [Gateway -> Seq(Message)]
        /\ UNCHANGED <<vars, polling_nonce>>
        /\ DOMAIN connections' = DOMAIN connections
        /\ MapInto(connections', ClientKey, Connection)
        /\ to_canister' \in [DOMAIN connections -> Seq(ClientMessage)]
      BY <1>1, <1>10, RelayEffect
  <2>2. /\ \A x \in DOMAIN connections : x # k => connections'[x] = connections[x]
        /\ ~is_open(k) => connections' = connections
        /\ is_open(k) => connections'[k].gateway = connections[k].gateway
      BY <1>1, <1>10, RelayEffect
  <2> HIDE DEF k
  <2>3. \A x \in DOMAIN connections : connections'[x].gateway = connections[x].gateway
      BY <2>2
  <2> QED BY <1>1, <1>2, <1>3, <2>1, <2>3
<1>11. CASE Ticks
  <2>1. /\ Registered' \subseteq Registered
        /\ \A x \in Registered' : gateway_of(x)' = gateway_of(x)
      BY <1>11, FewerSessions DEF Ticks
  <2>2. UNCHANGED <<polling_nonce, polled, connections, to_canister>>
      BY <1>11 DEF Ticks, network_vars
  <2>3. MapInto(connections', ClientKey, Connection)
      BY <1>1, <2>2 DEF MapInto
  <2> QED BY <1>1, <1>2, <2>1, <2>2, <2>3
<1> QED BY <1>4, <1>5, <1>6, <1>7, <1>8, <1>9, <1>10, <1>11, SystemSteps

----------------------------------------------------------------------------
(***************************************************************************)
(* The two ends agree in their counts.                                     *)
(***************************************************************************)

\* The messages of a client that sent n of them, from number next on.
Counts(seq, next, n) ==
    /\ next + Len(seq) = n + 1
    /\ \A i \in 1..Len(seq) : seq[i].sequence_num = next + i - 1

CountInv == \A k \in Registered : Counts(to_canister[k], next_number(k), connections[k].sent)

LEMMA Counting ==
    ASSUME NEW seq \in Seq(ClientMessage), NEW next \in Nat, NEW n \in Nat, Counts(seq, next, n)
    PROVE  /\ \A m \in ClientMessage :
                  m.sequence_num = n + 1 => Counts(Append(seq, m), next, n + 1)
           /\ seq # << >> => /\ Head(seq).sequence_num = next
                             /\ Counts(Tail(seq), next + 1, n)
<1> DEFINE len == Len(seq)
<1>1. /\ len \in Nat /\ next + len = n + 1
      /\ \A i \in 1..len : seq[i].sequence_num = next + i - 1
  <2>1. len \in Nat
      OBVIOUS
  <2> QED BY <2>1 DEF Counts
<1>2. ASSUME NEW m \in ClientMessage, m.sequence_num = n + 1
      PROVE  Counts(Append(seq, m), next, n + 1)
  <2> DEFINE new == Append(seq, m)
  <2>1. /\ Len(new) = len + 1 /\ new[len + 1] = m
        /\ \A i \in 1..len : new[i] = seq[i]
      BY AppendProperties
  <2> HIDE DEF new, len
  <2>2. next + (len + 1) = n + 1 + 1
      BY <1>1
  <2>3. ASSUME NEW i \in 1..len + 1
        PROVE  new[i].sequence_num = next + i - 1
    <3>1. CASE i \in 1..len
        BY <1>1, <2>1, <3>1
    <3>2. CASE i = len + 1
        BY <1>1, <1>2, <2>1, <3>2
    <3> QED BY <1>1, <3>1, <3>2
  <2> QED BY <2>1, <2>2, <2>3 DEF Counts, new
<1>3. ASSUME seq # << >>
      PROVE  Head(seq).sequence_num = next /\ Counts(Tail(seq), next + 1, n)
  <2> DEFINE rest == Tail(seq)
  <2>1. /\ len # 0 /\ Head(seq) = seq[1] /\ Len(rest) = len - 1
        /\ \A i \in 1..Len(rest) : rest[i] = seq[i + 1]
    <3>1. Len(rest) = len - 1 /\ \A i \in 1..Len(rest) : rest[i] = seq[i + 1]
        BY <1>3, HeadTailProperties
    <3>2. len # 0
        BY <1>3, EmptySeq
    <3> QED BY <3>1, <3>2
  <2> HIDE DEF rest, len
  <2>2. Head(seq).sequence_num = next
      BY <1>1, <2>1
  <2>3. next + 1 + (len - 1) = n + 1
      BY <1>1
  <2>4. ASSUME NEW i \in 1..len - 1
        PROVE  rest[i].sequence_num = next + 1 + i - 1
    <3>1. i + 1 \in 1..len /\ next + (i + 1) - 1 = next + 1 + i - 1
        BY <1>1
    <3> QED BY <1>1, <2>1, <3>1
  <2> QED BY <2>1, <2>2, <2>3, <2>4 DEF Counts, rest
<1> QED BY <1>2, <1>3

\* What the canister sends, and whom it ends the session of, changes no count of what
\* it has received.
LEMMA SameNumbers ==
    ASSUME \/ Quiet
           \/ Retires
           \/ \E k, content : Sends(k, content) \/ Closes(k, content)
           \/ \E k : Drops(k)
    PROVE  Registered' \subseteq Registered
           /\ \A x \in Registered' : next_number(x)' = next_number(x)
<1>1. CASE Quiet \/ Retires
    BY <1>1 DEF Quiet, Retires, Same
<1>2. ASSUME NEW k, NEW content, Sends(k, content)
      PROVE  Registered' \subseteq Registered
             /\ \A x \in Registered' : next_number(x)' = next_number(x)
    BY <1>2 DEF Sends, Same
<1>3. ASSUME NEW k, NEW content, Closes(k, content) \/ Drops(k)
      PROVE  Registered' \subseteq Registered
             /\ \A x \in Registered' : next_number(x)' = next_number(x)
    BY <1>3 DEF Closes, Drops, Same
<1> QED BY <1>1, <1>2, <1>3

LEMMA CountsInductive ==
    ASSUME Inv, QueuesInOrder, NetworkOK, CountInv, [SystemNext]_system_vars
    PROVE  CountInv'
<1>1. /\ \A k \in DOMAIN connections :
             to_canister[k] \in Seq(ClientMessage) /\ connections[k].sent \in Nat
      /\ \A k \in Registered : k \in DOMAIN connections /\ next_number(k) \in Nat
      /\ to_canister \in [DOMAIN connections -> Seq(ClientMessage)]
      /\ time \in Nat
  <2>1. \A k \in DOMAIN connections : connections[k] \in Connection
      BY DEF NetworkOK, MapInto
  <2>2. \A k \in Registered : next_number(k) \in Nat
      BY ClientMaps DEF Registered, next_number, MapInto
  <2> QED BY <2>1, <2>2, TimerTypes DEF NetworkOK, Connection
<1>2. ASSUME Registered' \subseteq Registered,
             \A x \in Registered' : next_number(x)' = next_number(x),
             UNCHANGED <<connections, to_canister>>
      PROVE  CountInv'
    BY <1>2 DEF CountInv
<1>3. ASSUME UNCHANGED vars
      PROVE  Registered' = Registered /\ \A x \in Registered : next_number(x)' = next_number(x)
  <2>1. Quiet
      BY <1>3, QuietStep DEF vars, gateway_vars
  <2> QED BY <2>1 DEF Quiet, Same
<1>4. CASE CanisterStep
    BY <1>2, <1>4, SameNumbers DEF CanisterStep, network_vars
<1>5. ASSUME NEW p, NEW nonce, NEW g, Connects(p, nonce, g)
      PROVE  CountInv'
  <2> DEFINE k == [client_principal |-> p, client_nonce |-> nonce]
  <2>1. /\ p \in Principal /\ nonce \in ClientNonce /\ g \in Gateway
        /\ connect(p, nonce, g) /\ Opens(p, nonce, g)
      BY <1>5 DEF Connects
  <2>2. /\ k \notin DOMAIN connections
        /\ connections'[k].sent = 0 /\ to_canister'[k] = << >>
        /\ \A x \in DOMAIN connections :
               connections'[x].sent = connections[x].sent /\ to_canister'[x] = to_canister[x]
    <3>. p \in Principal /\ nonce \in ClientNonce /\ g \in Gateway
        BY <2>1
    <3>1. NetworkOK /\ time \in Nat /\ connect(p, nonce, g)
        BY <1>1, <2>1
    <3> QED BY <3>1, ConnectEffect
  <2>3. /\ Registered' = (Registered \ sessions_of(p)) \cup {k}
        /\ \A x \in Registered \ sessions_of(p) : next_number(x)' = next_number(x)
        /\ next_number(k)' = 1
      BY <2>1 DEF Opens, Same
  <2> HIDE DEF k
  <2>4. \A x \in Registered \ sessions_of(p) :
            Counts(to_canister[x], next_number(x), connections[x].sent)'
      BY <1>1, <2>2, <2>3 DEF CountInv
  <2>5. Counts(to_canister[k], next_number(k), connections[k].sent)'
      BY <2>2, <2>3, EmptySeq DEF Counts
  <2> QED BY <2>3, <2>4, <2>5 DEF CountInv
<1>6. ASSUME NEW k, client_send(k)
      PROVE  CountInv'
  <2>1. /\ is_open(k) /\ UNCHANGED vars
        /\ \A x \in DOMAIN connections :
               x # k => connections'[x].sent = connections[x].sent
                        /\ to_canister'[x] = to_canister[x]
        /\ connections'[k].sent = connections[k].sent + 1
        /\ to_canister'[k] = Append(to_canister[k], client_message(k, "Application"))
      BY <1>1, <1>6, SendEffect
  <2>2. /\ client_message(k, "Application") \in ClientMessage
        /\ client_message(k, "Application").sequence_num = connections[k].sent + 1
      BY <1>1, <2>1 DEF is_open, client_message, ClientMessage
  <2>3. k \in Registered => Counts(to_canister[k], next_number(k), connections[k].sent)'
      BY <1>1, <1>3, <2>1, <2>2, Counting DEF CountInv
  <2>4. \A x \in Registered \ {k} : Counts(to_canister[x], next_number(x), connections[x].sent)'
      BY <1>1, <1>3, <2>1 DEF CountInv
  <2> QED BY <1>3, <2>1, <2>3, <2>4 DEF CountInv
<1>7. ASSUME NEW k, disconnect(k)
      PROVE  CountInv'
  <2>1. /\ UNCHANGED <<vars, to_canister>>
        /\ \A x \in DOMAIN connections : connections'[x].sent = connections[x].sent
      BY <1>7, DisconnectEffect
  <2> QED BY <1>1, <1>3, <2>1 DEF CountInv
<1>8. ASSUME NEW k, Delivers(k)
      PROVE  CountInv'
  <2>1. /\ k \in DOMAIN connections /\ to_canister[k] # << >>
        /\ to_canister' = [to_canister EXCEPT ![k] = Tail(@)]
        /\ connections' = connections
        /\ Receives(k) \/ (\E content : Closes(k, content)) \/ (k \notin Registered /\ Quiet)
      BY <1>8 DEF Delivers
  <2>2. /\ to_canister'[k] = Tail(to_canister[k])
        /\ \A x \in DOMAIN connections : x # k => to_canister'[x] = to_canister[x]
      BY <1>1, <2>1
  <2>3. CASE Receives(k)
    <3>1. /\ k \in Registered /\ Registered' = Registered
          /\ next_number(k)' = next_number(k) + 1
          /\ \A x \in Registered \ {k} : next_number(x)' = next_number(x)
        BY <2>3 DEF Receives, Same
    <3>2. Counts(to_canister[k], next_number(k), connections[k].sent)'
        BY <1>1, <2>1, <2>2, <3>1, Counting DEF CountInv
    <3>3. \A x \in Registered \ {k} : Counts(to_canister[x], next_number(x), connections[x].sent)'
        BY <1>1, <2>1, <2>2, <3>1 DEF CountInv
    <3> QED BY <3>1, <3>2, <3>3 DEF CountInv
  <2>4. CASE (\E content : Closes(k, content)) \/ (k \notin Registered /\ Quiet)
    <3>1. /\ Registered' = Registered \ {k}
          /\ \A x \in Registered' : next_number(x)' = next_number(x)
        BY <2>4 DEF Closes, Quiet, Same
    <3> QED BY <1>1, <2>1, <2>2, <3>1 DEF CountInv
  <2> QED BY <2>1, <2>3, <2>4
<1>9. ASSUME NEW g \in Gateway, poll(g)
      PROVE  CountInv'
  <2>1. UNCHANGED <<vars, connections, to_canister>>
      BY <1>9, PollEffect
  <2> QED BY <1>2, <1>3, <2>1
<1>10. ASSUME NEW g \in Gateway, relay(g)
       PROVE  CountInv'
  <2> DEFINE m == Head(polled[g])
  <2>0. PICK k : k = m.client_key
      OBVIOUS
  <2>1. UNCHANGED vars
      BY <1>1, <1>10, <2>0, RelayEffect
  <2>2. /\ \A x \in DOMAIN connections :
               x # k => connections'[x] = connections[x] /\ to_canister'[x] = to_canister[x]
        /\ ~is_open(k) => connections' = connections /\ to_canister' = to_canister
      BY <1>1, <1>10, <2>0, RelayEffect
  <2>3. is_open(k) /\ m.content.kind = "AckMessage" =>
            /\ connections'[k].sent = connections[k].sent + 1
            /\ to_canister'[k] = Append(to_canister[k], client_message(k, "KeepAlive"))
      BY <1>1, <1>10, <2>0, RelayEffect
  <2>4. is_open(k) /\ m.content.kind # "AckMessage" =>
            /\ connections'[k].sent = connections[k].sent
            /\ to_canister'[k] = to_canister[k]
      BY <1>1, <1>10, <2>0, RelayEffect
  <2> HIDE DEF m
  <2>5. k \in Registered => /\ client_message(k, "KeepAlive") \in ClientMessage
                            /\ client_message(k, "KeepAlive").sequence_num = connections[k].sent + 1
      BY <1>1 DEF client_message, ClientMessage
  <2>6. k \in Registered => Counts(to_canister[k], next_number(k), connections[k].sent)'
    <3> SUFFICES ASSUME k \in Registered
                 PROVE  Counts(to_canister[k], next_number(k), connections[k].sent)'
        OBVIOUS
    <3>1. /\ Counts(to_canister[k], next_number(k), connections[k].sent)
          /\ to_canister[k] \in Seq(ClientMessage) /\ connections[k].sent \in Nat
          /\ next_number(k) \in Nat /\ next_number(k)' = next_number(k)
        BY <1>1, <1>3, <2>1 DEF CountInv
    <3>2. CASE is_open(k) /\ m.content.kind = "AckMessage"
      <4>1. Counts(Append(to_canister[k], client_message(k, "KeepAlive")), next_number(k),
                   connections[k].sent + 1)
          BY <2>5, <3>1, Counting
      <4> QED BY <2>3, <3>1, <3>2, <4>1
    <3>3. CASE is_open(k) /\ m.content.kind # "AckMessage"
        BY <2>4, <3>1, <3>3
    <3>4. CASE ~is_open(k)
        BY <2>2, <3>1, <3>4
    <3> QED BY <3>2, <3>3, <3>4
  <2>7. \A x \in Registered \ {k} : Counts(to_canister[x], next_number(x), connections[x].sent)'
      BY <1>1, <1>3, <2>1, <2>2 DEF CountInv
  <2>8. Registered' = Registered
      BY <1>3, <2>1
  <2> QED BY <2>6, <2>7, <2>8 DEF CountInv
<1>11. CASE Ticks
    BY <1>2, <1>11, SameNumbers DEF Ticks, network_vars
<1> QED BY <1>4, <1>5, <1>6, <1>7, <1>8, <1>9, <1>10, <1>11, SystemSteps

LEMMA NetworkAtStart == SystemInit => Init /\ NetworkOK /\ CountInv
<1> SUFFICES ASSUME SystemInit PROVE NetworkOK /\ CountInv
    BY DEF SystemInit
<1>1. /\ REGISTERED_CLIENTS = EmptyMap
      /\ polling_nonce = [g \in Gateway |-> 0] /\ polled = [g \in Gateway |-> << >>]
      /\ connections = EmptyMap /\ to_canister = EmptyMap
    BY DEF SystemInit, Init, INITIAL_OUTGOING_MESSAGE_NONCE
<1>2. Registered = {} /\ DOMAIN EmptyMap = {}
    BY <1>1 DEF Registered, EmptyMap
<1>3. MapInto(connections, ClientKey, Connection)
    BY <1>1 DEF MapInto, EmptyMap
<1>4. to_canister \in [DOMAIN connections -> Seq(ClientMessage)]
    BY <1>1 DEF EmptyMap
<1>5. << >> \in Seq(Message) /\ polled \in [Gateway -> Seq(Message)]
      /\ polling_nonce \in [Gateway -> Nat]
    BY <1>1
<1> QED BY <1>2, <1>3, <1>4, <1>5 DEF NetworkOK, CountInv

\* Seen without its network, the canister does what WsCdk says.
LEMMA SystemIsCdk == SystemSpec => Spec /\ [](NetworkOK /\ CountInv)
<1>1. Inv /\ QueuesInOrder /\ NetworkOK /\ CountInv /\ [SystemNext]_system_vars
          => [Next]_vars /\ NetworkOK' /\ CountInv'
    BY SystemSteps, NetworkTypes, CountsInductive
<1>2. Init => Inv /\ QueuesInOrder
    BY InvAtStart, Empty DEF Init, QueuesInOrder
<1>3. Inv /\ QueuesInOrder /\ [Next]_vars => Inv' /\ QueuesInOrder'
    BY InvInductive, OrderInductive
<1> QED BY <1>1, <1>2, <1>3, NetworkAtStart, PTL DEF SystemSpec, Spec

\* The number the canister expects of a client is that of the first message it has not
\* got: with what is on its way it makes up all the client has sent, keep alives
\* included, also across messages that are refused and sessions that are replaced.  So
\* no client that counts its messages is closed with WrongSequenceNumber.
THEOREM CountsStayEqual == SystemSpec => []CountsAgree
<1>1. CountInv => CountsAgree
    BY DEF CountInv, Counts, CountsAgree, Registered, next_number
<1> QED BY <1>1, SystemIsCdk, PTL

----------------------------------------------------------------------------
(***************************************************************************)
(* What a gateway has to relay: what it has polled, and of its log what is *)
(* from the nonce of its next poll on.                                     *)
(***************************************************************************)

IsLog(log) == log.start \in Nat /\ log.messages \in Seq(Message)
next_nonce(log) == log.start + Len(log.messages)

\* How many messages of the log are before the nonce.
skipped(log, nonce) == IF nonce <= log.start THEN 0 ELSE nonce - log.start

rest_of(log, nonce) == SubSeq(log.messages, skipped(log, nonce) + 1, Len(log.messages))

LEMMA Skipped ==
    ASSUME NEW log, IsLog(log), NEW nonce \in Nat, nonce <= next_nonce(log)
    PROVE  /\ skipped(log, nonce) \in 0..Len(log.messages)
           /\ rest_of(log, nonce) \in Seq(Message)
           /\ Len(rest_of(log, nonce)) = Len(log.messages) - skipped(log, nonce)
           /\ \A i \in 1..Len(log.messages) - skipped(log, nonce) :
                  rest_of(log, nonce)[i] = log.messages[i + skipped(log, nonce)]
<1>1. log.messages \in Seq(Message) /\ Len(log.messages) \in Nat /\ log.start \in Nat
    BY DEF IsLog
<1>2. skipped(log, nonce) \in 0..Len(log.messages)
    BY <1>1 DEF skipped, next_nonce
<1> QED BY <1>1, <1>2, Suffix DEF rest_of

\* A message of the log that is not skipped is among those to relay.
LEMMA InRest ==
    ASSUME NEW log, IsLog(log), NEW nonce \in Nat, nonce <= next_nonce(log),
           NEW read \in Seq(Message), NEW i \in skipped(log, nonce) + 1..Len(log.messages)
    PROVE  \E j \in places(read \o rest_of(log, nonce), log.messages[i].client_key) :
               (read \o rest_of(log, nonce))[j] = log.messages[i]
<1> DEFINE s == skipped(log, nonce)
           len == Len(log.messages)
           p == Len(read)
           rest == rest_of(log, nonce)
           n == len - s
<1>1. /\ s \in 0..len /\ len \in Nat /\ p \in Nat
      /\ rest \in Seq(Message) /\ Len(rest) = n
      /\ \A h \in 1..n : rest[h] = log.messages[h + s]
    BY Skipped DEF IsLog
<1>2. i \in s + 1..len
    OBVIOUS
<1> HIDE DEF s, len, rest
<1>3. n \in Nat /\ i - s \in 1..n /\ i - s + s = i
    BY <1>1, <1>2
<1> DEFINE q == p + (i - s)
<1> HIDE DEF n, p
<1>4. /\ Len(read \o rest) = p + n
      /\ \A h \in 1..p + n : (read \o rest)[h] = IF h <= p THEN read[h] ELSE rest[h - p]
    BY <1>1, ConcatProperties DEF p
<1>5. q \in 1..p + n /\ ~(q <= p) /\ q - p = i - s
    BY <1>1, <1>2, <1>3
<1> HIDE DEF q
<1>6. (read \o rest)[q] = log.messages[i]
  <2>1. (read \o rest)[q] = rest[i - s]
      BY <1>4, <1>5
  <2>2. rest[i - s] = log.messages[i - s + s]
      BY <1>1, <1>3
  <2> QED BY <1>3, <2>1, <2>2
<1> QED BY <1>4, <1>5, <1>6 DEF places, rest

\* The log after d messages were forgotten and m was added.
pushed(log, d, m) ==
    [start    |-> log.start + d,
     messages |-> Append(SubSeq(log.messages, d + 1, Len(log.messages)), m)]

LEMMA PushedRest ==
    ASSUME NEW log, IsLog(log), NEW nonce \in Nat, nonce <= next_nonce(log),
           NEW d \in 0..Len(log.messages), NEW m \in Message
    PROVE  LET new == pushed(log, d, m)
           IN  /\ IsLog(new) /\ nonce <= next_nonce(new)
               /\ \A i \in 1..Len(new.messages) :
                      \/ new.messages[i] = m
                      \/ \E j \in 1..Len(log.messages) : new.messages[i] = log.messages[j]
               /\ \E c \in skipped(log, nonce)..Len(log.messages) :
                      /\ \A i \in skipped(log, nonce) + 1..c : i \in 1..d
                      /\ rest_of(new, nonce)
                             = Append(SubSeq(log.messages, c + 1, Len(log.messages)), m)
<1> DEFINE queue == log.messages
           len == Len(queue)
           start == log.start
           tail == SubSeq(queue, d + 1, len)
           l == len - d
           new == pushed(log, d, m)
           s == skipped(log, nonce)
           t == skipped(new, nonce)
           c == d + t
<1>1. /\ queue \in Seq(Message) /\ len \in Nat /\ start \in Nat /\ d \in 0..len
      /\ nonce <= start + len
    BY DEF IsLog, next_nonce
<1>2. /\ tail \in Seq(Message) /\ Len(tail) = l
      /\ \A i \in 1..l : tail[i] = queue[i + d]
    BY <1>1, Suffix
<1>3. new.start = start + d /\ new.messages = Append(tail, m)
    BY DEF pushed
<1>4. s = IF nonce <= start THEN 0 ELSE nonce - start
    BY DEF skipped
<1>5. t = IF nonce <= start + d THEN 0 ELSE nonce - (start + d)
    BY <1>3 DEF skipped
<1> HIDE DEF new, s, t, start, queue
<1>6. rest_of(new, nonce) = SubSeq(new.messages, t + 1, Len(new.messages))
    BY DEF rest_of, t
<1> HIDE DEF tail, len
<1>7. /\ l \in Nat /\ t \in 0..l /\ c \in s..len /\ s \in Nat
      /\ \A i \in s + 1..c : i \in 1..d
    BY <1>1, <1>4, <1>5
<1> HIDE DEF l
<1>8. /\ new.messages \in Seq(Message) /\ Len(new.messages) = l + 1
      /\ new.messages[l + 1] = m
      /\ \A i \in 1..l : new.messages[i] = tail[i]
    BY <1>2, <1>3, AppendProperties
<1>9. IsLog(new) /\ nonce <= next_nonce(new)
  <2>1. start + d + (l + 1) = start + len + 1
      BY <1>1 DEF l
  <2> QED BY <1>1, <1>3, <1>8, <2>1 DEF IsLog, next_nonce
<1>10. ASSUME NEW i \in 1..Len(new.messages)
       PROVE  new.messages[i] = m \/ \E j \in 1..len : new.messages[i] = queue[j]
  <2>1. CASE i = l + 1
      BY <1>8, <2>1
  <2>2. CASE i \in 1..l
    <3>1. i + d \in 1..len
        BY <1>1, <2>2 DEF l
    <3> QED BY <1>2, <1>8, <2>2, <3>1
  <2> QED BY <1>7, <1>8, <2>1, <2>2
<1>11. rest_of(new, nonce) = Append(SubSeq(queue, c + 1, len), m)
  <2> DEFINE total == Len(new.messages)
             left  == SubSeq(new.messages, t + 1, total)
             right == SubSeq(queue, c + 1, len)
             n == l - t
  <2>1. /\ n \in Nat /\ len - c = n /\ total - t = n + 1 /\ n + 1 + t = total
        /\ c \in 0..len /\ t \in 0..total /\ total = l + 1
      BY <1>1, <1>7, <1>8 DEF l
  <2>2. /\ left \in Seq(Message) /\ Len(left) = total - t
        /\ \A i \in 1..total - t : left[i] = new.messages[i + t]
      BY <1>8, <2>1, Suffix
  <2>3. /\ right \in Seq(Message) /\ Len(right) = len - c
        /\ \A i \in 1..len - c : right[i] = queue[i + c]
      BY <1>1, <2>1, Suffix DEF len
  <2> HIDE DEF left, right, total, n
  <2>4. /\ Append(right, m) \in Seq(Message) /\ Len(Append(right, m)) = n + 1
        /\ Append(right, m)[n + 1] = m
        /\ \A i \in 1..n : Append(right, m)[i] = right[i]
      BY <2>1, <2>3, AppendProperties
  <2>5. ASSUME NEW i \in 1..n + 1
        PROVE  left[i] = Append(right, m)[i]
    <3>1. left[i] = new.messages[i + t]
        BY <2>1, <2>2
    <3>2. CASE i = n + 1
      <4>1. left[i] = new.messages[l + 1]
          BY <2>1, <3>1, <3>2
      <4>2. Append(right, m)[i] = m
          BY <2>4, <3>2, Zenon
      <4> QED BY <1>8, <4>1, <4>2
    <3>3. CASE i \in 1..n
      <4>1. i + t \in 1..l /\ i + t + d = i + c
          BY <1>1, <1>7, <2>1, <3>3
      <4>2. left[i] = queue[i + t + d]
          BY <1>2, <1>8, <3>1, <4>1
      <4>3. right[i] = queue[i + c]
          BY <2>1, <2>3, <3>3
      <4>4. queue[i + t + d] = queue[i + c]
          BY <4>1
      <4>5. Append(right, m)[i] = right[i]
          BY <2>4, <3>3, Zenon
      <4> QED BY <4>2, <4>3, <4>4, <4>5, Zenon
    <3>4. i = n + 1 \/ i \in 1..n
        BY <2>1
    <3> QED BY <3>2, <3>3, <3>4, Zenon
  <2>6. Len(left) = Len(Append(right, m))
      BY <2>1, <2>2, <2>4
  <2>7. left = Append(right, m)
    <3>1. Len(left) = n + 1
        BY <2>1, <2>2
    <3>2. \A i \in 1..Len(left) : left[i] = Append(right, m)[i]
        BY <2>5, <3>1
    <3> QED BY <2>2, <2>4, <2>6, <3>2, SeqEqual
  <2> QED BY <1>6, <2>7 DEF left, right, total
<1> QED BY <1>7, <1>9, <1>10, <1>11 DEF new, s, queue, len

\* No gateway will poll from after the nonce its next message gets.
CursorInv == \A g \in DOMAIN Logs : polling_nonce[g] <= next_nonce(Logs[g])

LEMMA LogsAreLogs ==
    ASSUME Inv, QueuesInOrder
    PROVE  /\ DOMAIN Logs = DOMAIN REGISTERED_GATEWAYS /\ DOMAIN Logs \subseteq Gateway
           /\ \A g \in DOMAIN Logs :
                  LET gw == REGISTERED_GATEWAYS[g]
                  IN  /\ IsLog(Logs[g]) /\ Logs[g].messages = gw.messages_queue
                      /\ \A i \in Int : nonce_at(gw, i) = Logs[g].start + i - 1
                      /\ next_nonce(Logs[g]) = gw.outgoing_message_nonce
<1>1. DOMAIN Logs = DOMAIN REGISTERED_GATEWAYS /\ DOMAIN Logs \subseteq Gateway
    BY LogTypes DEF Inv, StateInv, MapsOK, GatewaysOK, MapInto
<1>2. ASSUME NEW g \in DOMAIN Logs
      PROVE  LET gw == REGISTERED_GATEWAYS[g]
             IN  /\ IsLog(Logs[g]) /\ Logs[g].messages = gw.messages_queue
                 /\ \A i \in Int : nonce_at(gw, i) = Logs[g].start + i - 1
                 /\ next_nonce(Logs[g]) = gw.outgoing_message_nonce
  <2> DEFINE gw == REGISTERED_GATEWAYS[g]
             len == Len(gw.messages_queue)
  <2>1. Logs[g].start = gw.outgoing_message_nonce - len /\ Logs[g].messages = gw.messages_queue
      BY <1>1 DEF Logs, logs_of, log_of
  <2>2. gw.messages_queue \in Seq(Message) /\ len \in Nat /\ gw.outgoing_message_nonce \in Nat
      BY <1>1, NonceAt
  <2>3. len <= gw.outgoing_message_nonce
      BY <1>1 DEF QueuesInOrder, QueueInOrder
  <2>4. \A i \in Int : nonce_at(gw, i) = gw.outgoing_message_nonce - len + i - 1
      BY DEF nonce_at
  <2>5. Len(Logs[g].messages) = len
      BY <2>1
  <2> HIDE DEF len, gw
  <2>6. IsLog(Logs[g]) /\ next_nonce(Logs[g]) = gw.outgoing_message_nonce
      BY <2>1, <2>2, <2>3, <2>5 DEF IsLog, next_nonce
  <2> QED BY <2>1, <2>4, <2>6 DEF gw
<1> QED BY <1>1, <1>2

\* Where a poll starts in a log.
LEMMA PollSkips ==
    ASSUME Inv, QueuesInOrder, NEW g \in DOMAIN Logs,
           NEW nonce \in Nat, nonce <= next_nonce(Logs[g])
    PROVE  start_index(REGISTERED_GATEWAYS[g], nonce) = skipped(Logs[g], nonce)
<1> DEFINE gw == REGISTERED_GATEWAYS[g]
           start == Logs[g].start
           len == Len(gw.messages_queue)
           s == start_index(gw, nonce)
<1>1. /\ start \in Nat /\ len \in Nat /\ nonce <= start + len
      /\ \A i \in Int : nonce_at(gw, i) = start + i - 1
  <2>1. IsLog(Logs[g]) /\ Logs[g].messages = gw.messages_queue
        /\ \A i \in Int : nonce_at(gw, i) = start + i - 1
      BY LogsAreLogs
  <2> QED BY SMTT(30), <2>1 DEF IsLog, next_nonce
<1>2. /\ s \in 0..len
      /\ \A i \in 1..s : nonce_at(gw, i) < nonce
      /\ \A i \in s + 1..len : nonce_at(gw, i) >= nonce
  <2>1. g \in DOMAIN REGISTERED_GATEWAYS
      BY LogsAreLogs
  <2> QED BY <2>1, NonceAt, StartIndex
<1>3. skipped(Logs[g], nonce) = IF nonce <= start THEN 0 ELSE nonce - start
    BY DEF skipped
<1> HIDE DEF gw, start, len, s
<1>4. CASE nonce <= start
  <2>1. ASSUME s # 0
        PROVE  FALSE
    <3>1. 1 \in 1..s /\ 1 \in Int
        BY <1>2, <2>1
    <3> QED BY <1>1, <1>2, <1>4, <3>1
  <2> QED BY <1>3, <1>4, <2>1 DEF s, gw
<1>5. CASE ~(nonce <= start)
  <2> DEFINE t == nonce - start
  <2>1. t \in 1..len /\ start + t - 1 = nonce - 1 /\ start + (t + 1) - 1 = nonce
      BY <1>1, <1>5
  <2> HIDE DEF t
  <2>2. ASSUME s < t
        PROVE  FALSE
    <3>1. t \in s + 1..len /\ t \in Int /\ nonce_at(gw, t) = nonce - 1
        BY <1>1, <1>2, <2>1, <2>2
    <3> QED BY <1>2, <3>1
  <2>3. ASSUME t < s
        PROVE  FALSE
    <3>1. t + 1 \in 1..s /\ t + 1 \in Int /\ nonce_at(gw, t + 1) = nonce
        BY <1>1, <1>2, <2>1, <2>3
    <3> QED BY <1>2, <3>1
  <2>4. s = t
      BY <1>2, <2>1, <2>2, <2>3
  <2> QED BY <1>3, <1>5, <2>4 DEF s, t, gw
<1> QED BY <1>4, <1>5

LEMMA ToRelay ==
    Inv /\ QueuesInOrder /\ NetworkOK /\ CursorInv =>
        \A g \in DOMAIN Logs :
            /\ to_relay(g) = polled[g] \o rest_of(Logs[g], polling_nonce[g])
            /\ IsLog(Logs[g]) /\ g \in Gateway
            /\ polled[g] \in Seq(Message) /\ polling_nonce[g] \in Nat
            /\ polling_nonce[g] <= next_nonce(Logs[g])
            /\ to_relay(g) \in Seq(Message) /\ Len(to_relay(g)) \in Nat
<1> SUFFICES ASSUME Inv, QueuesInOrder, NetworkOK, CursorInv, NEW g \in DOMAIN Logs
             PROVE  /\ to_relay(g) = polled[g] \o rest_of(Logs[g], polling_nonce[g])
                    /\ IsLog(Logs[g]) /\ g \in Gateway
                    /\ polled[g] \in Seq(Message) /\ polling_nonce[g] \in Nat
                    /\ polling_nonce[g] <= next_nonce(Logs[g])
                    /\ to_relay(g) \in Seq(Message) /\ Len(to_relay(g)) \in Nat
    OBVIOUS
<1>1. /\ g \in DOMAIN REGISTERED_GATEWAYS /\ g \in Gateway /\ IsLog(Logs[g])
      /\ Logs[g].messages = REGISTERED_GATEWAYS[g].messages_queue
    BY LogsAreLogs
<1>2. /\ polled[g] \in Seq(Message) /\ polling_nonce[g] \in Nat
      /\ polling_nonce[g] <= next_nonce(Logs[g])
    BY <1>1 DEF NetworkOK, CursorInv
<1>3. unread(g) = rest_of(Logs[g], polling_nonce[g])
    BY <1>1, <1>2, PollSkips DEF unread, rest_of
<1>4. rest_of(Logs[g], polling_nonce[g]) \in Seq(Message)
    BY <1>1, <1>2, Skipped
<1>5. to_relay(g) \in Seq(Message)
    BY <1>2, <1>3, <1>4, ConcatProperties DEF to_relay
<1>6. Len(to_relay(g)) \in Nat
    BY <1>5
<1> QED BY <1>1, <1>2, <1>3, <1>5, <1>6 DEF to_relay

\* The messages for k in the sequence are not older than Latency.
InTime(seq, k, now) == \A i \in places(seq, k) : now <= seq[i].timestamp + Latency

IsMessage(m, k, n, content) ==
    /\ m \in Message /\ m.client_key = k /\ m.sequence_num = n
    /\ m.timestamp = time /\ m.content = content

LEMMA Pushes ==
    ASSUME NEW ls, NEW g \in DOMAIN ls \cap Gateway, IsLog(ls[g]), time \in Nat,
           NEW k \in ClientKey, NEW n \in Nat, NEW content \in Content, NEW new,
           new \in Service!with_message(ls, g, k.client_principal, k.client_nonce, n, content)
    PROVE  \E d, m :
               /\ d \in 0..Len(ls[g].messages) /\ IsMessage(m, k, n, content)
               /\ \A i \in 1..d :
                      time - ls[g].messages[i].timestamp > PARAMS.send_ack_interval
               /\ new = [ls EXCEPT ![g] = pushed(ls[g], d, m)]
<1> DEFINE m == [key |-> <<g, ls[g].start + Len(ls[g].messages)>>,
                 client_key |-> [client_principal |-> k.client_principal,
                                 client_nonce |-> k.client_nonce],
                 sequence_num |-> n, timestamp |-> time, content |-> content]
<1>1. PICK d : /\ d \in 0..Len(ls[g].messages) /\ Service!may_forget(ls[g], d)
               /\ new = [ls EXCEPT ![g] =
                      [start    |-> ls[g].start + d,
                       messages |-> Append(SubSeq(ls[g].messages, d + 1, Len(ls[g].messages)), m)]]
    BY DEF Service!with_message
<1>2. k = [client_principal |-> k.client_principal, client_nonce |-> k.client_nonce]
    BY DEF ClientKey
<1>3. IsMessage(m, k, n, content)
  <2>1. ls[g].start + Len(ls[g].messages) \in Nat
      BY DEF IsLog
  <2> QED BY <1>2, <2>1 DEF IsMessage, Message
<1> HIDE DEF m
<1>4. new = [ls EXCEPT ![g] = pushed(ls[g], d, m)]
    BY <1>1 DEF pushed
<1>5. \A i \in 1..d : time - ls[g].messages[i].timestamp > PARAMS.send_ack_interval
    BY <1>1 DEF Service!may_forget
<1> QED BY <1>1, <1>3, <1>4, <1>5

\* From the logs ls to new a message was added for k, and old ones were forgotten.  Of
\* what the gateway had to relay, with read before its log, none was forgotten that is
\* for a client whose messages are in time.
AddsMail(ls, new, g, read, nonce, k, n, content) ==
    /\ DOMAIN new = DOMAIN ls /\ \A x \in DOMAIN ls : x # g => new[x] = ls[x]
    /\ nonce <= next_nonce(new[g])
    /\ \A i \in 1..Len(new[g].messages) :
           \/ IsMessage(new[g].messages[i], k, n, content)
           \/ \E j \in 1..Len(ls[g].messages) : new[g].messages[i] = ls[g].messages[j]
    /\ \E kept \in Seq(Message) : \E m :
           /\ IsMessage(m, k, n, content)
           /\ read \o rest_of(new[g], nonce) = Append(kept, m)
           /\ \A x : InTime(read \o rest_of(ls[g], nonce), x, time)
                         => Keeps(read \o rest_of(ls[g], nonce), kept, x)

LEMMA AddedMail ==
    ASSUME NEW ls, NEW g \in DOMAIN ls \cap Gateway, IsLog(ls[g]),
           time \in Nat, PARAMS.send_ack_interval \in Nat, check_validity(PARAMS),
           NEW k \in ClientKey, NEW n \in Nat, NEW content \in Content, NEW new,
           new \in Service!with_message(ls, g, k.client_principal, k.client_nonce, n, content),
           NEW read \in Seq(Message), NEW nonce \in Nat, nonce <= next_nonce(ls[g])
    PROVE  AddsMail(ls, new, g, read, nonce, k, n, content)
<1> DEFINE log   == ls[g]
           queue == log.messages
           len   == Len(queue)
           s     == skipped(log, nonce)
           mail  == read \o rest_of(log, nonce)
<1>1. PICK d, m :
          /\ d \in 0..len /\ IsMessage(m, k, n, content)
          /\ \A i \in 1..d : time - queue[i].timestamp > PARAMS.send_ack_interval
          /\ new = [ls EXCEPT ![g] = pushed(log, d, m)]
    BY Pushes
<1>2. /\ DOMAIN new = DOMAIN ls /\ \A x \in DOMAIN ls : x # g => new[x] = ls[x]
      /\ new[g] = pushed(log, d, m)
    BY <1>1
<1>3. m \in Message
    BY <1>1 DEF IsMessage
<1>4. /\ nonce <= next_nonce(new[g])
      /\ \A i \in 1..Len(new[g].messages) :
             \/ new[g].messages[i] = m
             \/ \E j \in 1..len : new[g].messages[i] = queue[j]
    BY <1>1, <1>2, <1>3, PushedRest
<1>5. PICK c \in s..len :
          /\ \A i \in s + 1..c : i \in 1..d
          /\ rest_of(new[g], nonce) = Append(SubSeq(queue, c + 1, len), m)
  <2>1. \E c \in s..len :
            /\ \A i \in s + 1..c : i \in 1..d
            /\ rest_of(pushed(log, d, m), nonce) = Append(SubSeq(queue, c + 1, len), m)
      BY <1>1, <1>3, PushedRest
  <2> QED BY <1>2, <2>1
<1>6. queue \in Seq(Message) /\ len \in Nat /\ s \in 0..len /\ c \in 0..len
    BY Skipped DEF IsLog
<1> DEFINE kept == read \o SubSeq(queue, c + 1, len)
<1>7. kept \in Seq(Message) /\ read \o rest_of(new[g], nonce) = Append(kept, m)
  <2> DEFINE left == SubSeq(queue, c + 1, len)
  <2>1. left \in Seq(Message)
      BY <1>6, Suffix
  <2> HIDE DEF left
  <2>2. /\ read \o left \in Seq(Message) /\ <<m>> \in Seq(Message)
        /\ Append(read \o left, m) = (read \o left) \o <<m>>
        /\ Append(left, m) = left \o <<m>>
      BY <1>3, <2>1, ConcatProperties, AppendIsConcat
  <2>3. (read \o left) \o <<m>> = read \o (left \o <<m>>)
      BY <2>1, <2>2, ConcatAssociative
  <2> QED BY <1>5, <2>2, <2>3 DEF left
<1>8. ASSUME NEW x, InTime(mail, x, time)
      PROVE  Keeps(mail, kept, x)
  <2>1. ASSUME NEW i \in s + 1..c
        PROVE  queue[i].client_key # x
    <3>1. i \in 1..len /\ i \in s + 1..len /\ i \in 1..d
        BY <1>5, <1>6
    <3>2. queue[i].timestamp \in Nat
      <4>1. queue[i] \in Message
          BY <1>6, <3>1, ElementOfSeq
      <4> QED BY <4>1 DEF Message
    <3>3. time - queue[i].timestamp > Latency
      <4>1. time - queue[i].timestamp > PARAMS.send_ack_interval
          BY <1>1, <3>1
      <4>2. PARAMS.send_ack_interval > Latency
          BY LatencyAssumption, ConstantsAssumption
             DEF check_validity, LatencyAssumption, ConstantsAssumption
      <4> QED BY SMTT(30), <3>2, <4>1, <4>2, LatencyAssumption DEF LatencyAssumption
    <3>4. PICK j \in places(mail, queue[i].client_key) : mail[j] = queue[i]
        BY <3>1, InRest
    <3>5. ASSUME queue[i].client_key = x  PROVE time <= queue[i].timestamp + Latency
      <4> HIDE DEF mail, queue
      <4> QED BY <1>8, <3>4, <3>5, Zenon DEF InTime
    <3> HIDE DEF queue
    <3> QED BY SMTT(30), <3>2, <3>3, <3>5, LatencyAssumption DEF LatencyAssumption
  <2> QED BY <1>6, <2>1, Forgetting DEF rest_of
<1> HIDE DEF kept
<1> QED BY <1>1, <1>2, <1>4, <1>7, <1>8 DEF AddsMail

----------------------------------------------------------------------------
(***************************************************************************)
(* Clients miss no message.                                                *)
(***************************************************************************)

\* A message of gateway g is for one of its clients, registered or not.
IsMail(m, g) ==
    /\ m.client_key \in DOMAIN connections
    /\ connections[m.client_key].gateway = g
    /\ m.timestamp <= time

MailInv ==
    /\ \A g \in Gateway : \A i \in 1..Len(polled[g]) : IsMail(polled[g][i], g)
    /\ \A g \in DOMAIN Logs :
           \A i \in 1..Len(Logs[g].messages) : IsMail(Logs[g].messages[i], g)

\* What a gateway that is due for removal has not relayed is older than that.
RetiredMail ==
    \A g \in DOMAIN GATEWAYS_TO_REMOVE :
        \A i \in 1..Len(polled[g]) : polled[g][i].timestamp <= GATEWAYS_TO_REMOVE[g]

\* A client is to get all the canister has sent it, up to the close message if its
\* session has ended.
Gets(seq, k, r, registered, n) ==
    IF registered THEN Complete(seq, k, r, n) ELSE CompleteToClose(seq, k, r)

Served(k) ==
    LET c == connections[k]
    IN  /\ c.gateway \in DOMAIN Logs
        /\ InTime(to_relay(c.gateway), k, time)
        /\ Gets(to_relay(c.gateway), k, c.received, k \in Registered, sent_number(k))

ServedInv == \A k \in DOMAIN connections : connections[k].open => Served(k)

\* What a client gets when messages that are not for it are left out of those to relay.
LEMMA StillGets ==
    ASSUME NEW old \in Seq(Message), NEW new \in Seq(Message), NEW k, Keeps(old, new, k),
           NEW now
    PROVE  /\ InTime(old, k, now) => InTime(new, k, now)
           /\ \A r, n : \A b \in BOOLEAN : Gets(old, k, r, b, n) => Gets(new, k, r, b, n)
<1>1. Len(old) \in Nat /\ Len(new) \in Nat
    OBVIOUS
<1>2. \A r, n : \A b \in BOOLEAN : Gets(old, k, r, b, n) => Gets(new, k, r, b, n)
    BY <1>1, Keeping, Zenon DEF Gets
<1>3. ASSUME InTime(old, k, now), NEW i \in places(new, k)
      PROVE  now <= new[i].timestamp + Latency
  <2>1. i \in 1..Len(new) /\ new[i].client_key = k
      BY DEF places
  <2>2. PICK j \in 1..Len(old) : new[i] = old[j]
      BY <1>1, <2>1, Keeping
  <2>3. j \in places(old, k)
      BY <2>1, <2>2 DEF places
  <2> QED BY <1>3, <2>2, <2>3 DEF InTime
<1> QED BY <1>2, <1>3 DEF InTime

\* What a client gets when one more message is sent.
LEMMA GetsMore ==
    ASSUME NEW seq \in Seq(Message), NEW m \in Message, NEW k, NEW now \in Nat,
           now <= m.timestamp + Latency, InTime(seq, k, now)
    PROVE  /\ InTime(Append(seq, m), k, now)
           /\ m.client_key # k =>
                  \A r, n : \A b \in BOOLEAN :
                      Gets(seq, k, r, b, n) => Gets(Append(seq, m), k, r, b, n)
           /\ m.client_key = k =>
                  \A r, n \in Nat : m.sequence_num = n + 1 /\ Gets(seq, k, r, TRUE, n) =>
                      /\ Gets(Append(seq, m), k, r, TRUE, n + 1)
                      /\ m.content.kind = "CloseMessage" =>
                             \A x : Gets(Append(seq, m), k, r, FALSE, x)
<1>1. ASSUME NEW i \in places(Append(seq, m), k)
      PROVE  now <= Append(seq, m)[i].timestamp + Latency
  <2>1. Len(seq) \in Nat /\ (i \in places(seq, k) \/ i = Len(seq) + 1)
      BY Adding
  <2>2. CASE i = Len(seq) + 1
    <3>1. Append(seq, m)[i] = m
        BY <2>1, <2>2, AppendProperties
    <3> QED BY <3>1
  <2>3. CASE i \in places(seq, k)
    <3>1. Append(seq, m)[i] = seq[i]
        BY <2>3, AppendProperties DEF places
    <3> QED BY <2>3, <3>1 DEF InTime
  <2> QED BY <2>1, <2>2, <2>3
<1>2. m.client_key # k =>
          \A r, n : \A b \in BOOLEAN :
              Gets(seq, k, r, b, n) => Gets(Append(seq, m), k, r, b, n)
    BY Adding, Zenon DEF Gets
<1>3. m.client_key = k =>
          \A r, n \in Nat : m.sequence_num = n + 1 /\ Gets(seq, k, r, TRUE, n) =>
              /\ Gets(Append(seq, m), k, r, TRUE, n + 1)
              /\ m.content.kind = "CloseMessage" => \A x : Gets(Append(seq, m), k, r, FALSE, x)
    BY Adding, Zenon DEF Gets
<1> QED BY <1>1, <1>2, <1>3 DEF InTime

\* What a client gets when the first message is relayed.
LEMMA GetsLess ==
    ASSUME NEW seq \in Seq(Message), seq # << >>, NEW k, NEW now, InTime(seq, k, now)
    PROVE  /\ Tail(seq) \in Seq(Message) /\ Head(seq) \in Message
           /\ InTime(Tail(seq), k, now)
           /\ Head(seq).client_key # k =>
                  \A r, n : \A b \in BOOLEAN :
                      Gets(seq, k, r, b, n) => Gets(Tail(seq), k, r, b, n)
           /\ Head(seq).client_key = k /\ Head(seq).content.kind # "CloseMessage" =>
                  \A r \in Nat : \A b \in BOOLEAN : \A n : (b => n \in Nat) /\ Gets(seq, k, r, b, n) =>
                      /\ Head(seq).sequence_num = r + 1
                      /\ Gets(Tail(seq), k, r + 1, b, n)
<1>1. Tail(seq) \in Seq(Message) /\ Head(seq) \in Message
    BY Taking
<1>2. \A i \in places(Tail(seq), k) : i + 1 \in places(seq, k) /\ Tail(seq)[i] = seq[i + 1]
    BY Taking
<1>3. InTime(Tail(seq), k, now)
    BY <1>2 DEF InTime
<1>4. Head(seq).client_key # k =>
          \A r, n : \A b \in BOOLEAN : Gets(seq, k, r, b, n) => Gets(Tail(seq), k, r, b, n)
  <2> SUFFICES ASSUME Head(seq).client_key # k
               PROVE  \A r, n : \A b \in BOOLEAN :
                          Gets(seq, k, r, b, n) => Gets(Tail(seq), k, r, b, n)
      OBVIOUS
  <2>1. Keeps(seq, Tail(seq), k)
      BY Taking
  <2> QED BY <1>1, <2>1, StillGets
<1>5. Head(seq).client_key = k /\ Head(seq).content.kind # "CloseMessage" =>
          \A r \in Nat : \A b \in BOOLEAN : \A n : (b => n \in Nat) /\ Gets(seq, k, r, b, n) =>
              /\ Head(seq).sequence_num = r + 1
              /\ Gets(Tail(seq), k, r + 1, b, n)
    BY Taking, Zenon DEF Gets
<1> QED BY <1>1, <1>3, <1>4, <1>5

\* A message is sent to client k.
LEMMA SendsMail ==
    ASSUME ServiceInv, NetworkOK, CursorInv, NEW k, NEW content,
           Sends(k, content) \/ Closes(k, content)
    PROVE  \E g \in DOMAIN Logs :
               /\ k \in ClientKey /\ k \in Registered /\ sent_number(k) \in Nat
               /\ k \in DOMAIN connections /\ connections[k].gateway = g
               /\ AddsMail(Logs, Logs', g, polled[g], polling_nonce[g],
                           k, sent_number(k) + 1, content)
<1>1. /\ k \in Registered /\ content \in Content
      /\ Logs' \in with_content(k, content)
    BY DEF Sends, Closes
<1>2. Inv /\ StateInv /\ QueuesInOrder /\ TimerInv
    BY DEF ServiceInv, Inv
<1>3. PICK g : g = gateway_of(k)
    OBVIOUS
<1>4. /\ time \in Nat /\ k \in ClientKey /\ g \in DOMAIN Logs
      /\ sent_number(k) \in Nat
    BY <1>1, <1>2, <1>3, GatewayOfClient, LogsAreLogs DEF Registered, sent_number
<1>5. k \in DOMAIN connections /\ connections[k].gateway = g
    BY <1>1, <1>3 DEF NetworkOK
<1>6. check_validity(PARAMS) /\ PARAMS.send_ack_interval \in Nat
    BY <1>2, TimerTypes DEF TimerInv
<1>7. /\ IsLog(Logs[g]) /\ g \in Gateway
      /\ polled[g] \in Seq(Message) /\ polling_nonce[g] \in Nat
      /\ polling_nonce[g] <= next_nonce(Logs[g])
    BY <1>2, <1>4, ToRelay
<1>8. Logs' \in Service!with_message(Logs, g, k.client_principal, k.client_nonce,
                                     sent_number(k) + 1, content)
    BY <1>1, <1>3, Zenon DEF with_content, sent_number
<1>9. AddsMail(Logs, Logs', g, polled[g], polling_nonce[g], k, sent_number(k) + 1, content)
  <2>1. PICK n \in Nat : n = sent_number(k) + 1
      BY <1>4
  <2>. g \in DOMAIN Logs \cap Gateway
      BY <1>4, <1>7
  <2>2. Logs' \in Service!with_message(Logs, g, k.client_principal, k.client_nonce, n, content)
      BY <1>8, <2>1
  <2>3. AddsMail(Logs, Logs', g, polled[g], polling_nonce[g], k, n, content)
      BY <1>1, <1>4, <1>6, <1>7, <2>2, AddedMail
  <2> QED BY <2>1, <2>3
<1> QED BY <1>1, <1>4, <1>5, <1>9

----------------------------------------------------------------------------
(***************************************************************************)
(* The steps of the system, and what is on the way.                        *)
(***************************************************************************)

MailOK == CursorInv /\ MailInv /\ RetiredMail /\ ServedInv

\* No connection goes or moves to another gateway.
ConnectionsStay ==
    \A x \in DOMAIN connections :
        x \in DOMAIN connections' /\ connections'[x].gateway = connections[x].gateway

IsOneOf(m, seq) == \E j \in 1..Len(seq) : m = seq[j]

\* All that is relayed or in a log is new, or was there already.
LEMMA MailStays ==
    ASSUME MailInv, ConnectionsStay, time \in Nat, time' = time \/ time' = time + 1,
           \A g \in Gateway : \A i \in 1..Len(polled'[g]) :
               \/ IsOneOf(polled'[g][i], polled[g])
               \/ g \in DOMAIN Logs /\ IsOneOf(polled'[g][i], Logs[g].messages),
           \A g \in DOMAIN Logs' : \A i \in 1..Len(Logs'[g].messages) :
               \/ g \in DOMAIN Logs /\ IsOneOf(Logs'[g].messages[i], Logs[g].messages)
               \/ \E m : m = Logs'[g].messages[i] /\ IsMail(m, g)' ,
           \A g \in Gateway : \A i \in 1..Len(polled[g]) : polled[g][i].timestamp \in Nat,
           \A g \in DOMAIN Logs : \A i \in 1..Len(Logs[g].messages) :
               Logs[g].messages[i].timestamp \in Nat
    PROVE  MailInv'
<1>1. ASSUME NEW m, NEW g, IsMail(m, g), m.timestamp \in Nat
      PROVE  IsMail(m, g)'
  <2>1. m.timestamp <= time'
      BY <1>1 DEF IsMail
  <2> QED BY <1>1, <2>1 DEF IsMail, ConnectionsStay
<1>2. ASSUME NEW g \in Gateway, NEW i \in 1..Len(polled'[g])
      PROVE  \E m : m = polled'[g][i] /\ IsMail(m, g)'
  <2>1. CASE IsOneOf(polled'[g][i], polled[g])
    <3>1. PICK j \in 1..Len(polled[g]) : polled'[g][i] = polled[g][j]
        BY <2>1 DEF IsOneOf
    <3> QED BY <1>1, <3>1 DEF MailInv
  <2>2. CASE g \in DOMAIN Logs /\ IsOneOf(polled'[g][i], Logs[g].messages)
    <3>1. PICK j \in 1..Len(Logs[g].messages) : polled'[g][i] = Logs[g].messages[j]
        BY <2>2 DEF IsOneOf
    <3> QED BY <1>1, <2>2, <3>1 DEF MailInv
  <2> QED BY <2>1, <2>2
<1>3. ASSUME NEW g \in DOMAIN Logs', NEW i \in 1..Len(Logs'[g].messages)
      PROVE  \E m : m = Logs'[g].messages[i] /\ IsMail(m, g)'
  <2>1. CASE g \in DOMAIN Logs /\ IsOneOf(Logs'[g].messages[i], Logs[g].messages)
    <3>1. PICK j \in 1..Len(Logs[g].messages) : Logs'[g].messages[i] = Logs[g].messages[j]
        BY <2>1 DEF IsOneOf
    <3> QED BY <1>1, <2>1, <3>1 DEF MailInv
  <2> QED BY <2>1
<1> QED BY <1>2, <1>3 DEF MailInv, IsMail

\* The times of all these messages.
LEMMA MailTimes ==
    ASSUME Inv, QueuesInOrder, NetworkOK
    PROVE  /\ time \in Nat
           /\ \A g \in Gateway : \A i \in 1..Len(polled[g]) :
                  polled[g][i] \in Message /\ polled[g][i].timestamp \in Nat
           /\ \A g \in DOMAIN Logs : \A i \in 1..Len(Logs[g].messages) :
                  Logs[g].messages[i] \in Message /\ Logs[g].messages[i].timestamp \in Nat
<1>1. \A m \in Message : m.timestamp \in Nat
    BY DEF Message
<1>2. ASSUME NEW seq \in Seq(Message), NEW i \in 1..Len(seq)
      PROVE  seq[i] \in Message /\ seq[i].timestamp \in Nat
    BY <1>1, ElementOfSeq
<1>3. \A g \in Gateway : polled[g] \in Seq(Message)
    BY DEF NetworkOK
<1>4. \A g \in DOMAIN Logs : Logs[g].messages \in Seq(Message)
    BY LogsAreLogs DEF IsLog
<1> QED BY <1>2, <1>3, <1>4, TimerTypes

\* The definition of what is to relay, for both states of a step.
RelayedInv ==
    \A g \in DOMAIN Logs : to_relay(g) = polled[g] \o rest_of(Logs[g], polling_nonce[g])

LEMMA Relayed == Inv /\ QueuesInOrder /\ NetworkOK /\ CursorInv => RelayedInv
BY ToRelay DEF RelayedInv

LEMMA RelayedNext ==
    ASSUME Inv', QueuesInOrder', NetworkOK', CursorInv', NEW g \in DOMAIN Logs'
    PROVE  to_relay(g)' = polled'[g] \o rest_of(Logs'[g], polling_nonce'[g])
<1>1. RelayedInv'
    BY Relayed, PTL
<1> QED BY <1>1 DEF RelayedInv

LEMMA SameToRelay ==
    ASSUME Inv, QueuesInOrder, NetworkOK, CursorInv,
           Inv', QueuesInOrder', NetworkOK', CursorInv',
           NEW g \in DOMAIN Logs, g \in DOMAIN Logs', Logs'[g] = Logs[g],
           polled'[g] = polled[g], polling_nonce'[g] = polling_nonce[g]
    PROVE  to_relay(g)' = to_relay(g)
<1>1. to_relay(g) = polled[g] \o rest_of(Logs[g], polling_nonce[g])
    BY ToRelay
<1>2. to_relay(g)' = polled'[g] \o rest_of(Logs'[g], polling_nonce'[g])
    BY RelayedNext
<1> QED BY <1>1, <1>2

\* What a step leaves to the client of connection x.
SameClient(x) ==
    /\ connections'[x].received = connections[x].received
    /\ x \in Registered' <=> x \in Registered
    /\ x \in Registered => sent_number(x)' = sent_number(x)

\* x is served by what its gateway had to relay, if that has not changed.
LEMMA StillServed ==
    ASSUME NEW x, NEW g, connections[x].gateway = g, connections'[x].gateway = g,
           g \in DOMAIN Logs', Served(x), SameClient(x),
           to_relay(g)' = to_relay(g), time' = time
    PROVE  Served(x)'
BY DEF Served, SameClient, Gets

\* The network and the logs are as they were.
LEMMA QuietMail ==
    ASSUME ServiceInv, NetworkOK, CursorInv, MailInv, ServedInv,
           Inv', QueuesInOrder', NetworkOK', ConnectionsStay,
           Logs' = Logs, UNCHANGED <<polling_nonce, polled, time>>,
           DOMAIN connections' = DOMAIN connections,
           \A x \in DOMAIN connections :
               connections'[x].open => connections[x].open /\ SameClient(x)
    PROVE  CursorInv' /\ MailInv' /\ ServedInv'
<1>1. Inv /\ QueuesInOrder
    BY DEF ServiceInv
<1>2. CursorInv'
    BY DEF CursorInv
<1>3. MailInv'
  <2>1. \A g \in Gateway : \A i \in 1..Len(polled'[g]) : IsOneOf(polled'[g][i], polled[g])
      BY DEF IsOneOf
  <2>2. \A g \in DOMAIN Logs' : \A i \in 1..Len(Logs'[g].messages) :
            g \in DOMAIN Logs /\ IsOneOf(Logs'[g].messages[i], Logs[g].messages)
      BY DEF IsOneOf
  <2> QED BY <1>1, <2>1, <2>2, MailTimes, MailStays
<1>4. ASSUME NEW x \in DOMAIN connections, connections'[x].open
      PROVE  Served(x)'
  <2>1. PICK g : g = connections[x].gateway
      OBVIOUS
  <2>2. connections'[x].gateway = g /\ Served(x) /\ SameClient(x)
      BY <1>4, <2>1 DEF ConnectionsStay, ServedInv
  <2>3. g \in DOMAIN Logs
      BY <2>1, <2>2 DEF Served
  <2>4. to_relay(g)' = to_relay(g)
      BY <1>1, <1>2, <2>3, SameToRelay
  <2> QED BY <2>1, <2>2, <2>3, <2>4, StillServed
<1> QED BY <1>2, <1>3, <1>4 DEF ServedInv

\* The canister sends a message.
LEMMA SendingMail ==
    ASSUME ServiceInv, NetworkOK, CursorInv, MailInv, ServedInv,
           Inv', QueuesInOrder', NetworkOK',
           NEW k, NEW content, Sends(k, content) \/ Closes(k, content),
           UNCHANGED <<polling_nonce, polled, connections, time>>
    PROVE  CursorInv' /\ MailInv' /\ ServedInv'
<1>1. Inv /\ QueuesInOrder /\ time \in Nat
    BY TimerTypes DEF ServiceInv
<1>2. PICK g \in DOMAIN Logs :
          /\ k \in ClientKey /\ k \in Registered /\ sent_number(k) \in Nat
          /\ k \in DOMAIN connections /\ connections[k].gateway = g
          /\ AddsMail(Logs, Logs', g, polled[g], polling_nonce[g],
                      k, sent_number(k) + 1, content)
    BY SendsMail
<1>3. /\ DOMAIN Logs' = DOMAIN Logs /\ \A x \in DOMAIN Logs : x # g => Logs'[x] = Logs[x]
      /\ polling_nonce[g] <= next_nonce(Logs'[g])
      /\ \A i \in 1..Len(Logs'[g].messages) :
             \/ IsMessage(Logs'[g].messages[i], k, sent_number(k) + 1, content)
             \/ \E j \in 1..Len(Logs[g].messages) : Logs'[g].messages[i] = Logs[g].messages[j]
    BY <1>2 DEF AddsMail
<1>4. CursorInv'
    BY <1>3 DEF CursorInv
<1>5. MailInv'
  <2>1. \A x \in Gateway : \A i \in 1..Len(polled'[x]) : IsOneOf(polled'[x][i], polled[x])
      BY DEF IsOneOf
  <2>2. ASSUME NEW i \in 1..Len(Logs'[g].messages)
        PROVE  \/ IsOneOf(Logs'[g].messages[i], Logs[g].messages)
               \/ \E m : m = Logs'[g].messages[i] /\ IsMail(m, g)'
    <3>1. PICK m : m = Logs'[g].messages[i]
        OBVIOUS
    <3>2. CASE IsMessage(m, k, sent_number(k) + 1, content)
      <4>1. m.client_key = k /\ m.timestamp = time'
          BY <3>2 DEF IsMessage
      <4>2. IsMail(m, g)'
          BY <1>1, <1>2, <4>1 DEF IsMail
      <4> QED BY <3>1, <4>2
    <3> QED BY <1>3, <3>1, <3>2 DEF IsOneOf
  <2>3. \A x \in DOMAIN Logs' : \A i \in 1..Len(Logs'[x].messages) :
            \/ x \in DOMAIN Logs /\ IsOneOf(Logs'[x].messages[i], Logs[x].messages)
            \/ \E m : m = Logs'[x].messages[i] /\ IsMail(m, x)'
    <3>1. \A x \in DOMAIN Logs : x # g => \A i \in 1..Len(Logs'[x].messages) :
              IsOneOf(Logs'[x].messages[i], Logs[x].messages)
        BY <1>3 DEF IsOneOf
    <3> QED BY <1>2, <1>3, <2>2, <3>1
  <2>4. ConnectionsStay
      BY DEF ConnectionsStay
  <2> QED BY <1>1, <2>1, <2>3, <2>4, MailTimes, MailStays
<1>6. /\ \A x \in DOMAIN connections : x # k => SameClient(x)
      /\ connections'[k].received = connections[k].received
    BY DEF SameClient, Sends, Closes, Same
<1>7. ASSUME NEW x \in DOMAIN connections, connections'[x].open
      PROVE  Served(x)'
  <2>1. PICK h : h = connections[x].gateway
      OBVIOUS
  <2>2. connections'[x].gateway = h /\ Served(x) /\ h \in DOMAIN Logs
      BY <1>7, <2>1 DEF ServedInv, Served
  <2>3. CASE h # g
    <3>1. to_relay(h)' = to_relay(h)
        BY <1>1, <1>3, <1>4, <2>2, <2>3, SameToRelay
    <3>2. SameClient(x)
        BY <1>2, <1>6, <2>1, <2>3
    <3> QED BY <1>3, <2>1, <2>2, <3>1, <3>2, StillServed
  <2>4. CASE h = g
    <3>1. /\ to_relay(g) = polled[g] \o rest_of(Logs[g], polling_nonce[g])
          /\ to_relay(g) \in Seq(Message)
        BY <1>1, ToRelay
    <3>2. to_relay(g)' = polled[g] \o rest_of(Logs'[g], polling_nonce[g])
        BY <1>3, <1>4, RelayedNext
    <3>3. PICK kept, m :
              /\ kept \in Seq(Message)
              /\ IsMessage(m, k, sent_number(k) + 1, content)
              /\ to_relay(g)' = Append(kept, m)
              /\ \A c : InTime(to_relay(g), c, time) => Keeps(to_relay(g), kept, c)
        BY <1>2, <3>1, <3>2 DEF AddsMail
    <3>4. /\ m \in Message /\ m.client_key = k /\ m.timestamp = time
          /\ m.sequence_num = sent_number(k) + 1 /\ m.content = content
        BY <3>3 DEF IsMessage
    <3>5. PICK r, n, b : /\ r = connections[x].received /\ n = sent_number(x)
                         /\ b = (x \in Registered)
        OBVIOUS
    <3>6. b \in BOOLEAN
        BY <3>5
    <3>7. InTime(to_relay(g), x, time) /\ Gets(to_relay(g), x, r, b, n)
        BY <2>1, <2>2, <2>4, <3>5 DEF Served
    <3>. /\ kept \in Seq(Message) /\ m \in Message /\ to_relay(g) \in Seq(Message)
         /\ time \in Nat
        BY <1>1, <3>1, <3>3, <3>4
    <3>8. InTime(kept, x, time) /\ Gets(kept, x, r, b, n)
      <4>1. Keeps(to_relay(g), kept, x)
          BY <3>3, <3>7
      <4> QED BY <3>1, <3>6, <3>7, <4>1, StillGets
    <3>9. time <= m.timestamp + Latency
        BY <1>1, <3>4, LatencyAssumption DEF LatencyAssumption
    <3>10. InTime(Append(kept, m), x, time)
        BY <1>1, <3>4, <3>8, <3>9, GetsMore
    <3>11. CASE x # k
      <4>1. Gets(Append(kept, m), x, r, b, n)
          BY <1>1, <3>4, <3>6, <3>8, <3>9, <3>11, GetsMore
      <4>2. SameClient(x)
          BY <1>6, <3>11
      <4> QED BY <1>3, <2>2, <2>4, <3>3, <3>5, <3>10, <4>1, <4>2 DEF Served, SameClient, Gets
    <3>12. CASE x = k
      <4>1. b = TRUE /\ n \in Nat /\ r \in Nat
          BY <1>2, <3>5, <3>12 DEF NetworkOK, MapInto, Connection
      <4>2. /\ Gets(Append(kept, m), x, r, TRUE, n + 1)
            /\ m.content.kind = "CloseMessage" => \A z : Gets(Append(kept, m), x, r, FALSE, z)
          BY <1>1, <3>4, <3>5, <3>8, <3>9, <3>12, <4>1, GetsMore
      <4>3. CASE Sends(k, content)
        <5>1. x \in Registered' /\ sent_number(x)' = n + 1 /\ connections'[x].received = r
            BY <1>6, <3>5, <3>12, <4>3 DEF Sends
        <5> QED BY <1>3, <2>2, <2>4, <3>3, <3>10, <4>2, <5>1 DEF Served, Gets
      <4>4. CASE Closes(k, content)
        <5>1. x \notin Registered' /\ connections'[x].received = r /\ m.content.kind = "CloseMessage"
            BY <1>6, <3>4, <3>5, <3>12, <4>4 DEF Closes
        <5> QED BY <1>3, <2>2, <2>4, <3>3, <3>10, <4>2, <5>1 DEF Served, Gets
      <4> QED BY <4>3, <4>4
    <3> QED BY <3>11, <3>12
  <2> QED BY <2>3, <2>4
<1> QED BY <1>4, <1>5, <1>7 DEF ServedInv

\* What is to relay was polled or is in the log.
LEMMA AllOfIt ==
    ASSUME NEW log, IsLog(log), NEW nonce \in Nat, nonce <= next_nonce(log),
           NEW read \in Seq(Message), NEW i \in 1..Len(read \o rest_of(log, nonce))
    PROVE  \/ IsOneOf((read \o rest_of(log, nonce))[i], read)
           \/ IsOneOf((read \o rest_of(log, nonce))[i], log.messages)
<1> DEFINE rest == rest_of(log, nonce)
           s == skipped(log, nonce)
           n == Len(read)
           len == Len(log.messages)
<1>1. /\ s \in 0..len /\ rest \in Seq(Message) /\ Len(rest) = len - s
      /\ \A j \in 1..len - s : rest[j] = log.messages[j + s]
      /\ n \in Nat /\ len \in Nat
    BY Skipped DEF IsLog
<1> HIDE DEF rest, s, len
<1>2. Len(read \o rest) = n + (len - s)
    BY <1>1, ConcatProperties
<1>3. \A j \in 1..n + (len - s) : (read \o rest)[j] = IF j <= n THEN read[j] ELSE rest[j - n]
  <2>1. \A j \in 1..n + Len(rest) : (read \o rest)[j] = IF j <= n THEN read[j] ELSE rest[j - n]
      BY <1>1, ConcatProperties
  <2> QED BY <1>1, <2>1
<1>4. i \in 1..n + (len - s)
    BY <1>2 DEF rest
<1>5. (read \o rest)[i] = IF i <= n THEN read[i] ELSE rest[i - n]
    BY <1>3, <1>4, Zenon
<1> HIDE DEF n
<1>6. CASE i <= n
  <2>1. i \in 1..n /\ (read \o rest)[i] = read[i]
    <3>1. i \in 1..n
        BY <1>1, <1>4, <1>6
    <3> QED BY <1>6, <1>5, <3>1, Zenon
  <2> QED BY <2>1 DEF IsOneOf, n, rest
<1>7. CASE ~(i <= n)
  <2>1. i - n \in 1..len - s /\ (i - n) + s \in 1..len /\ (read \o rest)[i] = rest[i - n]
    <3>1. i - n \in 1..len - s /\ (i - n) + s \in 1..len
        BY <1>1, <1>4, <1>7
    <3> QED BY <1>7, <1>5, <3>1, Zenon
  <2>2. (read \o rest)[i] = log.messages[(i - n) + s]
      BY <1>1, <2>1
  <2> QED BY <2>1, <2>2 DEF IsOneOf, rest, len
<1> QED BY <1>6, <1>7

\* Logs are forgotten: not those of a gateway that has something for a client that is
\* there, which would be older than the interval.
LEMMA RetiringMail ==
    ASSUME ServiceInv, NetworkOK, MailOK, Inv', QueuesInOrder', NetworkOK',
           Retires, UNCHANGED <<polling_nonce, polled, connections, time>>
    PROVE  CursorInv' /\ MailInv' /\ ServedInv'
<1>1. /\ Inv /\ QueuesInOrder /\ StateInv /\ RetiredInv /\ TimerInv
      /\ CursorInv /\ MailInv /\ RetiredMail /\ ServedInv
    BY DEF ServiceInv, MailOK, Inv
<1>2. /\ DOMAIN Logs' = DOMAIN Logs \ expired_gateways
      /\ \A g \in DOMAIN Logs' : Logs'[g] = Logs[g]
  <2>1. Logs' = Service!delete(Logs, expired_gateways)
      BY DEF Retires
  <2> QED BY <2>1 DEF Service!delete, Service!Restrict
<1>3. CursorInv'
    BY <1>1, <1>2 DEF CursorInv
<1>4. MailInv'
  <2>1. \A x \in Gateway : \A i \in 1..Len(polled'[x]) : IsOneOf(polled'[x][i], polled[x])
      BY DEF IsOneOf
  <2>2. \A x \in DOMAIN Logs' : \A i \in 1..Len(Logs'[x].messages) :
            x \in DOMAIN Logs /\ IsOneOf(Logs'[x].messages[i], Logs[x].messages)
      BY <1>2 DEF IsOneOf
  <2>3. ConnectionsStay
      BY DEF ConnectionsStay
  <2> QED BY <1>1, <2>1, <2>2, <2>3, MailTimes, MailStays
<1>5. ASSUME NEW x \in DOMAIN connections, connections[x].open
      PROVE  connections[x].gateway \notin expired_gateways
  <2>1. PICK g : g = connections[x].gateway
      OBVIOUS
  <2>2. /\ g \in DOMAIN Logs /\ Served(x)
        /\ to_relay(g) = polled[g] \o rest_of(Logs[g], polling_nonce[g])
        /\ polled[g] \in Seq(Message) /\ g \in Gateway
        /\ rest_of(Logs[g], polling_nonce[g]) \in Seq(Message)
        /\ Logs[g].messages = REGISTERED_GATEWAYS[g].messages_queue
    <3>1. g \in DOMAIN Logs /\ Served(x)
        BY <1>1, <1>5, <2>1 DEF ServedInv, Served
    <3> QED BY <1>1, <3>1, ToRelay, Skipped, LogsAreLogs
  <2> SUFFICES ASSUME g \in expired_gateways
               PROVE  FALSE
      BY <2>1
  <2>3. /\ g \in DOMAIN GATEWAYS_TO_REMOVE
        /\ time - GATEWAYS_TO_REMOVE[g] > PARAMS.send_ack_interval
      BY DEF expired_gateways, is_expired_gateway
  <2>4. x \notin Registered
    <3>1. clients_of(g) = {}
        BY <1>1, <2>3 DEF StateInv, GatewayCounts
    <3> QED BY <2>1, <3>1 DEF NetworkOK, clients_of, Registered
  <2>5. PICK i \in places(to_relay(g), x) : time <= to_relay(g)[i].timestamp + Latency
      BY <2>1, <2>2, <2>4 DEF Served, Gets, CompleteToClose, InTime
  <2>6. to_relay(g)[i].timestamp \in Nat /\ to_relay(g)[i].timestamp <= GATEWAYS_TO_REMOVE[g]
    <3>1. PICK m : m = to_relay(g)[i]
        OBVIOUS
    <3>2. i \in 1..Len(to_relay(g))
        BY DEF places
    <3>3. IsOneOf(m, polled[g]) \/ IsOneOf(m, Logs[g].messages)
      <4>1. IsLog(Logs[g]) /\ polling_nonce[g] \in Nat /\ polling_nonce[g] <= next_nonce(Logs[g])
          BY <1>1, <2>2, ToRelay
      <4> QED BY <2>2, <3>1, <3>2, <4>1, AllOfIt
    <3>4. CASE IsOneOf(m, polled[g])
      <4>1. PICK j \in 1..Len(polled[g]) : m = polled[g][j]
          BY <3>4 DEF IsOneOf
      <4> QED BY <1>1, <2>2, <2>3, <3>1, <4>1, MailTimes DEF RetiredMail
    <3>5. CASE IsOneOf(m, Logs[g].messages)
      <4>1. PICK j \in 1..Len(Logs[g].messages) : m = Logs[g].messages[j]
          BY <3>5 DEF IsOneOf
      <4> QED BY <1>1, <2>2, <2>3, <3>1, <4>1, MailTimes DEF RetiredInv
    <3> QED BY <3>3, <3>4, <3>5
  <2>7. /\ time \in Nat /\ GATEWAYS_TO_REMOVE[g] \in Nat
        /\ PARAMS.send_ack_interval \in Nat /\ CLIENT_KEEP_ALIVE_TIMEOUT \in Nat
        /\ PARAMS.send_ack_interval > CLIENT_KEEP_ALIVE_TIMEOUT
      BY <1>1, <2>3, TimerTypes DEF TimerInv, check_validity
  <2> QED BY <2>3, <2>5, <2>6, <2>7, LatencyAssumption DEF LatencyAssumption
<1>6. ASSUME NEW x \in DOMAIN connections, connections'[x].open
      PROVE  Served(x)'
  <2>1. PICK g : g = connections[x].gateway
      OBVIOUS
  <2>2. /\ connections'[x].gateway = g /\ Served(x)
        /\ g \in DOMAIN Logs /\ g \in DOMAIN Logs' /\ Logs'[g] = Logs[g]
      BY <1>1, <1>2, <1>5, <1>6, <2>1 DEF ServedInv, Served
  <2>3. to_relay(g)' = to_relay(g)
      BY <1>1, <1>3, <2>2, SameToRelay
  <2>4. SameClient(x)
      BY DEF SameClient, Retires, Same
  <2> QED BY <2>1, <2>2, <2>3, <2>4, StillServed
<1> QED BY <1>3, <1>4, <1>6 DEF ServedInv

\* A client connects with key k through g.
NewConnection(k, p, g) ==
    /\ k \in ClientKey /\ k \notin DOMAIN connections
    /\ DOMAIN connections' = DOMAIN connections \cup {k}
    /\ connections'[k].gateway = g /\ connections'[k].received = 0
    /\ \A x \in DOMAIN connections :
           /\ connections'[x].gateway = connections[x].gateway
           /\ connections'[x].received = connections[x].received
           /\ connections'[x].open => connections[x].open /\ x.client_principal # p
    /\ polled' = polled

\* Its open message is added to the log of g, which is new if g serves no client.  If
\* it does, it polls on from where it is.
NewLogs(ls, g) ==
    /\ polled[g] \in Seq(Message)
    /\ \A x \in Gateway : x # g => polling_nonce'[x] = polling_nonce[x]
    /\ DOMAIN ls = DOMAIN Logs \cup {g}
    /\ \A x \in DOMAIN Logs : ls[x] = Logs[x]
    /\ g \notin DOMAIN Logs => ls[g] = [start |-> 0, messages |-> << >>]
    /\ IsLog(ls[g]) /\ polling_nonce'[g] \in Nat
    /\ polling_nonce'[g] <= next_nonce(ls[g])
    /\ (\E c \in DOMAIN connections : is_open(c) /\ connections[c].gateway = g) =>
           ls = Logs /\ polling_nonce'[g] = polling_nonce[g]

LEMMA ConnectAdds ==
    ASSUME ServiceInv, NetworkOK, CursorInv, ServedInv,
           NEW p, NEW nonce, NEW g, Connects(p, nonce, g)
    PROVE  \E k, ls :
               /\ k = [client_principal |-> p, client_nonce |-> nonce]
               /\ NewConnection(k, p, g) /\ NewLogs(ls, g)
               /\ AddsMail(ls, Logs', g, polled[g], polling_nonce'[g], k, 1, OpenMessage)
<1> DEFINE used == \E c \in DOMAIN connections : is_open(c) /\ connections[c].gateway = g
<1>1. /\ Inv /\ QueuesInOrder /\ TimerInv /\ time \in Nat
      /\ check_validity(PARAMS) /\ PARAMS.send_ack_interval \in Nat
    BY TimerTypes DEF ServiceInv, TimerInv
<1>2. /\ p \in Principal /\ nonce \in ClientNonce /\ g \in Gateway
      /\ connect(p, nonce, g) /\ Opens(p, nonce, g) /\ time' = time
    BY DEF Connects
<1>3. PICK k : k = [client_principal |-> p, client_nonce |-> nonce]
    OBVIOUS
<1>4. /\ k \in ClientKey /\ k \notin DOMAIN connections
      /\ DOMAIN connections' = DOMAIN connections \cup {k}
      /\ connections'[k].gateway = g /\ connections'[k].received = 0
      /\ \A x \in DOMAIN connections :
             /\ connections'[x].gateway = connections[x].gateway
             /\ connections'[x].received = connections[x].received
             /\ connections'[x].open => connections[x].open /\ x.client_principal # p
      /\ polled' = polled
  <2>. p \in Principal /\ nonce \in ClientNonce /\ g \in Gateway
      BY <1>2
  <2> QED BY <1>1, <1>2, <1>3, ConnectEffect
<1>5. /\ polling_nonce \in [Gateway -> Nat]
      /\ polling_nonce'[g] = IF used THEN polling_nonce[g] ELSE 0
      /\ \A x \in Gateway : x # g => polling_nonce'[x] = polling_nonce[x]
  <2>1. polling_nonce' = [polling_nonce EXCEPT ![g] = IF used THEN @ ELSE 0]
      BY <1>2 DEF connect, INITIAL_OUTGOING_MESSAGE_NONCE
  <2>2. polling_nonce \in [Gateway -> Nat]
      BY DEF NetworkOK
  <2> HIDE DEF used
  <2> QED BY <1>2, <2>1, <2>2
<1>6. ASSUME NEW c \in DOMAIN connections, connections[c].open
      PROVE  connections[c].gateway \in DOMAIN Logs /\ Served(c)
    BY <1>6 DEF ServedInv, Served
<1>7. used => g \in DOMAIN Logs
    BY <1>6 DEF is_open
<1> HIDE DEF used
<1>8. PICK ls : ls = logs_with(g)
    OBVIOUS
<1>9. /\ DOMAIN ls = DOMAIN Logs \cup {g}
      /\ \A x \in DOMAIN Logs : ls[x] = Logs[x]
      /\ g \notin DOMAIN Logs => ls[g] = [start |-> 0, messages |-> << >>]
    BY <1>8 DEF logs_with, Service!insert
<1>10. IsLog(ls[g])
  <2>1. CASE g \in DOMAIN Logs
      BY <1>1, <1>9, <2>1, LogsAreLogs
  <2>2. CASE g \notin DOMAIN Logs
    <3>1. << >> \in Seq(Message) /\ 0 \in Nat
        OBVIOUS
    <3>2. ls[g].start = 0 /\ ls[g].messages = << >>
        BY <1>9, <2>2
    <3> QED BY <3>1, <3>2 DEF IsLog
  <2> QED BY <2>1, <2>2
<1>11. polling_nonce'[g] \in Nat /\ polling_nonce'[g] <= next_nonce(ls[g])
  <2>1. CASE used
      BY <1>2, <1>5, <1>7, <1>9, <2>1 DEF CursorInv
  <2>2. CASE ~used
    <3>1. next_nonce(ls[g]) \in Nat
        BY <1>10 DEF IsLog, next_nonce
    <3> QED BY <1>5, <2>2, <3>1
  <2> QED BY <2>1, <2>2
<1>12. polled[g] \in Seq(Message)
    BY <1>2 DEF NetworkOK
<1>13. AddsMail(ls, Logs', g, polled[g], polling_nonce'[g], k, 1, OpenMessage)
  <2>1. /\ Logs' \in Service!with_message(ls, g, k.client_principal, k.client_nonce,
                                          1, OpenMessage)
    <3>1. k.client_principal = p /\ k.client_nonce = nonce
        BY <1>3
    <3>2. Logs' \in Service!with_message(logs_with(g), g, p, nonce, 1, OpenMessage)
        BY <1>2 DEF Opens
    <3> QED BY <1>8, <3>1, <3>2
  <2>. /\ g \in DOMAIN ls \cap Gateway /\ k \in ClientKey /\ OpenMessage \in Content
       /\ polled[g] \in Seq(Message) /\ polling_nonce'[g] \in Nat /\ 1 \in Nat
      BY <1>2, <1>4, <1>9, <1>11, <1>12, ContentOK
  <2> QED BY <1>1, <1>10, <1>11, <2>1, AddedMail
<1>14. used => ls = Logs /\ polling_nonce'[g] = polling_nonce[g]
    BY <1>5, <1>7, <1>8 DEF logs_with
<1>15. NewConnection(k, p, g)
    BY <1>4 DEF NewConnection
<1>16. NewLogs(ls, g)
    BY <1>5, <1>9, <1>10, <1>11, <1>12, <1>14 DEF NewLogs, used
<1> QED BY <1>3, <1>13, <1>15, <1>16

\* A client connects.
LEMMA ConnectingMail ==
    ASSUME ServiceInv, NetworkOK, CursorInv, MailInv, ServedInv,
           Inv', QueuesInOrder', NetworkOK',
           NEW p, NEW nonce, NEW g, Connects(p, nonce, g)
    PROVE  CursorInv' /\ MailInv' /\ ServedInv'
<1> DEFINE used == \E c \in DOMAIN connections : is_open(c) /\ connections[c].gateway = g
<1>1. Inv /\ QueuesInOrder /\ time \in Nat
    BY TimerTypes DEF ServiceInv
<1>2. g \in Gateway /\ Opens(p, nonce, g) /\ time' = time
    BY DEF Connects
<1>3. PICK k, ls :
          /\ k = [client_principal |-> p, client_nonce |-> nonce]
          /\ NewConnection(k, p, g) /\ NewLogs(ls, g)
          /\ AddsMail(ls, Logs', g, polled[g], polling_nonce'[g], k, 1, OpenMessage)
    BY ConnectAdds
<1>4. /\ k \in ClientKey /\ k \notin DOMAIN connections
      /\ DOMAIN connections' = DOMAIN connections \cup {k}
      /\ connections'[k].gateway = g /\ connections'[k].received = 0
      /\ \A x \in DOMAIN connections :
             /\ connections'[x].gateway = connections[x].gateway
             /\ connections'[x].received = connections[x].received
             /\ connections'[x].open => connections[x].open /\ x.client_principal # p
      /\ polled' = polled
    BY <1>3 DEF NewConnection
<1>5. /\ polled[g] \in Seq(Message)
      /\ \A x \in Gateway : x # g => polling_nonce'[x] = polling_nonce[x]
      /\ DOMAIN ls = DOMAIN Logs \cup {g}
      /\ \A x \in DOMAIN Logs : ls[x] = Logs[x]
      /\ g \notin DOMAIN Logs => ls[g] = [start |-> 0, messages |-> << >>]
      /\ IsLog(ls[g]) /\ polling_nonce'[g] \in Nat
      /\ polling_nonce'[g] <= next_nonce(ls[g])
      /\ used => ls = Logs /\ polling_nonce'[g] = polling_nonce[g]
    BY <1>3 DEF NewLogs
<1> HIDE DEF used
<1>6. ASSUME NEW c \in DOMAIN connections, connections[c].open
      PROVE  connections[c].gateway \in DOMAIN Logs /\ Served(c)
    BY <1>6 DEF ServedInv, Served
<1>7. /\ DOMAIN Logs' = DOMAIN Logs \cup {g}
      /\ \A x \in DOMAIN Logs : x # g => Logs'[x] = Logs[x]
      /\ polling_nonce'[g] <= next_nonce(Logs'[g])
      /\ \A i \in 1..Len(Logs'[g].messages) :
             \/ IsMessage(Logs'[g].messages[i], k, 1, OpenMessage)
             \/ \E j \in 1..Len(ls[g].messages) : Logs'[g].messages[i] = ls[g].messages[j]
    BY <1>3, <1>5 DEF AddsMail
<1>8. CursorInv'
  <2>1. \A x \in DOMAIN Logs : x \in Gateway
      BY <1>1, LogsAreLogs
  <2> QED BY <1>5, <1>7, <2>1 DEF CursorInv
<1>9. MailInv'
  <2>1. \A x \in Gateway : \A i \in 1..Len(polled'[x]) : IsOneOf(polled'[x][i], polled[x])
      BY <1>4 DEF IsOneOf
  <2>2. ASSUME NEW i \in 1..Len(Logs'[g].messages)
        PROVE  \/ g \in DOMAIN Logs /\ IsOneOf(Logs'[g].messages[i], Logs[g].messages)
               \/ \E m : m = Logs'[g].messages[i] /\ IsMail(m, g)'
    <3>1. PICK m : m = Logs'[g].messages[i]
        OBVIOUS
    <3>2. CASE IsMessage(m, k, 1, OpenMessage)
      <4>1. m.client_key = k /\ m.timestamp = time'
          BY <1>2, <3>2 DEF IsMessage
      <4>2. IsMail(m, g)'
          BY <1>1, <1>2, <1>4, <4>1 DEF IsMail
      <4> QED BY <3>1, <4>2
    <3>3. CASE g \in DOMAIN Logs
        BY <1>5, <1>7, <3>1, <3>2, <3>3 DEF IsOneOf
    <3>4. CASE g \notin DOMAIN Logs
      <4>1. ls[g].messages = << >> /\ Len(<< >>) = 0
          BY <1>5, <3>4, EmptySeq
      <4> QED BY <1>7, <3>1, <3>2, <4>1
    <3> QED BY <3>3, <3>4
  <2>3. \A x \in DOMAIN Logs' : \A i \in 1..Len(Logs'[x].messages) :
            \/ x \in DOMAIN Logs /\ IsOneOf(Logs'[x].messages[i], Logs[x].messages)
            \/ \E m : m = Logs'[x].messages[i] /\ IsMail(m, x)'
    <3>1. \A x \in DOMAIN Logs : x # g => \A i \in 1..Len(Logs'[x].messages) :
              IsOneOf(Logs'[x].messages[i], Logs[x].messages)
        BY <1>7 DEF IsOneOf
    <3> QED BY <1>7, <2>2, <3>1
  <2>4. ConnectionsStay
      BY <1>4 DEF ConnectionsStay
  <2> QED BY <1>1, <1>2, <2>1, <2>3, <2>4, MailTimes, MailStays
<1> DEFINE before == polled[g] \o rest_of(ls[g], polling_nonce'[g])
<1>10. before \in Seq(Message)
    BY <1>5, Skipped, ConcatProperties
<1>11. PICK kept, m :
           /\ kept \in Seq(Message) /\ IsMessage(m, k, 1, OpenMessage)
           /\ to_relay(g)' = Append(kept, m)
           /\ \A c : InTime(before, c, time) => Keeps(before, kept, c)
  <2>1. to_relay(g)' = polled[g] \o rest_of(Logs'[g], polling_nonce'[g])
      BY <1>4, <1>7, <1>8, RelayedNext
  <2> QED BY <1>3, <2>1 DEF AddsMail
<1>12. /\ m \in Message /\ m.client_key = k /\ m.timestamp = time
       /\ m.sequence_num = 0 + 1 /\ time <= m.timestamp + Latency
  <2>1. m \in Message /\ m.client_key = k /\ m.timestamp = time /\ m.sequence_num = 1
      BY <1>11 DEF IsMessage
  <2> QED BY <1>1, <2>1, LatencyAssumption DEF LatencyAssumption
<1>13. ASSUME NEW x, NEW r, NEW n, NEW b \in BOOLEAN,
              InTime(before, x, time), Gets(before, x, r, b, n)
       PROVE  InTime(kept, x, time) /\ Gets(kept, x, r, b, n)
  <2>1. Keeps(before, kept, x)
      BY <1>11, <1>13
  <2>. kept \in Seq(Message) /\ before \in Seq(Message)
      BY <1>10, <1>11
  <2> HIDE DEF before
  <2> QED BY <1>13, <2>1, StillGets
<1>14. Served(k)'
  <2>1. places(before, k) = {}
    <3>1. ASSUME NEW i \in 1..Len(before)
          PROVE  before[i].client_key # k
      <4>1. IsOneOf(before[i], polled[g]) \/ IsOneOf(before[i], ls[g].messages)
          BY <1>5, AllOfIt
      <4>2. CASE IsOneOf(before[i], polled[g])
          BY <1>2, <1>4, <4>2 DEF IsOneOf, MailInv, IsMail
      <4>3. CASE IsOneOf(before[i], ls[g].messages)
        <5>1. g \in DOMAIN Logs
          <6>1. << >> \in Seq(Message) /\ Len(<< >>) = 0
              BY EmptySeq
          <6> QED BY <1>5, <4>3, <6>1 DEF IsOneOf
        <5> QED BY <1>4, <1>5, <4>3, <5>1 DEF IsOneOf, MailInv, IsMail
      <4> QED BY <4>1, <4>2, <4>3
    <3> HIDE DEF before
    <3> QED BY <3>1 DEF places
  <2> HIDE DEF before
  <2>2. InTime(before, k, time) /\ Gets(before, k, 0, TRUE, 0)
      BY <2>1 DEF InTime, Gets, Complete
  <2>3. InTime(kept, k, time) /\ Gets(kept, k, 0, TRUE, 0)
      BY <1>13, <2>2
  <2>4. InTime(Append(kept, m), k, time) /\ Gets(Append(kept, m), k, 0, TRUE, 0 + 1)
    <3>. kept \in Seq(Message) /\ m \in Message /\ time \in Nat /\ 0 \in Nat
        BY <1>1, <1>11, <1>12
    <3> QED BY <1>12, <2>3, GetsMore
  <2>5. k \in Registered' /\ sent_number(k)' = 1
      BY <1>2, <1>3 DEF Opens
  <2>6. Complete(Append(kept, m), k, 0, 1)
      BY <2>4 DEF Gets
  <2>7. /\ connections'[k].gateway = g /\ connections'[k].received = 0
        /\ g \in DOMAIN Logs' /\ time' = time
      BY <1>2, <1>4, <1>7
  <2> QED BY <1>11, <2>4, <2>5, <2>6, <2>7 DEF Served, Gets
<1>15. ASSUME NEW x \in DOMAIN connections, connections'[x].open
       PROVE  Served(x)'
  <2>1. PICK h : h = connections[x].gateway
      OBVIOUS
  <2>2. /\ connections'[x].gateway = h /\ Served(x) /\ h \in DOMAIN Logs
        /\ connections[x].open /\ x.client_principal # p /\ x # k
        /\ h \in Gateway
      BY <1>1, <1>4, <1>6, <1>15, <2>1, LogsAreLogs
  <2>3. SameClient(x)
    <3>1. /\ Registered' = (Registered \ sessions_of(p)) \cup {k}
          /\ Same(Registered \ sessions_of(p))
        BY <1>2, <1>3 DEF Opens
    <3>2. x \in Registered => x \in Registered \ sessions_of(p)
        BY <2>2 DEF sessions_of
    <3> QED BY <1>4, <2>2, <3>1, <3>2 DEF SameClient, Same
  <2>4. CASE h # g
    <3>1. to_relay(h)' = to_relay(h)
        BY <1>1, <1>4, <1>5, <1>7, <1>8, <2>2, <2>4, SameToRelay
    <3> QED BY <1>2, <1>7, <2>1, <2>2, <2>3, <3>1, StillServed
  <2>5. CASE h = g
    <3>1. used
        BY <2>1, <2>2, <2>5 DEF used, is_open
    <3>2. before = to_relay(g)
        BY <1>1, <1>5, <3>1, ToRelay
    <3>3. PICK r, n, b : /\ r = connections[x].received /\ n = sent_number(x)
                         /\ b = (x \in Registered)
        OBVIOUS
    <3>4. b \in BOOLEAN
        BY <3>3
    <3>5. InTime(before, x, time) /\ Gets(before, x, r, b, n)
        BY <2>1, <2>2, <2>5, <3>2, <3>3 DEF Served
    <3> HIDE DEF before
    <3>6. InTime(kept, x, time) /\ Gets(kept, x, r, b, n)
        BY <1>13, <3>4, <3>5
    <3>7. InTime(Append(kept, m), x, time) /\ Gets(Append(kept, m), x, r, b, n)
      <4>. kept \in Seq(Message) /\ m \in Message /\ time \in Nat
          BY <1>1, <1>11, <1>12
      <4> QED BY <1>12, <2>2, <3>4, <3>6, GetsMore
    <3> QED BY <1>2, <1>7, <1>11, <2>2, <2>3, <2>5, <3>3, <3>7 DEF Served, SameClient, Gets
  <2> QED BY <2>4, <2>5
<1>16. ServedInv'
    BY <1>4, <1>14, <1>15 DEF ServedInv
<1> QED BY <1>8, <1>9, <1>16

\* A poll takes over the next messages from the log, those it gives the nonce after.
LEMMA PolledRest ==
    ASSUME NEW log, IsLog(log), NEW nonce \in Nat, nonce <= next_nonce(log),
           NEW e \in skipped(log, nonce) + 1..Len(log.messages)
    PROVE  /\ log.start + e \in Nat /\ log.start + e <= next_nonce(log)
           /\ SubSeq(log.messages, skipped(log, nonce) + 1, e) \o rest_of(log, log.start + e)
                  = << >> \o rest_of(log, nonce)
<1> DEFINE queue == log.messages
           s == skipped(log, nonce)
           len == Len(queue)
<1>1. /\ queue \in Seq(Message) /\ len \in Nat /\ log.start \in Nat
      /\ s \in 0..len /\ rest_of(log, nonce) \in Seq(Message)
    BY Skipped DEF IsLog
<1>2. rest_of(log, nonce) = SubSeq(queue, s + 1, len)
    BY DEF rest_of
<1>3. e \in s + 1..len
    OBVIOUS
<1> HIDE DEF s, queue, len
<1>4. e \in Nat /\ e \in 1..len /\ s + 1 \in 1..len + 1 /\ e \in (s + 1) - 1..len
    BY <1>1, <1>3
<1>5. skipped(log, log.start + e) = e
    BY <1>1, <1>4 DEF skipped
<1>6. rest_of(log, log.start + e) = SubSeq(queue, e + 1, len)
    BY <1>5 DEF rest_of, queue, len
<1>7. SubSeq(queue, s + 1, e) \o SubSeq(queue, e + 1, len) = SubSeq(queue, s + 1, len)
  <2>1. len = Len(queue) /\ len \in e..len
      BY <1>4 DEF len
  <2> QED BY <1>1, <1>4, <2>1, ConcatAdjacentSubSeq
<1>8. << >> \o rest_of(log, nonce) = rest_of(log, nonce)
    BY <1>1, ConcatEmptySeq
<1>9. log.start + e \in Nat /\ log.start + e <= log.start + len
    BY <1>1, <1>4
<1> QED BY <1>2, <1>6, <1>7, <1>8, <1>9 DEF next_nonce, s, queue, len

LEMMA OneOfSubSeq ==
    ASSUME NEW queue \in Seq(Message), NEW s \in 0..Len(queue), NEW e \in s + 1..Len(queue),
           NEW i \in 1..Len(SubSeq(queue, s + 1, e))
    PROVE  IsOneOf(SubSeq(queue, s + 1, e)[i], queue)
<1> DEFINE len == Len(queue)
<1>1. /\ len \in Nat /\ s \in Int /\ e \in Int /\ s + 1 \in Int
      /\ s + 1 <= e /\ e - (s + 1) + 1 = e - s /\ e \in s + 1..len /\ s \in 0..len
    OBVIOUS
<1>2. \A j \in s + 1..e : queue[j] \in Message
  <2>1. \A j \in s + 1..e : j \in 1..len
      BY <1>1
  <2> QED BY <2>1, ElementOfSeq
<1>3. /\ Len(SubSeq(queue, s + 1, e)) = e - (s + 1) + 1
      /\ \A j \in 1..e - (s + 1) + 1 : SubSeq(queue, s + 1, e)[j] = queue[(s + 1) + j - 1]
    BY <1>1, <1>2, SubSeqProperties
<1>4. i \in 1..e - (s + 1) + 1 /\ (s + 1) + i - 1 \in 1..len
  <2>1. i \in 1..e - (s + 1) + 1
      BY <1>3
  <2> HIDE DEF len
  <2> QED BY <1>1, <2>1
<1> QED BY <1>3, <1>4 DEF IsOneOf

\* A poll moves the next messages from the log to those the gateway has polled.
LEMMA PollMoves ==
    ASSUME Inv, QueuesInOrder, NetworkOK, CursorInv, NEW g \in Gateway, poll(g)
    PROVE  /\ UNCHANGED <<vars, connections, to_canister>> /\ Logs' = Logs
           /\ \A x \in Gateway :
                  x # g => polled'[x] = polled[x] /\ polling_nonce'[x] = polling_nonce[x]
           /\ g \in DOMAIN Logs /\ polling_nonce'[g] <= next_nonce(Logs[g])
           /\ polled'[g] \o rest_of(Logs[g], polling_nonce'[g]) = to_relay(g)
           /\ \A i \in 1..Len(polled'[g]) : IsOneOf(polled'[g][i], Logs[g].messages)
<1> DEFINE queue == Logs[g].messages
<1>1. /\ UNCHANGED <<vars, connections, to_canister>>
      /\ \A x \in Gateway :
             x # g => polled'[x] = polled[x] /\ polling_nonce'[x] = polling_nonce[x]
      /\ g \in DOMAIN REGISTERED_GATEWAYS /\ polled[g] = << >>
    BY PollEffect
<1>2. /\ g \in DOMAIN Logs /\ IsLog(Logs[g]) /\ polling_nonce[g] \in Nat
      /\ polling_nonce[g] <= next_nonce(Logs[g])
      /\ queue = REGISTERED_GATEWAYS[g].messages_queue
      /\ \A i \in Int : nonce_at(REGISTERED_GATEWAYS[g], i) = Logs[g].start + i - 1
      /\ to_relay(g) = polled[g] \o rest_of(Logs[g], polling_nonce[g])
      /\ start_index(REGISTERED_GATEWAYS[g], polling_nonce[g])
             = skipped(Logs[g], polling_nonce[g])
    BY <1>1, LogsAreLogs, ToRelay, PollSkips
<1>3. PICK s, e : /\ s \in 0..Len(queue) /\ e \in s + 1..Len(queue)
                  /\ s = skipped(Logs[g], polling_nonce[g])
                  /\ polled'[g] = SubSeq(queue, s + 1, e)
                  /\ polling_nonce'[g] = nonce_at(REGISTERED_GATEWAYS[g], e) + 1
    BY <1>1, <1>2, PollEffect
<1>4. Len(queue) \in Nat /\ queue \in Seq(Message) /\ e \in Int /\ Logs[g].start \in Nat
    BY <1>2, <1>3 DEF IsLog
<1>5. polling_nonce'[g] = Logs[g].start + e
  <2>1. polling_nonce'[g] = (Logs[g].start + e - 1) + 1
      BY <1>2, <1>3, <1>4
  <2> QED BY <1>4, <2>1
<1> HIDE DEF queue
<1>6. /\ polling_nonce'[g] <= next_nonce(Logs[g])
      /\ polled'[g] \o rest_of(Logs[g], polling_nonce'[g]) = to_relay(g)
    BY <1>1, <1>2, <1>3, <1>5, PolledRest DEF queue
<1>7. Logs' = Logs
    BY <1>1 DEF vars, gateway_vars, Logs, logs_of
<1>8. \A i \in 1..Len(polled'[g]) : IsOneOf(polled'[g][i], Logs[g].messages)
    BY <1>3, <1>4, OneOfSubSeq DEF queue
<1> QED BY <1>1, <1>2, <1>6, <1>7, <1>8

\* A gateway polls.
LEMMA PollingMail ==
    ASSUME ServiceInv, NetworkOK, CursorInv, MailInv, ServedInv,
           Inv', QueuesInOrder', NetworkOK', NEW g \in Gateway, poll(g)
    PROVE  CursorInv' /\ MailInv' /\ ServedInv'
<1>1. Inv /\ QueuesInOrder
    BY DEF ServiceInv
<1>2. /\ UNCHANGED <<vars, connections, to_canister>> /\ Logs' = Logs
      /\ \A x \in Gateway :
             x # g => polled'[x] = polled[x] /\ polling_nonce'[x] = polling_nonce[x]
      /\ g \in DOMAIN Logs /\ polling_nonce'[g] <= next_nonce(Logs[g])
      /\ polled'[g] \o rest_of(Logs[g], polling_nonce'[g]) = to_relay(g)
      /\ \A i \in 1..Len(polled'[g]) : IsOneOf(polled'[g][i], Logs[g].messages)
    BY <1>1, PollMoves
<1>3. time' = time /\ Registered' = Registered
    BY <1>2 DEF vars, client_vars, Registered
<1>4. \A x \in DOMAIN Logs : x \in Gateway
    BY <1>1, LogsAreLogs
<1>5. CursorInv'
    BY <1>2, <1>4 DEF CursorInv
<1>6. MailInv'
  <2>1. \A x \in Gateway : \A i \in 1..Len(polled'[x]) :
            \/ IsOneOf(polled'[x][i], polled[x])
            \/ x \in DOMAIN Logs /\ IsOneOf(polled'[x][i], Logs[x].messages)
    <3>1. \A x \in Gateway : x # g =>
              \A i \in 1..Len(polled'[x]) : IsOneOf(polled'[x][i], polled[x])
        BY <1>2 DEF IsOneOf
    <3> QED BY <1>2, <3>1
  <2>2. \A x \in DOMAIN Logs' : \A i \in 1..Len(Logs'[x].messages) :
            x \in DOMAIN Logs /\ IsOneOf(Logs'[x].messages[i], Logs[x].messages)
      BY <1>2 DEF IsOneOf
  <2>3. ConnectionsStay
      BY <1>2 DEF ConnectionsStay
  <2> QED BY <1>1, <1>3, <2>1, <2>2, <2>3, MailTimes, MailStays
<1>7. ASSUME NEW x \in DOMAIN connections, connections'[x].open
      PROVE  Served(x)'
  <2>1. PICK h : h = connections[x].gateway
      OBVIOUS
  <2>2. connections'[x].gateway = h /\ Served(x) /\ h \in DOMAIN Logs
      BY <1>2, <1>7, <2>1 DEF ServedInv, Served
  <2>3. to_relay(h)' = to_relay(h)
    <3>1. CASE h # g
        BY <1>1, <1>2, <1>4, <1>5, <2>2, <3>1, SameToRelay
    <3>2. CASE h = g
      <4>1. to_relay(g)' = polled'[g] \o rest_of(Logs'[g], polling_nonce'[g])
          BY <1>2, <1>5, RelayedNext
      <4> QED BY <1>2, <3>2, <4>1
    <3> QED BY <3>1, <3>2
  <2>4. SameClient(x)
    <3>1. OUTGOING_MESSAGE_TO_CLIENT_NUM_MAP' = OUTGOING_MESSAGE_TO_CLIENT_NUM_MAP
        BY <1>2 DEF vars, client_vars
    <3> QED BY <1>2, <1>3, <3>1 DEF SameClient, sent_number
  <2> QED BY <1>2, <1>3, <2>1, <2>2, <2>3, <2>4, StillServed
<1> QED BY <1>2, <1>5, <1>6, <1>7 DEF ServedInv

LEMMA TailOfConcat ==
    ASSUME NEW S, NEW a \in Seq(S), NEW b \in Seq(S), a # << >>
    PROVE  a \o b # << >> /\ Head(a \o b) = Head(a) /\ Tail(a \o b) = Tail(a) \o b
<1> DEFINE n == Len(a)
           m == Len(b)
<1>1. /\ n \in Nat /\ n # 0 /\ m \in Nat
      /\ a \o b \in Seq(S) /\ Len(a \o b) = n + m
      /\ \A i \in 1..n + m : (a \o b)[i] = IF i <= n THEN a[i] ELSE b[i - n]
    BY EmptySeq, ConcatProperties
<1>2. /\ Tail(a) \in Seq(S) /\ Len(Tail(a)) = n - 1
      /\ \A i \in 1..n - 1 : Tail(a)[i] = a[i + 1]
    BY HeadTailProperties
<1>3. a \o b # << >>
  <2>1. Len(<< >>) = 0
      BY EmptySeq
  <2>2. Len(a \o b) # 0
      BY <1>1
  <2> QED BY <2>1, <2>2
<1>4. /\ Tail(a \o b) \in Seq(S) /\ Len(Tail(a \o b)) = n + m - 1
      /\ \A i \in 1..n + m - 1 : Tail(a \o b)[i] = (a \o b)[i + 1]
    BY <1>1, <1>3, HeadTailProperties
<1>5. /\ Tail(a) \o b \in Seq(S) /\ Len(Tail(a) \o b) = n - 1 + m
      /\ \A i \in 1..n - 1 + m :
             (Tail(a) \o b)[i] = IF i <= n - 1 THEN Tail(a)[i] ELSE b[i - (n - 1)]
    BY <1>2, ConcatProperties
<1> HIDE DEF n, m
<1>6. ASSUME NEW i \in 1..n + m - 1
      PROVE  Tail(a \o b)[i] = (Tail(a) \o b)[i]
  <2>1. /\ i \in 1..n - 1 + m /\ i + 1 \in 1..n + m
        /\ i <= n - 1 <=> i + 1 <= n
        /\ (i + 1) - n = i - (n - 1)
        /\ i <= n - 1 => i \in 1..n - 1
      BY <1>1
  <2>2. (a \o b)[i + 1] = IF i + 1 <= n THEN a[i + 1] ELSE b[(i + 1) - n]
      BY <1>1, <2>1, Zenon
  <2>3. (Tail(a) \o b)[i] = IF i <= n - 1 THEN Tail(a)[i] ELSE b[i - (n - 1)]
      BY <1>5, <2>1, Zenon
  <2>4. i <= n - 1 => Tail(a)[i] = a[i + 1]
      BY <1>2, <2>1, Zenon
  <2>5. Tail(a \o b)[i] = (a \o b)[i + 1]
      BY <1>4, Zenon
  <2> QED BY <2>1, <2>2, <2>3, <2>4, <2>5, Zenon
<1>7. Tail(a \o b) = Tail(a) \o b
  <2>1. n + m - 1 = n - 1 + m
      BY <1>1
  <2> QED BY <1>4, <1>5, <1>6, <2>1, SeqEqual
<1>8. Head(a \o b) = Head(a)
  <2>1. 1 \in 1..n + m /\ 1 <= n
      BY <1>1
  <2>2. (a \o b)[1] = a[1]
      BY <1>1, <2>1, Zenon
  <2> QED BY <2>2
<1> QED BY <1>3, <1>7, <1>8

\* A gateway relays the first message of those it has to relay.
LEMMA RelayMoves ==
    ASSUME Inv, QueuesInOrder, NetworkOK, CursorInv,
           Inv', QueuesInOrder', NetworkOK', CursorInv',
           NEW g \in DOMAIN Logs, relay(g)
    PROVE  /\ to_relay(g) \in Seq(Message) /\ to_relay(g) # << >>
           /\ Head(to_relay(g)) = Head(polled[g])
           /\ to_relay(g)' = Tail(to_relay(g))
<1> DEFINE rest == rest_of(Logs[g], polling_nonce[g])
<1>1. /\ to_relay(g) = polled[g] \o rest /\ to_relay(g) \in Seq(Message)
      /\ rest \in Seq(Message) /\ g \in Gateway
    BY ToRelay, Skipped
<1>2. /\ polled[g] # << >> /\ polled[g] \in Seq(Message)
      /\ polled'[g] = Tail(polled[g]) /\ UNCHANGED <<vars, polling_nonce>>
    BY <1>1, TimerTypes, RelayEffect
<1>3. Logs' = Logs
    BY <1>2 DEF vars, gateway_vars, Logs, logs_of
<1>4. to_relay(g)' = Tail(polled[g]) \o rest
  <2>1. to_relay(g)' = polled'[g] \o rest_of(Logs'[g], polling_nonce'[g])
      BY <1>3, RelayedNext
  <2> QED BY <1>2, <1>3, <2>1
<1> HIDE DEF rest
<1> QED BY <1>1, <1>2, <1>4, TailOfConcat

\* A gateway relays a message.
LEMMA RelayingMail ==
    ASSUME ServiceInv, NetworkOK, CursorInv, MailInv, ServedInv,
           Inv', QueuesInOrder', NetworkOK', NEW g \in Gateway, relay(g)
    PROVE  CursorInv' /\ MailInv' /\ ServedInv'
<1>1. Inv /\ QueuesInOrder /\ time \in Nat
    BY TimerTypes DEF ServiceInv
<1>2. PICK m, k : m = Head(polled[g]) /\ k = m.client_key
    OBVIOUS
<1>3. /\ polled[g] # << >> /\ polled[g] \in Seq(Message) /\ m \in Message
      /\ polled'[g] = Tail(polled[g])
      /\ \A x \in Gateway : x # g => polled'[x] = polled[x]
      /\ UNCHANGED <<vars, polling_nonce>>
      /\ DOMAIN connections' = DOMAIN connections
      /\ \A x \in DOMAIN connections : x # k => connections'[x] = connections[x]
      /\ ~is_open(k) => connections' = connections
    BY <1>1, <1>2, RelayEffect
<1>4. is_open(k) => /\ connections'[k].gateway = connections[k].gateway
                    /\ connections'[k].received = m.sequence_num
                    /\ connections'[k].open => m.content.kind # "CloseMessage"
    BY <1>1, <1>2, RelayEffect
<1>5. Logs' = Logs /\ time' = time /\ Registered' = Registered
      /\ OUTGOING_MESSAGE_TO_CLIENT_NUM_MAP' = OUTGOING_MESSAGE_TO_CLIENT_NUM_MAP
    BY <1>3 DEF vars, client_vars, gateway_vars, Logs, logs_of, Registered
<1>6. \A x \in DOMAIN Logs : x \in Gateway
    BY <1>1, LogsAreLogs
<1>7. CursorInv'
    BY <1>3, <1>5 DEF CursorInv
<1>8. ConnectionsStay
    BY <1>3, <1>4 DEF ConnectionsStay
<1>9. /\ Tail(polled[g]) \in Seq(Message)
      /\ \A i \in 1..Len(Tail(polled[g])) :
             i + 1 \in 1..Len(polled[g]) /\ Tail(polled[g])[i] = polled[g][i + 1]
      /\ k \in DOMAIN connections /\ connections[k].gateway = g
  <2>1. /\ Tail(polled[g]) \in Seq(Message) /\ Len(polled[g]) \in Nat \ {0}
        /\ Len(Tail(polled[g])) = Len(polled[g]) - 1
        /\ \A i \in 1..Len(Tail(polled[g])) : Tail(polled[g])[i] = polled[g][i + 1]
      BY <1>3, HeadTailProperties, EmptySeq
  <2>2. 1 \in 1..Len(polled[g]) /\ m = polled[g][1]
      BY <1>2, <2>1
  <2>3. IsMail(m, g)
      BY <2>2 DEF MailInv
  <2>4. \A i \in 1..Len(Tail(polled[g])) : i + 1 \in 1..Len(polled[g])
      BY <2>1
  <2> QED BY <1>2, <2>1, <2>3, <2>4 DEF IsMail
<1>10. MailInv'
  <2>1. \A x \in Gateway : \A i \in 1..Len(polled'[x]) : IsOneOf(polled'[x][i], polled[x])
    <3>1. \A x \in Gateway : x # g => \A i \in 1..Len(polled'[x]) : IsOneOf(polled'[x][i], polled[x])
        BY <1>3 DEF IsOneOf
    <3>2. \A i \in 1..Len(polled'[g]) : IsOneOf(polled'[g][i], polled[g])
        BY <1>3, <1>9 DEF IsOneOf
    <3> QED BY <3>1, <3>2
  <2>2. \A x \in DOMAIN Logs' : \A i \in 1..Len(Logs'[x].messages) :
            x \in DOMAIN Logs /\ IsOneOf(Logs'[x].messages[i], Logs[x].messages)
      BY <1>5 DEF IsOneOf
  <2> QED BY <1>1, <1>5, <1>8, <2>1, <2>2, MailTimes, MailStays
<1>11. ASSUME NEW x \in DOMAIN connections, connections'[x].open
       PROVE  Served(x)'
  <2>1. PICK h : h = connections[x].gateway
      OBVIOUS
  <2>2. connections[x].open
      BY <1>3, <1>11 DEF is_open
  <2>3. connections'[x].gateway = h /\ Served(x) /\ h \in DOMAIN Logs
      BY <1>8, <2>1, <2>2 DEF ServedInv, Served, ConnectionsStay
  <2>4. x # k => SameClient(x)
      BY <1>3, <1>5 DEF SameClient, sent_number
  <2>5. CASE h # g
    <3>1. to_relay(h)' = to_relay(h)
        BY <1>1, <1>3, <1>5, <1>6, <1>7, <2>3, <2>5, SameToRelay
    <3> QED BY <1>5, <1>9, <2>1, <2>3, <2>4, <2>5, <3>1, StillServed
  <2>6. CASE h = g
    <3>1. PICK seq : seq = to_relay(g)
        OBVIOUS
    <3>2. /\ seq \in Seq(Message) /\ seq # << >> /\ Head(seq) = m
          /\ to_relay(g)' = Tail(seq)
        BY <1>1, <1>2, <1>7, <2>3, <2>6, <3>1, RelayMoves
    <3>3. PICK r, n, b : /\ r = connections[x].received /\ n = sent_number(x)
                         /\ b = (x \in Registered)
        OBVIOUS
    <3>4. b \in BOOLEAN /\ InTime(seq, x, time) /\ Gets(seq, x, r, b, n)
        BY <2>1, <2>3, <2>6, <3>1, <3>3 DEF Served
    <3>. seq \in Seq(Message) /\ b \in BOOLEAN
        BY <3>2, <3>4
    <3>5. InTime(Tail(seq), x, time)
        BY <3>2, <3>4, GetsLess
    <3>6. CASE x # k
      <4>1. \A q, z : \A c \in BOOLEAN : Gets(seq, x, q, c, z) => Gets(Tail(seq), x, q, c, z)
        <5>1. Head(seq).client_key # x
            BY <1>2, <3>2, <3>6
        <5> QED BY <3>2, <3>4, <5>1, GetsLess
      <4>2. Gets(Tail(seq), x, r, b, n)
          BY <3>4, <4>1
      <4> QED BY <1>5, <2>3, <2>4, <2>6, <3>2, <3>3, <3>5, <3>6, <4>2
              DEF Served, SameClient, Gets
    <3>7. CASE x = k
      <4>1. r \in Nat /\ (b => n \in Nat)
          BY <1>1, <3>3, ClientMaps DEF NetworkOK, MapInto, Connection, Registered, sent_number
      <4>2. /\ connections'[x].received = m.sequence_num
            /\ m.content.kind # "CloseMessage"
          BY <1>4, <1>11, <2>2, <3>7 DEF is_open
      <4>3. m.sequence_num = r + 1 /\ Gets(Tail(seq), x, r + 1, b, n)
        <5>1. Head(seq).client_key = x /\ Head(seq).content.kind # "CloseMessage"
            BY <1>2, <3>2, <3>7, <4>2
        <5>2. seq # << >> /\ InTime(seq, x, time)
            BY <3>2, <3>4
        <5>3. \A q \in Nat : \A c \in BOOLEAN : \A z :
                  (c => z \in Nat) /\ Gets(seq, x, q, c, z) =>
                      Head(seq).sequence_num = q + 1 /\ Gets(Tail(seq), x, q + 1, c, z)
            BY <5>1, <5>2, GetsLess
        <5>4. Head(seq).sequence_num = r + 1 /\ Gets(Tail(seq), x, r + 1, b, n)
            BY <3>4, <4>1, <5>3
        <5> QED BY <3>2, <5>4
      <4>4. (x \in Registered') = b /\ sent_number(x)' = n
          BY <1>5, <3>3 DEF sent_number
      <4> QED BY <1>5, <2>3, <2>6, <3>2, <3>5, <4>2, <4>3, <4>4 DEF Served
    <3> QED BY <3>6, <3>7
  <2> QED BY <2>5, <2>6
<1> QED BY <1>3, <1>7, <1>10, <1>11 DEF ServedInv

\* The clock ticks, as long as all messages on the way are in time.
LEMMA TickingMail ==
    ASSUME ServiceInv, NetworkOK, CursorInv, MailInv, ServedInv,
           Inv', QueuesInOrder', NetworkOK', Ticks
    PROVE  CursorInv' /\ MailInv' /\ ServedInv'
<1>1. /\ Inv /\ QueuesInOrder /\ time \in Nat /\ time' = time + 1
      /\ UNCHANGED <<polling_nonce, polled, connections>>
      /\ Logs' = Logs /\ Registered' = Registered /\ Same(Registered)
    BY TimerTypes DEF ServiceInv, Ticks, network_vars, Quiet
<1>2. CursorInv'
    BY <1>1 DEF CursorInv
<1>3. MailInv'
  <2>1. \A x \in Gateway : \A i \in 1..Len(polled'[x]) : IsOneOf(polled'[x][i], polled[x])
      BY <1>1 DEF IsOneOf
  <2>2. \A x \in DOMAIN Logs' : \A i \in 1..Len(Logs'[x].messages) :
            x \in DOMAIN Logs /\ IsOneOf(Logs'[x].messages[i], Logs[x].messages)
      BY <1>1 DEF IsOneOf
  <2>3. ConnectionsStay
      BY <1>1 DEF ConnectionsStay
  <2> QED BY <1>1, <2>1, <2>2, <2>3, MailTimes, MailStays
<1>4. ASSUME NEW x \in DOMAIN connections, connections'[x].open
      PROVE  Served(x)'
  <2>1. PICK g : g = connections[x].gateway
      OBVIOUS
  <2>2. connections'[x].gateway = g /\ Served(x) /\ g \in DOMAIN Logs /\ is_open(x)
      BY <1>1, <1>4, <2>1 DEF ServedInv, Served, is_open
  <2>3. to_relay(g)' = to_relay(g)
      BY <1>1, <1>2, <2>2, SameToRelay
  <2>4. PICK seq : seq = to_relay(g)
      OBVIOUS
  <2>5. seq \in Seq(Message) /\ DOMAIN seq = 1..Len(seq)
    <3>1. seq \in Seq(Message)
        BY <1>1, <2>2, <2>4, ToRelay
    <3> QED BY <3>1, LenProperties
  <2>6. InTime(seq, x, time + 1)
    <3> SUFFICES ASSUME NEW i \in places(seq, x)
                 PROVE  time + 1 <= seq[i].timestamp + Latency
        BY DEF InTime
    <3>1. seq[i].timestamp \in Nat
      <4>1. seq[i] \in Message
          BY <2>5, ElementOfSeq DEF places
      <4> QED BY <4>1 DEF Message
    <3>2. i \in on_the_way(x)
        BY <2>1, <2>4, <2>5 DEF on_the_way, places
    <3>3. time < seq[i].timestamp + Latency
        BY <2>1, <2>2, <2>4, <3>2 DEF Ticks, timely
    <3> QED BY <1>1, <3>1, <3>3, LatencyAssumption DEF LatencyAssumption
  <2> QED BY <1>1, <2>1, <2>2, <2>3, <2>4, <2>6 DEF Served, Gets, Same
<1> QED BY <1>1, <1>2, <1>3, <1>4 DEF ServedInv

\* What a gateway got and has not relayed when its last client left was sent before.
LEMMA RetiredMailInductive ==
    ASSUME ServiceInv, Inv', NetworkOK, MailInv, RetiredMail, [SystemNext]_system_vars
    PROVE  RetiredMail'
<1>1. /\ Inv /\ QueuesInOrder /\ RetiredInv
      /\ \A g \in DOMAIN GATEWAYS_TO_REMOVE' : g \in Gateway
  <2>1. MapsOK'
      BY DEF Inv, StateInv
  <2> QED BY <2>1 DEF ServiceInv, MapsOK, MapInto
<1>2. /\ [Next]_vars
      /\ \/ polled' = polled
         \/ \E g \in Gateway : poll(g) \/ relay(g)
    BY <1>1, SystemSteps
       DEF CanisterStep, Connects, connect, client_send, disconnect, Delivers, Ticks, network_vars
<1>3. SUFFICES ASSUME NEW g \in DOMAIN GATEWAYS_TO_REMOVE', NEW i \in 1..Len(polled'[g])
               PROVE  polled'[g][i].timestamp <= GATEWAYS_TO_REMOVE'[g]
    BY DEF RetiredMail
<1>4. g \in Gateway
    BY <1>1
<1>5. CASE polled' = polled
  <2>1. polled[g][i].timestamp <= time
      BY <1>4, <1>5 DEF MailInv, IsMail
  <2>2. \/ GATEWAYS_TO_REMOVE'[g] = time
        \/ g \in DOMAIN GATEWAYS_TO_REMOVE /\ GATEWAYS_TO_REMOVE'[g] = GATEWAYS_TO_REMOVE[g]
      BY <1>1, <1>2, RetiringStep
  <2> QED BY <1>5, <2>1, <2>2 DEF RetiredMail
<1>6. ASSUME NEW h \in Gateway, poll(h) \/ relay(h)
      PROVE  polled'[g][i].timestamp <= GATEWAYS_TO_REMOVE'[g]
  <2>1. UNCHANGED vars
      BY <1>6 DEF poll, relay
  <2>2. GATEWAYS_TO_REMOVE' = GATEWAYS_TO_REMOVE
      BY <2>1 DEF vars, gateway_vars
  <2>3. CASE g # h
    <3>1. polled \in [Gateway -> Seq(Message)]
        BY DEF NetworkOK
    <3>2. polled'[g] = polled[g]
        BY <1>4, <1>6, <2>3, <3>1 DEF poll, relay
    <3> QED BY <2>2, <3>2 DEF RetiredMail
  <2>4. CASE g = h /\ relay(h)
    <3>1. polled[g] # << >> /\ polled[g] \in Seq(Message) /\ polled'[g] = Tail(polled[g])
        BY <1>1, <2>4, RelayEffect, TimerTypes
    <3>2. i + 1 \in 1..Len(polled[g]) /\ polled'[g][i] = polled[g][i + 1]
      <4>1. /\ Len(polled[g]) \in Nat /\ Len(Tail(polled[g])) = Len(polled[g]) - 1
            /\ \A j \in 1..Len(Tail(polled[g])) : Tail(polled[g])[j] = polled[g][j + 1]
          BY <3>1, HeadTailProperties
      <4> QED BY <3>1, <4>1
    <3> QED BY <2>2, <3>2 DEF RetiredMail
  <2>5. CASE g = h /\ poll(h)
    <3>1. PICK s, e : /\ s \in 0..Len(REGISTERED_GATEWAYS[g].messages_queue)
                      /\ e \in s + 1..Len(REGISTERED_GATEWAYS[g].messages_queue)
                      /\ polled'[g] = SubSeq(REGISTERED_GATEWAYS[g].messages_queue, s + 1, e)
      <4>1. poll(g)
          BY <2>5
      <4>2. \E s, e : LET gw    == REGISTERED_GATEWAYS[g]
                          queue == gw.messages_queue
                      IN  /\ s \in 0..Len(queue) /\ e \in s + 1..Len(queue)
                          /\ s = start_index(gw, polling_nonce[g])
                          /\ polled'[g] = SubSeq(queue, s + 1, e)
                          /\ polling_nonce'[g] = nonce_at(gw, e) + 1
          BY <1>1, <1>4, <4>1, PollEffect
      <4> QED BY <4>2
    <3>2. PICK j \in 1..Len(REGISTERED_GATEWAYS[g].messages_queue) :
              polled'[g][i] = REGISTERED_GATEWAYS[g].messages_queue[j]
      <4>1. g \in DOMAIN Logs
          BY <1>1, <2>2, RetiredIsUnused DEF RetiredUnused, Inv
      <4>2. REGISTERED_GATEWAYS[g].messages_queue \in Seq(Message)
          BY <1>1, <4>1, LogsAreLogs DEF IsLog
      <4>3. IsOneOf(polled'[g][i], REGISTERED_GATEWAYS[g].messages_queue)
        <5>1. PICK queue : queue = REGISTERED_GATEWAYS[g].messages_queue
            OBVIOUS
        <5>2. queue \in Seq(Message) /\ s \in 0..Len(queue) /\ e \in s + 1..Len(queue)
            BY <3>1, <4>2, <5>1
        <5>3. polled'[g] = SubSeq(queue, s + 1, e)
            BY <3>1, <5>1
        <5>4. i \in 1..Len(SubSeq(queue, s + 1, e))
            BY <5>3
        <5>5. IsOneOf(SubSeq(queue, s + 1, e)[i], queue)
            BY <5>2, <5>4, OneOfSubSeq
        <5> QED BY <5>1, <5>3, <5>5
      <4> QED BY <4>3 DEF IsOneOf
    <3> QED BY <1>1, <2>2, <3>2 DEF RetiredInv
  <2> QED BY <1>6, <2>3, <2>4, <2>5
<1> QED BY <1>2, <1>5, <1>6

LEMMA MailInductive ==
    ServiceInv /\ NetworkOK /\ MailOK /\ [SystemNext]_system_vars
        /\ Inv' /\ QueuesInOrder' /\ NetworkOK' => MailOK'
<1> SUFFICES ASSUME ServiceInv, NetworkOK, MailOK, [SystemNext]_system_vars,
                    Inv', QueuesInOrder', NetworkOK'
             PROVE  MailOK'
    OBVIOUS
<1>1. Inv /\ QueuesInOrder /\ CursorInv /\ MailInv /\ RetiredMail /\ ServedInv
    BY DEF ServiceInv, MailOK
<1>2. RetiredMail'
    BY <1>1, RetiredMailInductive
<1> SUFFICES CursorInv' /\ MailInv' /\ ServedInv'
    BY <1>2 DEF MailOK
<1>3. ASSUME Registered' \subseteq Registered, Logs' = Logs,
             \A x \in Registered' : sent_number(x)' = sent_number(x),
             UNCHANGED <<polling_nonce, polled, connections, time>>,
             \A x \in DOMAIN connections :
                 is_open(x) => (x \in Registered => x \in Registered')
      PROVE  CursorInv' /\ MailInv' /\ ServedInv'
  <2>1. \A x \in DOMAIN connections :
            connections'[x].open => connections[x].open /\ SameClient(x)
      BY <1>3 DEF SameClient, is_open
  <2>2. ConnectionsStay
      BY <1>3 DEF ConnectionsStay
  <2> QED BY <1>1, <1>3, <2>1, <2>2, QuietMail
<1>4. CASE CanisterStep
  <2>1. UNCHANGED <<polling_nonce, polled, connections, time>>
      BY <1>4 DEF CanisterStep, network_vars
  <2>2. CASE Quiet
      BY <1>3, <2>1, <2>2 DEF Quiet, Same
  <2>3. CASE Retires
      BY <2>1, <2>3, RetiringMail
  <2>4. CASE \E k, content : Sends(k, content) \/ Closes(k, content)
      BY <1>1, <2>1, <2>4, SendingMail
  <2>5. CASE \E k : Drops(k) /\ ~is_open(k)
    <3>1. PICK k : Drops(k) /\ ~is_open(k)
        BY <2>5
    <3> QED BY <1>3, <2>1, <3>1 DEF Drops, Same
  <2> QED BY <1>4, <2>2, <2>3, <2>4, <2>5 DEF CanisterStep
<1>5. ASSUME NEW p, NEW nonce, NEW g, Connects(p, nonce, g)
      PROVE  CursorInv' /\ MailInv' /\ ServedInv'
    BY <1>1, <1>5, ConnectingMail
<1>6. ASSUME UNCHANGED <<vars, polling_nonce, polled>>,
             DOMAIN connections' = DOMAIN connections,
             \A x \in DOMAIN connections :
                 /\ connections'[x].gateway = connections[x].gateway
                 /\ connections'[x].received = connections[x].received
                 /\ connections'[x].open => connections[x].open
      PROVE  CursorInv' /\ MailInv' /\ ServedInv'
  <2>1. Quiet /\ time' = time
      BY <1>6, QuietStep DEF vars, gateway_vars
  <2>2. \A x \in DOMAIN connections :
            connections'[x].open => connections[x].open /\ SameClient(x)
      BY <1>6, <2>1 DEF SameClient, Quiet, Same
  <2>3. ConnectionsStay
      BY <1>6 DEF ConnectionsStay
  <2> QED BY <1>1, <1>6, <2>1, <2>2, <2>3, QuietMail DEF Quiet
<1>7. ASSUME NEW k, client_send(k) \/ disconnect(k)
      PROVE  CursorInv' /\ MailInv' /\ ServedInv'
    BY <1>1, <1>6, <1>7, SendEffect, DisconnectEffect, TimerTypes
<1>8. ASSUME NEW k, Delivers(k)
      PROVE  CursorInv' /\ MailInv' /\ ServedInv'
  <2>1. /\ UNCHANGED <<polling_nonce, polled, connections, time>>
        /\ Receives(k) \/ Quiet \/ \E content : Closes(k, content)
      BY <1>8 DEF Delivers
  <2>2. CASE Receives(k)
    <3>1. /\ Registered' = Registered /\ Logs' = Logs
          /\ \A x \in Registered : sent_number(x)' = sent_number(x)
        BY <2>2 DEF Receives, Same
    <3> QED BY <1>3, <2>1, <3>1
  <2>3. CASE Quiet
      BY <1>3, <2>1, <2>3 DEF Quiet, Same
  <2>4. CASE \E content : Closes(k, content)
      BY <1>1, <2>1, <2>4, SendingMail
  <2> QED BY <2>1, <2>2, <2>3, <2>4
<1>9. ASSUME NEW g \in Gateway, poll(g) \/ relay(g)
      PROVE  CursorInv' /\ MailInv' /\ ServedInv'
    BY <1>1, <1>9, PollingMail, RelayingMail
<1>10. CASE Ticks
    BY <1>1, <1>10, TickingMail
<1> QED BY <1>1, <1>4, <1>5, <1>7, <1>8, <1>9, <1>10, SystemSteps

LEMMA MailAtStart == SystemInit => MailOK
<1> SUFFICES ASSUME SystemInit PROVE MailOK
    OBVIOUS
<1>1. /\ REGISTERED_GATEWAYS = EmptyMap /\ GATEWAYS_TO_REMOVE = EmptyMap
      /\ connections = EmptyMap /\ polled = [g \in Gateway |-> << >>]
    BY DEF SystemInit, Init
<1>2. DOMAIN EmptyMap = {} /\ DOMAIN Logs = {}
    BY <1>1 DEF EmptyMap, Logs, logs_of
<1>3. MailInv
  <2>1. Len(<< >>) = 0
      BY EmptySeq
  <2> QED BY <1>1, <1>2, <2>1 DEF MailInv
<1> QED BY <1>1, <1>2, <1>3 DEF MailOK, CursorInv, RetiredMail, ServedInv

LEMMA MailInvariant == SystemSpec => [](ServiceInv /\ NetworkOK /\ MailOK)
<1>1. ServiceInv => Inv /\ QueuesInOrder
    BY DEF ServiceInv
<1> QED BY <1>1, SystemIsCdk, ServiceInvariant, MailAtStart, MailInductive, PTL DEF SystemSpec

\* The nonce from which a gateway polls next is never after the one the canister gives
\* its next message, also when the gateway's record has been forgotten and made anew
\* while the gateway was counting on: what is sent is polled in the next iteration.
THEOREM MessagesArePolled == SystemSpec => []NextMessageIsPolled
<1>1. ServiceInv /\ NetworkOK /\ MailOK => NextMessageIsPolled
    BY LogsAreLogs DEF ServiceInv, MailOK, CursorInv, NextMessageIsPolled
<1> QED BY <1>1, MailInvariant, PTL

\* A client that is there gets all the canister has sent it, in order and without a
\* gap, up to the last message or the close message: what is pruned, what goes with a
\* record that is retired, what a poll leaves out and what a gateway drops is never on
\* its way to such a client, as long as messages take no longer than Latency.
THEOREM StreamsStayComplete == SystemSpec => []StreamsAreComplete
<1>1. ASSUME ServiceInv, NetworkOK, MailOK, NEW k \in DOMAIN connections, connections[k].open
      PROVE  LET coming    == to_relay(connections[k].gateway)
                 number(i) == coming[i].sequence_num
                 up_to(last) ==
                     {number(i) : i \in on_the_way(k)} = connections[k].received + 1..last
             IN  /\ \A i, j \in on_the_way(k) : i < j => number(i) < number(j)
                 /\ IF k \in DOMAIN REGISTERED_CLIENTS
                    THEN up_to(OUTGOING_MESSAGE_TO_CLIENT_NUM_MAP[k])
                    ELSE \E i \in on_the_way(k) :
                             coming[i].content.kind = "CloseMessage" /\ up_to(number(i))
  <2>1. PICK coming : coming = to_relay(connections[k].gateway)
      OBVIOUS
  <2>2. connections[k].gateway \in DOMAIN Logs /\ Served(k)
      BY <1>1 DEF MailOK, ServedInv, Served
  <2>3. coming \in Seq(Message)
      BY <1>1, <2>1, <2>2, ToRelay DEF ServiceInv, MailOK
  <2>4. on_the_way(k) = places(coming, k)
    <3>1. DOMAIN coming = 1..Len(coming)
        BY <2>3, LenProperties
    <3> QED BY <2>1, <3>1 DEF on_the_way, places
  <2>5. Gets(coming, k, connections[k].received, k \in Registered, sent_number(k))
      BY <2>1, <2>2 DEF Served
  <2> QED BY <2>1, <2>4, <2>5 DEF Gets, CompleteToClose, Complete, Registered, sent_number
<1>2. ServiceInv /\ NetworkOK /\ MailOK => StreamsAreComplete
    BY <1>1 DEF StreamsAreComplete
<1> QED BY <1>2, MailInvariant, PTL

----------------------------------------------------------------------------
(***************************************************************************)
(* A client that is there answers before the check.                        *)
(***************************************************************************)

\* The elements of a sequence to which one is added or from which the first is taken.
LEMMA OneMore ==
    ASSUME NEW S, NEW seq \in Seq(S), NEW m \in S
    PROVE  /\ Len(Append(seq, m)) = Len(seq) + 1 /\ Len(seq) \in Nat
           /\ Append(seq, m)[Len(seq) + 1] = m
           /\ \A i \in 1..Len(seq) : Append(seq, m)[i] = seq[i]
BY AppendProperties

LEMMA OneLess ==
    ASSUME NEW S, NEW seq \in Seq(S), seq # << >>
    PROVE  /\ Len(seq) \in Nat \ {0} /\ Len(Tail(seq)) = Len(seq) - 1
           /\ Head(seq) = seq[1]
           /\ \A i \in 1..Len(Tail(seq)) : Tail(seq)[i] = seq[i + 1]
           /\ \A i \in 1..Len(seq) : i # 1 =>
                  i - 1 \in 1..Len(Tail(seq)) /\ Tail(seq)[i - 1] = seq[i]
<1>1. /\ Len(seq) \in Nat \ {0} /\ Len(Tail(seq)) = Len(seq) - 1
      /\ Head(seq) = seq[1]
      /\ \A i \in 1..Len(Tail(seq)) : Tail(seq)[i] = seq[i + 1]
    BY HeadTailProperties, EmptySeq
<1>2. ASSUME NEW i \in 1..Len(seq), i # 1
      PROVE  i - 1 \in 1..Len(Tail(seq)) /\ Tail(seq)[i - 1] = seq[i]
  <2>1. i - 1 \in 1..Len(Tail(seq)) /\ (i - 1) + 1 = i
      BY <1>1, <1>2
  <2> QED BY <1>1, <2>1
<1> QED BY <1>1, <1>2

\* Message m is on the way to client x.
Has(seq, x, m) == \E i \in places(seq, x) : seq[i] = m

Coming(x, m) == Has(to_relay(connections[x].gateway), x, m)

\* What is added for x, or stays of what was there, is there.
LEMMA StaysComing ==
    ASSUME NEW old \in Seq(Message), NEW kept \in Seq(Message), NEW m \in Message, NEW x,
           Keeps(old, kept, x)
    PROVE  /\ \A y : Has(old, x, y) => Has(Append(kept, m), x, y)
           /\ m.client_key = x => Has(Append(kept, m), x, m)
<1>1. /\ Len(old) \in Nat /\ Len(kept) \in Nat
      /\ Len(Append(kept, m)) = Len(kept) + 1 /\ Append(kept, m)[Len(kept) + 1] = m
      /\ \A i \in 1..Len(kept) : Append(kept, m)[i] = kept[i]
    BY OneMore
<1>2. \A i \in places(old, x) : \E j \in places(kept, x) : kept[j] = old[i]
    BY <1>1, Keeping
<1>3. \A j \in places(kept, x) :
          j \in places(Append(kept, m), x) /\ Append(kept, m)[j] = kept[j]
    BY <1>1 DEF places
<1>4. m.client_key = x => Len(kept) + 1 \in places(Append(kept, m), x)
    BY <1>1 DEF places
<1> QED BY <1>1, <1>2, <1>3, <1>4 DEF Has

\* Connections are not opened again, and stay with their gateway.
LEMMA ConnectionsOnlyClose ==
    ASSUME Inv, QueuesInOrder, NetworkOK, [SystemNext]_system_vars,
           NEW x \in DOMAIN connections
    PROVE  /\ x \in DOMAIN connections' /\ connections'[x].gateway = connections[x].gateway
           /\ connections'[x].open => connections[x].open
<1> DEFINE goal == /\ x \in DOMAIN connections'
                   /\ connections'[x].gateway = connections[x].gateway
                   /\ connections'[x].open => connections[x].open
<1>1. time \in Nat
    BY TimerTypes
<1>2. CASE connections' = connections
    BY <1>2
<1>3. ASSUME NEW p, NEW nonce, NEW g, Connects(p, nonce, g)
      PROVE  goal
  <2>1. p \in Principal /\ nonce \in ClientNonce /\ g \in Gateway /\ connect(p, nonce, g)
      BY <1>3 DEF Connects
  <2>. p \in Principal /\ nonce \in ClientNonce /\ g \in Gateway
      BY <2>1
  <2> QED BY <1>1, <2>1, ConnectEffect
<1>4. ASSUME NEW k, client_send(k) \/ disconnect(k)
      PROVE  goal
    BY <1>1, <1>4, SendEffect, DisconnectEffect
<1>5. ASSUME NEW g \in Gateway, relay(g)
      PROVE  goal
  <2>1. PICK k : k = Head(polled[g]).client_key
      OBVIOUS
  <2>2. /\ DOMAIN connections' = DOMAIN connections
        /\ x # k => connections'[x] = connections[x]
        /\ ~is_open(k) => connections' = connections
        /\ is_open(k) => connections'[k].gateway = connections[k].gateway
      BY <1>1, <1>5, <2>1, RelayEffect
  <2> QED BY <2>2 DEF is_open
<1>6. ASSUME NEW g \in Gateway, poll(g)
      PROVE  connections' = connections
    BY <1>6 DEF poll
<1>7. ASSUME CanisterStep \/ Ticks \/ \E k : Delivers(k)
      PROVE  connections' = connections
    BY <1>7 DEF CanisterStep, Ticks, Delivers, network_vars
<1> QED BY <1>2, <1>3, <1>4, <1>5, <1>6, <1>7, SystemSteps

\* The last keep alive of a client is the one it was, or came now.
LEMMA HeardGrows ==
    ASSUME Inv, TimerInv, [Next]_vars, NEW x \in Registered, x \in Registered'
    PROVE  heard(x)' = heard(x) \/ heard(x)' = time
<1>1. CASE LeavesTimers
    BY <1>1 DEF LeavesTimers, KeepsClients, Registered
<1>2. ASSUME NEW params \in InitParams, init(params)
      PROVE  REGISTERED_CLIENTS' = REGISTERED_CLIENTS
    BY <1>2 DEF init, client_vars
<1>3. ASSUME NEW params \in InitParams, upgrade(params)
      PROVE  FALSE
    BY <1>3, UpgradeForgets DEF Registered
<1>4. ASSUME send_ack_to_clients \/ send_ack_end \/ check_keep_alive \/ tick
      PROVE  REGISTERED_CLIENTS' = REGISTERED_CLIENTS
    BY <1>4 DEF send_ack_to_clients, send_ack_end, check_keep_alive, tick, client_vars
<1> QED BY <1>1, <1>2, <1>3, <1>4, Steps DEF heard

\* Only the acknowledgements make the canister wait for a client.
LEMMA WaitingShrinks ==
    ASSUME [Next]_vars, executing # "send_ack"
    PROVE  CLIENTS_WAITING_FOR_KEEP_ALIVE' \subseteq CLIENTS_WAITING_FOR_KEEP_ALIVE
<1> DEFINE goal == CLIENTS_WAITING_FOR_KEEP_ALIVE' \subseteq CLIENTS_WAITING_FOR_KEEP_ALIVE
<1>1. ASSUME NEW p \in Principal, NEW nonce \in ClientNonce, NEW g \in Gateway,
             ws_open(p, nonce, g)
      PROVE  goal
    BY <1>1 DEF ws_open, not_waiting
<1>2. ASSUME NEW k, remove_from_client_maps(k)
      PROVE  goal
    BY <1>2 DEF remove_from_client_maps, not_waiting
<1>3. ASSUME NEW g \in Gateway, NEW k \in ClientKey, ws_close(g, k)
      PROVE  goal
    BY <1>2, <1>3 DEF ws_close, remove_client
<1>4. ASSUME NEW p \in Principal, NEW k \in ClientKey,
             \/ ws_message(p, k) \/ ws_message_keep_alive(p, k)
             \/ ws_message_wrong_sequence_number(p, k)
      PROVE  goal
    BY <1>2, <1>4 DEF ws_message, ws_message_keep_alive, accept_message,
                      ws_message_wrong_sequence_number, close_client
<1>5. ASSUME NEW p \in Principal, send(p) \/ close(p)
      PROVE  goal
    BY <1>2, <1>5 DEF send, close, close_client
<1>6. ASSUME NEW params \in InitParams, init(params) \/ upgrade(params)
      PROVE  goal
    BY <1>6 DEF init, upgrade, client_vars
<1>7. CASE wipe \/ wipe_end \/ send_ack_to_clients \/ send_ack_end
           \/ check_keep_alive \/ check_keep_alive_end \/ tick
    BY <1>7 DEF wipe, wipe_end, send_ack_to_clients, send_ack_end, check_keep_alive,
                check_keep_alive_end, tick, client_vars
<1>8. ASSUME NEW k \in client_keys, wipe_client(k) \/ send_ack(k) \/ close_silent_client(k)
      PROVE  goal
    BY <1>2, <1>8 DEF wipe_client, send_ack, close_silent_client, next_iteration,
                      remove_client, close_client
<1>9. CASE UNCHANGED vars
    BY <1>9 DEF vars, client_vars
<1> QED BY <1>1, <1>3, <1>4, <1>5, <1>6, <1>7, <1>8, <1>9 DEF Next

\* All that was on the way to x still is.
ComesStill(x) == \A m : Coming(x, m) => Coming(x, m)'

\* A message was sent to x.
Comes(x, content) ==
    \E m : Coming(x, m)' /\ m.timestamp = time /\ m.content = content

\* A message is added to what the gateway of x has to relay.
LEMMA AddedIsComing ==
    ASSUME ServiceInv, NetworkOK, MailOK, Inv', QueuesInOrder', NetworkOK', MailOK',
           NEW x \in DOMAIN connections, connections[x].open,
           NEW g, connections[x].gateway = g, connections'[x].gateway = g,
           NEW k, NEW n, NEW content,
           AddsMail(Logs, Logs', g, polled[g], polling_nonce[g], k, n, content),
           polled'[g] = polled[g], polling_nonce'[g] = polling_nonce[g]
    PROVE  /\ ComesStill(x)
           /\ x = k => Comes(x, content)
<1>1. /\ Inv /\ QueuesInOrder /\ CursorInv /\ ServedInv /\ CursorInv'
    BY DEF ServiceInv, MailOK
<1>2. Served(x) /\ g \in DOMAIN Logs /\ g \in DOMAIN Logs'
    BY <1>1 DEF ServedInv, Served, AddsMail
<1>3. /\ to_relay(g) = polled[g] \o rest_of(Logs[g], polling_nonce[g])
      /\ to_relay(g) \in Seq(Message)
    BY <1>1, <1>2, ToRelay
<1>4. to_relay(g)' = polled[g] \o rest_of(Logs'[g], polling_nonce[g])
    BY <1>1, <1>2, RelayedNext
<1>5. PICK kept, new :
          /\ kept \in Seq(Message) /\ IsMessage(new, k, n, content)
          /\ to_relay(g)' = Append(kept, new)
          /\ \A c : InTime(to_relay(g), c, time) => Keeps(to_relay(g), kept, c)
    BY <1>3, <1>4 DEF AddsMail
<1>6. /\ new \in Message /\ new.client_key = k /\ new.timestamp = time
      /\ new.content = content
    BY <1>5 DEF IsMessage
<1>7. PICK old : old = to_relay(g)
    OBVIOUS
<1>8. Keeps(old, kept, x)
  <2>1. Keeps(to_relay(g), kept, x)
      BY <1>2, <1>5 DEF Served
  <2> QED BY <1>7, <2>1
<1>. old \in Seq(Message) /\ kept \in Seq(Message) /\ new \in Message
    BY <1>3, <1>5, <1>6, <1>7
<1>9. /\ \A m : Has(old, x, m) => Has(Append(kept, new), x, m)
      /\ new.client_key = x => Has(Append(kept, new), x, new)
    BY <1>8, StaysComing
<1>10. ASSUME NEW m
       PROVE  /\ Coming(x, m) <=> Has(old, x, m)
              /\ Coming(x, m)' <=> Has(Append(kept, new), x, m)
  <2>1. Coming(x, m) <=> Has(to_relay(g), x, m)
      BY DEF Coming
  <2>2. Coming(x, m)' <=> Has(to_relay(g)', x, m)
      BY DEF Coming, Has
  <2> QED BY <1>5, <1>7, <2>1, <2>2
<1>11. ASSUME NEW m, Coming(x, m)
       PROVE  Coming(x, m)'
    BY <1>9, <1>10, <1>11
<1>12. x = k => Coming(x, new)'
    BY <1>6, <1>9, <1>10
<1> QED BY <1>6, <1>11, <1>12 DEF ComesStill, Comes

\* What the gateway of x has to relay stays as it is.
LEMMA StillComing ==
    ASSUME ServiceInv, NetworkOK, MailOK, Inv', QueuesInOrder', NetworkOK', MailOK',
           NEW x \in DOMAIN connections, connections[x].open,
           NEW g, connections[x].gateway = g, connections'[x].gateway = g,
           g \in DOMAIN Logs', Logs'[g] = Logs[g],
           polled'[g] = polled[g], polling_nonce'[g] = polling_nonce[g]
    PROVE  ComesStill(x)
<1>1. /\ Inv /\ QueuesInOrder /\ CursorInv /\ ServedInv /\ CursorInv'
    BY DEF ServiceInv, MailOK
<1>2. g \in DOMAIN Logs
    BY <1>1 DEF ServedInv, Served
<1>3. to_relay(g)' = to_relay(g)
    BY <1>1, <1>2, SameToRelay
<1> QED BY <1>3 DEF ComesStill, Coming, Has

\* What the canister sends comes, and so does all that came before, to the clients that
\* are there.
LEMMA SentIsComing ==
    ASSUME ServiceInv, NetworkOK, MailOK, Inv', QueuesInOrder', NetworkOK', MailOK',
           NEW k, NEW content, Sends(k, content) \/ Closes(k, content),
           UNCHANGED <<polling_nonce, polled, connections, time>>,
           NEW x \in DOMAIN connections, connections[x].open
    PROVE  /\ ComesStill(x)
           /\ x = k => Comes(x, content)
<1>1. CursorInv /\ ServedInv
    BY DEF MailOK
<1>2. PICK g \in DOMAIN Logs :
          /\ k \in DOMAIN connections /\ connections[k].gateway = g
          /\ AddsMail(Logs, Logs', g, polled[g], polling_nonce[g],
                      k, sent_number(k) + 1, content)
    BY <1>1, SendsMail
<1>3. PICK h : h = connections[x].gateway
    OBVIOUS
<1>4. CASE h # g
  <2>1. h \in DOMAIN Logs' /\ Logs'[h] = Logs[h]
      BY <1>1, <1>2, <1>3, <1>4 DEF AddsMail, ServedInv, Served
  <2> QED BY <1>2, <1>3, <1>4, <2>1, StillComing
<1>5. CASE h = g
  <2>1. PICK n : n = sent_number(k) + 1
      OBVIOUS
  <2>2. AddsMail(Logs, Logs', g, polled[g], polling_nonce[g], k, n, content)
      BY <1>2, <2>1
  <2> QED BY <1>3, <1>5, <2>2, AddedIsComing
<1> QED BY <1>4, <1>5

\* A client connects: what was on the way to others still is.
LEMMA ConnectIsComing ==
    ASSUME ServiceInv, NetworkOK, MailOK, Inv', QueuesInOrder', NetworkOK', MailOK',
           NEW p, NEW nonce, NEW g, Connects(p, nonce, g),
           NEW x \in DOMAIN connections, connections[x].open
    PROVE  ComesStill(x)
<1>1. Inv /\ QueuesInOrder /\ CursorInv /\ ServedInv
    BY DEF ServiceInv, MailOK
<1>2. PICK k, ls :
          /\ NewConnection(k, p, g) /\ NewLogs(ls, g)
          /\ AddsMail(ls, Logs', g, polled[g], polling_nonce'[g], k, 1, OpenMessage)
    BY <1>1, ConnectAdds
<1>3. PICK h : h = connections[x].gateway
    OBVIOUS
<1>4. connections'[x].gateway = h /\ polled' = polled
    BY <1>2, <1>3 DEF NewConnection
<1>5. h \in DOMAIN Logs /\ h \in Gateway
    BY <1>1, <1>3, LogsAreLogs DEF ServedInv, Served
<1>6. CASE h # g
  <2>1. polling_nonce'[h] = polling_nonce[h] /\ h \in DOMAIN ls /\ ls[h] = Logs[h]
      BY <1>2, <1>5, <1>6 DEF NewLogs
  <2>2. h \in DOMAIN Logs' /\ Logs'[h] = Logs[h]
      BY <1>2, <1>6, <2>1 DEF AddsMail
  <2> QED BY <1>3, <1>4, <2>1, <2>2, StillComing
<1>7. CASE h = g
  <2>1. ls = Logs /\ polling_nonce'[g] = polling_nonce[g]
    <3>1. \E c \in DOMAIN connections : is_open(c) /\ connections[c].gateway = g
        BY <1>3, <1>7 DEF is_open
    <3> QED BY <1>2, <3>1 DEF NewLogs
  <2>2. AddsMail(Logs, Logs', g, polled[g], polling_nonce[g], k, 1, OpenMessage)
      BY <1>2, <2>1
  <2>3. polled'[g] = polled[g]
      BY <1>4
  <2> QED BY <1>3, <1>4, <1>7, <2>1, <2>2, <2>3, AddedIsComing
<1> QED BY <1>6, <1>7

\* A gateway polls: all that was on the way still is.
LEMMA PollIsComing ==
    ASSUME ServiceInv, NetworkOK, MailOK, Inv', QueuesInOrder', NetworkOK', MailOK',
           NEW g \in Gateway, poll(g), NEW x \in DOMAIN connections, connections[x].open
    PROVE  ComesStill(x)
<1>1. Inv /\ QueuesInOrder /\ CursorInv /\ ServedInv /\ CursorInv'
    BY DEF ServiceInv, MailOK
<1>2. /\ connections' = connections /\ Logs' = Logs
      /\ \A y \in Gateway :
             y # g => polled'[y] = polled[y] /\ polling_nonce'[y] = polling_nonce[y]
      /\ polled'[g] \o rest_of(Logs[g], polling_nonce'[g]) = to_relay(g)
    BY <1>1, PollMoves
<1>3. PICK h : h = connections[x].gateway
    OBVIOUS
<1>4. connections'[x].gateway = h /\ h \in DOMAIN Logs /\ h \in Gateway
    BY <1>1, <1>2, <1>3, LogsAreLogs DEF ServedInv, Served
<1>5. CASE h # g
    BY <1>2, <1>3, <1>4, <1>5, StillComing
<1>6. CASE h = g
  <2>1. to_relay(g)' = polled'[g] \o rest_of(Logs'[g], polling_nonce'[g])
      BY <1>1, <1>2, <1>4, <1>6, RelayedNext
  <2>2. to_relay(g)' = to_relay(g)
      BY <1>2, <2>1
  <2> QED BY <1>3, <1>4, <1>6, <2>2 DEF ComesStill, Coming, Has
<1> QED BY <1>5, <1>6

\* A gateway relays: what was on the way still is, but for the message that arrives.
LEMMA RelayIsComing ==
    ASSUME ServiceInv, NetworkOK, MailOK, Inv', QueuesInOrder', NetworkOK', MailOK',
           NEW g \in Gateway, relay(g), NEW x \in DOMAIN connections, connections[x].open,
           connections'[x].gateway = connections[x].gateway,
           NEW m, Coming(x, m), m # Head(polled[g])
    PROVE  Coming(x, m)'
<1>1. Inv /\ QueuesInOrder /\ CursorInv /\ ServedInv /\ CursorInv' /\ time \in Nat
    BY TimerTypes DEF ServiceInv, MailOK
<1>2. /\ UNCHANGED <<vars, polling_nonce>>
      /\ \A y \in Gateway : y # g => polled'[y] = polled[y]
    BY <1>1, RelayEffect
<1>3. Logs' = Logs
    BY <1>2 DEF vars, gateway_vars, Logs, logs_of
<1>4. PICK h : h = connections[x].gateway
    OBVIOUS
<1>5. connections'[x].gateway = h /\ h \in DOMAIN Logs /\ h \in Gateway
    BY <1>1, <1>4, LogsAreLogs DEF ServedInv, Served
<1>6. CASE h # g
  <2>1. ComesStill(x)
      BY <1>2, <1>3, <1>4, <1>5, <1>6, StillComing
  <2> QED BY <2>1 DEF ComesStill
<1>7. CASE h = g
  <2>1. PICK seq : seq = to_relay(g)
      OBVIOUS
  <2>2. /\ seq \in Seq(Message) /\ seq # << >> /\ Head(seq) = Head(polled[g])
        /\ to_relay(g)' = Tail(seq)
      BY <1>1, <1>5, <1>7, <2>1, RelayMoves
  <2>3. PICK i \in places(seq, x) : seq[i] = m
      BY <1>4, <1>7, <2>1 DEF Coming, Has
  <2>4. /\ Head(seq) = seq[1]
        /\ \A j \in 1..Len(seq) : j # 1 =>
               j - 1 \in 1..Len(Tail(seq)) /\ Tail(seq)[j - 1] = seq[j]
      BY <2>2, OneLess
  <2>5. i \in 1..Len(seq) /\ seq[i].client_key = x /\ i # 1
      BY <2>2, <2>3, <2>4 DEF places
  <2>6. i - 1 \in 1..Len(Tail(seq)) /\ Tail(seq)[i - 1] = m
      BY <2>3, <2>4, <2>5
  <2>7. i - 1 \in places(Tail(seq), x)
      BY <2>3, <2>5, <2>6 DEF places
  <2>8. Has(Tail(seq), x, m)
      BY <2>6, <2>7 DEF Has
  <2> QED BY <1>5, <1>7, <2>2, <2>8 DEF Coming, Has
<1> QED BY <1>6, <1>7

\* Every step but that of relaying leaves all that is on the way to a client there.
LEMMA OnlyRelayingTakes ==
    ASSUME ServiceInv, NetworkOK, MailOK, Inv', QueuesInOrder', NetworkOK', MailOK',
           [SystemNext]_system_vars, NEW x \in DOMAIN connections,
           connections[x].open, connections'[x].open
    PROVE  ComesStill(x) \/ \E g \in Gateway : relay(g)
<1>1. Inv /\ QueuesInOrder /\ ServedInv /\ ServedInv' /\ time \in Nat
    BY TimerTypes DEF ServiceInv, MailOK
<1>2. PICK h : h = connections[x].gateway
    OBVIOUS
<1>3. /\ x \in DOMAIN connections' /\ connections'[x].gateway = h
      /\ h \in DOMAIN Logs /\ h \in DOMAIN Logs'
    BY <1>1, <1>2, ConnectionsOnlyClose DEF ServedInv, Served
<1>4. ASSUME Logs' = Logs, UNCHANGED <<polled, polling_nonce>>
      PROVE  ComesStill(x)
    BY <1>2, <1>3, <1>4, StillComing
<1>5. CASE CanisterStep
  <2>1. UNCHANGED <<polled, polling_nonce, connections, time>>
      BY <1>5 DEF CanisterStep, network_vars
  <2>2. CASE Quiet \/ \E k : Drops(k)
      BY <1>4, <2>1, <2>2 DEF Quiet, Drops
  <2>3. CASE Retires
    <3>1. Logs' = Service!delete(Logs, expired_gateways)
        BY <2>3 DEF Retires
    <3>2. Logs'[h] = Logs[h]
        BY <1>3, <3>1 DEF Service!delete, Service!Restrict
    <3> QED BY <1>2, <1>3, <2>1, <3>2, StillComing
  <2>4. ASSUME NEW k, NEW content, Sends(k, content) \/ Closes(k, content)
        PROVE  ComesStill(x)
      BY <2>1, <2>4, SentIsComing
  <2> QED BY <1>5, <2>2, <2>3, <2>4 DEF CanisterStep
<1>6. ASSUME NEW p, NEW nonce, NEW g, Connects(p, nonce, g)
      PROVE  ComesStill(x)
    BY <1>6, ConnectIsComing
<1>7. ASSUME NEW k, client_send(k) \/ disconnect(k)
      PROVE  ComesStill(x)
  <2>1. UNCHANGED <<vars, polled, polling_nonce>>
      BY <1>7 DEF client_send, disconnect
  <2>2. Logs' = Logs
      BY <2>1 DEF vars, gateway_vars, Logs, logs_of
  <2> QED BY <1>4, <2>1, <2>2
<1>8. ASSUME NEW k, Delivers(k)
      PROVE  ComesStill(x)
  <2>1. UNCHANGED <<polled, polling_nonce, connections, time>>
      BY <1>8 DEF Delivers
  <2>2. CASE Logs' = Logs
      BY <1>4, <2>1, <2>2
  <2>3. CASE \E content : Closes(k, content)
      BY <2>1, <2>3, SentIsComing
  <2> QED BY <1>8, <2>2, <2>3 DEF Delivers, Receives, Quiet
<1>9. ASSUME NEW g \in Gateway, poll(g)
      PROVE  ComesStill(x)
    BY <1>9, PollIsComing
<1>10. CASE Ticks
  <2>1. Logs' = Logs /\ UNCHANGED <<polled, polling_nonce>>
      BY <1>10 DEF Ticks, Quiet, network_vars
  <2> QED BY <1>4, <2>1
<1> QED BY <1>1, <1>5, <1>6, <1>7, <1>8, <1>9, <1>10, SystemSteps

\* The canister gets the messages of a client in time.
AnswersInTime ==
    \A x \in DOMAIN connections :
        \A i \in 1..Len(to_canister[x]) : time <= to_canister[x][i].timestamp + Latency

LEMMA ClientMessageOK ==
    ASSUME NetworkOK, time \in Nat, NEW k \in DOMAIN connections,
           NEW kind \in {"Application", "KeepAlive"}
    PROVE  LET m == client_message(k, kind)
           IN  m \in ClientMessage /\ m.timestamp = time /\ m.kind = kind
<1>1. connections[k].sent + 1 \in Nat
    BY DEF NetworkOK, MapInto, Connection
<1> QED BY <1>1 DEF client_message, ClientMessage

\* A client sends one message at a time, the canister gets one, or neither.
LEMMA ClientMessages ==
    ASSUME Inv, QueuesInOrder, NetworkOK, [SystemNext]_system_vars,
           NEW x \in DOMAIN connections
    PROVE  \/ to_canister'[x] = to_canister[x]
           \/ \E m \in ClientMessage :
                  /\ m.timestamp = time /\ time' = time
                  /\ to_canister'[x] = Append(to_canister[x], m)
           \/ Delivers(x) /\ to_canister'[x] = Tail(to_canister[x])
<1> DEFINE added == \E m \in ClientMessage :
               /\ m.timestamp = time /\ time' = time
               /\ to_canister'[x] = Append(to_canister[x], m)
<1>1. time \in Nat /\ to_canister \in [DOMAIN connections -> Seq(ClientMessage)]
    BY TimerTypes DEF NetworkOK
<1>2. \/ CanisterStep \/ Ticks
      \/ \E p, nonce, g : Connects(p, nonce, g)
      \/ \E k : client_send(k) \/ disconnect(k) \/ Delivers(k)
      \/ \E g \in Gateway : poll(g) \/ relay(g)
    BY SystemSteps
<1>3. ASSUME NEW p, NEW nonce, NEW g, Connects(p, nonce, g)
      PROVE  to_canister'[x] = to_canister[x]
  <2>. p \in Principal /\ nonce \in ClientNonce /\ g \in Gateway
      BY <1>3 DEF Connects
  <2> QED BY <1>1, <1>3, ConnectEffect DEF Connects
<1>4. ASSUME NEW k, client_send(k)
      PROVE  to_canister'[x] = to_canister[x] \/ added
  <2>1. /\ is_open(k) /\ time' = time
        /\ x # k => to_canister'[x] = to_canister[x]
        /\ to_canister'[k] = Append(to_canister[k], client_message(k, "Application"))
      BY <1>1, <1>4, SendEffect DEF vars
  <2>2. PICK m : m = client_message(k, "Application")
      OBVIOUS
  <2>3. m \in ClientMessage /\ m.timestamp = time
      BY <1>1, <2>1, <2>2, ClientMessageOK DEF is_open
  <2> QED BY <2>1, <2>2, <2>3
<1>5. ASSUME NEW k, Delivers(k)
      PROVE  \/ to_canister'[x] = to_canister[x]
             \/ Delivers(x) /\ to_canister'[x] = Tail(to_canister[x])
    BY <1>1, <1>5 DEF Delivers
<1>6. ASSUME NEW g \in Gateway, relay(g)
      PROVE  to_canister'[x] = to_canister[x] \/ added
  <2>1. PICK k, is_ack : /\ k = Head(polled[g]).client_key
                         /\ is_ack = (Head(polled[g]).content.kind = "AckMessage")
      OBVIOUS
  <2>2. /\ UNCHANGED vars
        /\ x # k => to_canister'[x] = to_canister[x]
        /\ ~is_open(k) => to_canister' = to_canister
        /\ is_open(k) =>
               to_canister'[k] = IF is_ack
                                 THEN Append(to_canister[k], client_message(k, "KeepAlive"))
                                 ELSE to_canister[k]
      BY <1>1, <1>6, <2>1, RelayEffect
  <2>3. PICK m : m = client_message(k, "KeepAlive")
      OBVIOUS
  <2>4. is_open(k) => m \in ClientMessage /\ m.timestamp = time
      BY <1>1, <2>3, ClientMessageOK DEF is_open
  <2>5. time' = time
      BY <2>2 DEF vars
  <2> QED BY <2>2, <2>3, <2>4, <2>5
<1>7. ASSUME NEW k, disconnect(k)
      PROVE  to_canister'[x] = to_canister[x]
    BY <1>7 DEF disconnect
<1>8. ASSUME NEW g \in Gateway, poll(g)
      PROVE  to_canister'[x] = to_canister[x]
    BY <1>8 DEF poll
<1>9. CanisterStep \/ Ticks => to_canister'[x] = to_canister[x]
    BY DEF CanisterStep, Ticks, network_vars
<1> HIDE DEF added
<1>10. \/ to_canister'[x] = to_canister[x] \/ added
       \/ Delivers(x) /\ to_canister'[x] = Tail(to_canister[x])
    BY <1>2, <1>3, <1>4, <1>5, <1>6, <1>7, <1>8, <1>9
<1> QED BY <1>10 DEF added

LEMMA AnswersStayInTime ==
    ASSUME Inv, QueuesInOrder, NetworkOK, NetworkOK', AnswersInTime, [SystemNext]_system_vars
    PROVE  AnswersInTime'
<1>1. /\ time \in Nat /\ to_canister \in [DOMAIN connections -> Seq(ClientMessage)]
      /\ Latency \in Nat
    BY TimerTypes, LatencyAssumption DEF NetworkOK, LatencyAssumption
<1>2. \A m \in ClientMessage : m.timestamp \in Nat
    BY DEF ClientMessage
<1>3. ASSUME NEW x \in DOMAIN connections, NEW i \in 1..Len(to_canister[x])
      PROVE  /\ to_canister[x][i].timestamp \in Nat
             /\ time <= to_canister[x][i].timestamp + Latency
             /\ Ticks => time + 1 <= to_canister[x][i].timestamp + Latency
  <2>1. to_canister[x][i] \in ClientMessage /\ i \in DOMAIN to_canister[x]
      BY <1>1, ElementOfSeq, LenProperties
  <2>2. to_canister[x][i].timestamp \in Nat
      BY <1>2, <2>1
  <2>3. time <= to_canister[x][i].timestamp + Latency
      BY DEF AnswersInTime
  <2>4. Ticks => time < to_canister[x][i].timestamp + Latency
      BY <2>1 DEF Ticks, timely
  <2> QED BY <1>1, <2>2, <2>3, <2>4
<1>4. CASE Ticks
    BY <1>3, <1>4 DEF Ticks, network_vars, AnswersInTime
<1>5. ASSUME time' = time, NEW x \in DOMAIN connections, NEW i \in 1..Len(to_canister'[x])
      PROVE  time <= to_canister'[x][i].timestamp + Latency
  <2>. to_canister[x] \in Seq(ClientMessage)
      BY <1>1
  <2>1. CASE to_canister'[x] = to_canister[x]
      BY <1>3, <1>5, <2>1
  <2>2. ASSUME NEW m \in ClientMessage, m.timestamp = time,
               to_canister'[x] = Append(to_canister[x], m)
        PROVE  time <= to_canister'[x][i].timestamp + Latency
    <3>1. /\ Len(to_canister'[x]) = Len(to_canister[x]) + 1 /\ Len(to_canister[x]) \in Nat
          /\ to_canister'[x][Len(to_canister[x]) + 1] = m
          /\ \A j \in 1..Len(to_canister[x]) : to_canister'[x][j] = to_canister[x][j]
        BY <2>2, OneMore
    <3>2. i \in 1..Len(to_canister[x]) \/ i = Len(to_canister[x]) + 1
        BY <3>1
    <3> QED BY <1>1, <1>3, <2>2, <3>1, <3>2
  <2>3. CASE Delivers(x) /\ to_canister'[x] = Tail(to_canister[x])
    <3>1. to_canister[x] # << >>
        BY <2>3 DEF Delivers
    <3>2. /\ Len(to_canister[x]) \in Nat /\ Len(to_canister'[x]) = Len(to_canister[x]) - 1
          /\ \A j \in 1..Len(to_canister'[x]) : to_canister'[x][j] = to_canister[x][j + 1]
        BY <2>3, <3>1, OneLess
    <3>3. i + 1 \in 1..Len(to_canister[x])
        BY <3>2
    <3> QED BY <1>3, <3>2, <3>3
  <2> QED BY <2>1, <2>2, <2>3, ClientMessages
<1>6. ASSUME time' = time
      PROVE  AnswersInTime'
  <2>1. ASSUME NEW x \in DOMAIN connections' \ DOMAIN connections
        PROVE  to_canister'[x] = << >>
    <3>1. PICK p, nonce, g : Connects(p, nonce, g)
      <4>1. ASSUME NEW k, client_send(k) \/ disconnect(k) \/ Delivers(k)
            PROVE  DOMAIN connections' = DOMAIN connections
        <5>1. client_send(k) \/ disconnect(k) => DOMAIN connections' = DOMAIN connections
            BY <1>1, SendEffect, DisconnectEffect
        <5>2. Delivers(k) => connections' = connections
            BY DEF Delivers
        <5> QED BY <4>1, <5>1, <5>2
      <4>2. ASSUME NEW g \in Gateway, poll(g) \/ relay(g)
            PROVE  DOMAIN connections' = DOMAIN connections
          BY <1>1, <4>2, RelayEffect DEF poll
      <4>3. CanisterStep \/ Ticks => connections' = connections
          BY DEF CanisterStep, Ticks, network_vars
      <4> QED BY <2>1, <4>1, <4>2, <4>3, SystemSteps
    <3>2. connect(p, nonce, g)
        BY <3>1 DEF Connects
    <3>3. PICK k : k = [client_principal |-> p, client_nonce |-> nonce]
        OBVIOUS
    <3>4. DOMAIN connections' = DOMAIN connections \cup {k} /\ to_canister'[k] = << >>
        BY <3>2, <3>3 DEF connect, put
    <3> QED BY <2>1, <3>4
  <2>2. \A x \in DOMAIN connections' \ DOMAIN connections : Len(to_canister'[x]) = 0
      BY <2>1, EmptySeq
  <2>3. ASSUME NEW x \in DOMAIN connections', NEW i \in 1..Len(to_canister'[x])
        PROVE  time <= to_canister'[x][i].timestamp + Latency
    <3>1. x \in DOMAIN connections
        BY <2>2
    <3> QED BY <1>5, <1>6, <3>1
  <2> QED BY <1>6, <2>3 DEF AnswersInTime
<1>7. Ticks \/ time' = time
  <2>1. ASSUME NEW k, client_send(k) \/ disconnect(k)
        PROVE  time' = time
      BY <2>1 DEF client_send, disconnect, vars
  <2>2. ASSUME NEW g \in Gateway, poll(g) \/ relay(g)
        PROVE  time' = time
      BY <2>2 DEF poll, relay, vars
  <2>3. ASSUME NEW p, NEW nonce, NEW g, Connects(p, nonce, g)
        PROVE  time' = time
      BY <2>3 DEF Connects
  <2>4. CanisterStep \/ (\E k : Delivers(k)) => time' = time
      BY DEF CanisterStep, Delivers
  <2> QED BY <2>1, <2>2, <2>3, <2>4, SystemSteps
<1> QED BY <1>4, <1>6, <1>7

\* An acknowledgement of time A is on the way to k, its answer is on the way back, or the
\* canister has it.
Asked(k, A) ==
    \E m : Coming(k, m) /\ m.content.kind = "AckMessage" /\ m.timestamp = A

IsAnswer(m, A) == m.kind = "KeepAlive" /\ A <= m.timestamp /\ m.timestamp <= A + Latency

Answering(k, A) == \E i \in 1..Len(to_canister[k]) : IsAnswer(to_canister[k][i], A)

Answers(k, A) == A <= heard(k) \/ Answering(k, A) \/ Asked(k, A)

\* An acknowledgement that arrives is answered in time.
LEMMA AskedIsAnswered ==
    ASSUME ServiceInv, NetworkOK, MailOK, Inv', QueuesInOrder', NetworkOK', MailOK',
           [SystemNext]_system_vars, NEW x \in DOMAIN connections,
           connections[x].open, connections'[x].open,
           NEW A \in Nat, A <= time, Asked(x, A)
    PROVE  Asked(x, A)' \/ Answering(x, A)'
<1>1. /\ Inv /\ QueuesInOrder /\ CursorInv /\ ServedInv /\ time \in Nat
      /\ to_canister \in [DOMAIN connections -> Seq(ClientMessage)]
    BY TimerTypes DEF ServiceInv, MailOK, NetworkOK
<1>2. PICK m : Coming(x, m) /\ m.content.kind = "AckMessage" /\ m.timestamp = A
    BY DEF Asked
<1>3. CASE Coming(x, m)'
    BY <1>2, <1>3 DEF Asked
<1>4. ASSUME NEW g \in Gateway, relay(g), m = Head(polled[g])
      PROVE  Answering(x, A)'
  <2>1. m.client_key = x /\ time <= A + Latency
    <3>1. PICK seq : seq = to_relay(connections[x].gateway)
        OBVIOUS
    <3>2. PICK i \in places(seq, x) : seq[i] = m
        BY <1>2, <3>1 DEF Coming, Has
    <3>3. InTime(seq, x, time)
        BY <1>1, <3>1 DEF ServedInv, Served
    <3> QED BY <1>2, <3>2, <3>3 DEF places, InTime
  <2>2. PICK answer : answer = client_message(x, "KeepAlive")
      OBVIOUS
  <2>3. to_canister'[x] = Append(to_canister[x], answer)
    <3>1. is_open(x) /\ Head(polled[g]).client_key = x
          /\ Head(polled[g]).content.kind = "AckMessage"
        BY <1>2, <1>4, <2>1 DEF is_open
    <3>2. \A k : k = Head(polled[g]).client_key /\ is_open(k)
                 /\ Head(polled[g]).content.kind = "AckMessage" =>
                     to_canister'[k] = Append(to_canister[k], client_message(k, "KeepAlive"))
        BY <1>1, <1>4, RelayEffect
    <3> QED BY <2>2, <3>1, <3>2
  <2>4. answer \in ClientMessage /\ IsAnswer(answer, A)
    <3>1. answer \in ClientMessage /\ answer.timestamp = time /\ answer.kind = "KeepAlive"
        BY <1>1, <2>2, ClientMessageOK
    <3> QED BY <2>1, <3>1 DEF IsAnswer
  <2>. to_canister[x] \in Seq(ClientMessage) /\ answer \in ClientMessage
      BY <1>1, <2>4
  <2>5. /\ Len(to_canister'[x]) = Len(to_canister[x]) + 1 /\ Len(to_canister[x]) \in Nat
        /\ to_canister'[x][Len(to_canister[x]) + 1] = answer
      BY <2>3, OneMore
  <2>6. Len(to_canister[x]) + 1 \in 1..Len(to_canister'[x])
      BY <2>5
  <2>7. \E i \in 1..Len(to_canister'[x]) : IsAnswer(to_canister'[x][i], A)
      BY <2>4, <2>5, <2>6
  <2> QED BY <2>7 DEF Answering, IsAnswer
<1>5. ASSUME NEW g \in Gateway, relay(g), m # Head(polled[g])
      PROVE  Coming(x, m)'
  <2>1. connections'[x].gateway = connections[x].gateway
      BY <1>1, ConnectionsOnlyClose
  <2> QED BY <1>2, <1>5, <2>1, RelayIsComing
<1>6. ComesStill(x) => Coming(x, m)'
    BY <1>2 DEF ComesStill
<1> QED BY <1>3, <1>4, <1>5, <1>6, OnlyRelayingTakes

\* An answer on its way arrives.
LEMMA AnswerArrives ==
    ASSUME Inv, QueuesInOrder, NetworkOK, [SystemNext]_system_vars,
           NEW x \in Registered, x \in Registered',
           NEW A \in Nat, A <= time, Answering(x, A)
    PROVE  Answering(x, A)' \/ A <= heard(x)'
<1>1. x \in DOMAIN connections /\ to_canister[x] \in Seq(ClientMessage)
    BY DEF NetworkOK
<1>2. PICK i \in 1..Len(to_canister[x]) : IsAnswer(to_canister[x][i], A)
    BY DEF Answering
<1>3. ASSUME NEW j \in 1..Len(to_canister'[x]), to_canister'[x][j] = to_canister[x][i]
      PROVE  Answering(x, A)'
  <2>1. IsAnswer(to_canister'[x][j], A)
      BY <1>2, <1>3
  <2> QED BY <2>1 DEF Answering, IsAnswer
<1>. to_canister[x] \in Seq(ClientMessage)
    BY <1>1
<1>4. CASE to_canister'[x] = to_canister[x]
    BY <1>3, <1>4
<1>5. ASSUME NEW m \in ClientMessage, to_canister'[x] = Append(to_canister[x], m)
      PROVE  Answering(x, A)'
  <2>1. /\ Len(to_canister'[x]) = Len(to_canister[x]) + 1 /\ Len(to_canister[x]) \in Nat
        /\ \A j \in 1..Len(to_canister[x]) : to_canister'[x][j] = to_canister[x][j]
      BY <1>5, OneMore
  <2>2. i \in 1..Len(to_canister'[x])
      BY <2>1
  <2> QED BY <1>3, <2>1, <2>2
<1>6. CASE Delivers(x) /\ to_canister'[x] = Tail(to_canister[x])
  <2>1. /\ to_canister[x] # << >> /\ x \notin Registered \ Registered'
        /\ Head(to_canister[x]).kind = "KeepAlive" => heard(x)' = time
    <3>1. to_canister[x] # << >>
        BY <1>6 DEF Delivers
    <3>2. ~(\E content : Closes(x, content))
        BY DEF Closes
    <3> QED BY <1>6, <3>1, <3>2 DEF Delivers
  <2>2. /\ Head(to_canister[x]) = to_canister[x][1]
        /\ i # 1 => /\ i - 1 \in 1..Len(Tail(to_canister[x]))
                    /\ Tail(to_canister[x])[i - 1] = to_canister[x][i]
      BY <2>1, OneLess
  <2>3. CASE i = 1
      BY <1>2, <2>1, <2>2, <2>3 DEF IsAnswer
  <2>4. CASE i # 1
      BY <1>3, <1>6, <2>2, <2>4
  <2> QED BY <2>3, <2>4
<1> QED BY <1>1, <1>4, <1>5, <1>6, ClientMessages

LEMMA AnswersStay ==
    ASSUME ServiceInv, NetworkOK, MailOK, Inv', QueuesInOrder', NetworkOK', MailOK',
           [SystemNext]_system_vars, NEW x \in Registered, x \in Registered',
           connections[x].open, connections'[x].open,
           NEW A \in Nat, A <= time, Answers(x, A)
    PROVE  Answers(x, A)'
<1>1. /\ Inv /\ TimerInv /\ QueuesInOrder /\ x \in DOMAIN connections /\ [Next]_vars
    BY SystemSteps DEF ServiceInv, NetworkOK
<1>2. CASE A <= heard(x)
  <2>1. heard(x)' = heard(x) \/ heard(x)' = time
      BY <1>1, HeardGrows
  <2> QED BY <1>2, <2>1 DEF Answers
<1>3. CASE Answering(x, A)
    BY <1>1, <1>3, AnswerArrives DEF Answers
<1>4. CASE Asked(x, A)
    BY <1>1, <1>4, AskedIsAnswered DEF Answers
<1> QED BY <1>2, <1>3, <1>4 DEF Answers

\* The acknowledgement of time A was sent to k, and its check is still to come.
AskedAt(k, A) ==
    \/ /\ KEEP_ALIVE_TIMER \in timers /\ k \in CLIENTS_WAITING_FOR_KEEP_ALIVE
       /\ KEEP_ALIVE_TIMER.deadline = A + CLIENT_KEEP_ALIVE_TIMEOUT
    \/ executing = "send_ack" /\ k \notin client_keys /\ A = time

\* A client that is there and was asked answers.
AnswerInv ==
    \A k \in Registered : \A A \in Nat :
        connections[k].open /\ AskedAt(k, A) => Answers(k, A)

\* A client is asked when the loop of the acknowledgements comes to it.
LEMMA AskedBefore ==
    ASSUME Inv, TimerInv, DeadlineInv, [Next]_vars,
           NEW x \in Registered', NEW A \in Nat, AskedAt(x, A)'
    PROVE  /\ x \in Registered /\ A <= time
           /\ \/ AskedAt(x, A)
              \/ executing = "send_ack" /\ x \in client_keys \ client_keys' /\ A = time
<1>1. /\ CLIENTS_WAITING_FOR_KEEP_ALIVE \subseteq Registered
      /\ KEEP_ALIVE_TIMER # ACK_TIMER
      /\ executing = "send_ack" => KEEP_ALIVE_TIMER \notin timers
    BY DEF Inv, StateInv, RegistryConsistent, Registered, TimerInv
<1>2. ASSUME KEEP_ALIVE_TIMER \in timers,
             KEEP_ALIVE_TIMER.deadline = A + CLIENT_KEEP_ALIVE_TIMEOUT
      PROVE  A <= time
  <2>1. /\ ACK_TIMER.deadline <= time + PARAMS.send_ack_interval
        /\ ACK_TIMER.deadline - PARAMS.send_ack_interval
               = KEEP_ALIVE_TIMER.deadline - CLIENT_KEEP_ALIVE_TIMEOUT
      BY <1>2 DEF DeadlineInv
  <2> QED BY <1>2, <2>1, TimerTypes
<1>3. ASSUME UNCHANGED <<KEEP_ALIVE_TIMER, timers, time>>,
             CLIENTS_WAITING_FOR_KEEP_ALIVE' \subseteq CLIENTS_WAITING_FOR_KEEP_ALIVE,
             executing' # "send_ack"
      PROVE  x \in Registered /\ A <= time /\ AskedAt(x, A)
    BY <1>1, <1>2, <1>3 DEF AskedAt
<1>4. CASE LeavesTimers
  <2>1. UNCHANGED <<KEEP_ALIVE_TIMER, timers, time>> /\ (InsideLoop \/ OutsideLoops)
      BY <1>4 DEF LeavesTimers, timer_vars
  <2>2. CASE executing = "send_ack"
    <3>1. /\ executing' = "send_ack" /\ client_keys' \subseteq client_keys
          /\ x \in Registered
        BY <2>1, <2>2 DEF InsideLoop, OutsideLoops, idle, Registered
    <3>2. A = time /\ x \notin client_keys'
        BY <1>1, <2>1, <2>2 DEF AskedAt
    <3> QED BY <2>2, <3>1, <3>2, TimerTypes DEF AskedAt
  <2>3. CASE executing # "send_ack"
    <3>1. executing' # "send_ack"
        BY <2>1, <2>3 DEF InsideLoop, OutsideLoops
    <3> QED BY <1>3, <2>1, <2>3, <3>1, WaitingShrinks
  <2> QED BY <2>2, <2>3
<1>5. ASSUME NEW params \in InitParams, init(params) \/ upgrade(params)
      PROVE  FALSE
    BY <1>5, Restart DEF AskedAt
<1>6. CASE send_ack_to_clients
  <2>1. /\ UNCHANGED <<client_vars, KEEP_ALIVE_TIMER, timers, time>>
        /\ client_keys' = Registered
      BY <1>6 DEF send_ack_to_clients, start_loop, timer_vars, Registered
  <2>2. Registered' = Registered
      BY <2>1 DEF client_vars, Registered
  <2> QED BY <1>2, <2>1, <2>2 DEF AskedAt, client_vars
<1>7. CASE send_ack_end
  <2> DEFINE keep == CheckKeepAliveTimer(time + CLIENT_KEEP_ALIVE_TIMEOUT)
  <2>1. /\ KEEP_ALIVE_TIMER' = keep /\ keep.deadline = time + CLIENT_KEEP_ALIVE_TIMEOUT
        /\ executing = "send_ack" /\ executing' = "idle" /\ client_keys = {}
        /\ UNCHANGED client_vars
      BY <1>7, AckSets
  <2> HIDE DEF keep
  <2>2. Registered' = Registered
      BY <2>1 DEF client_vars, Registered
  <2>3. time + CLIENT_KEEP_ALIVE_TIMEOUT = A + CLIENT_KEEP_ALIVE_TIMEOUT
      BY <2>1 DEF AskedAt
  <2>4. A = time
    <3>1. time \in Nat /\ CLIENT_KEEP_ALIVE_TIMEOUT \in Nat
        BY TimerTypes
    <3> QED BY <2>3, <3>1
  <2> QED BY <2>1, <2>2, <2>4, TimerTypes DEF AskedAt
<1>8. CASE check_keep_alive
  <2>1. /\ timers' = {ACK_TIMER} /\ KEEP_ALIVE_TIMER' = KEEP_ALIVE_TIMER
        /\ executing' = "check_keep_alive"
      BY <1>8, CheckFires
  <2> QED BY <1>1, <2>1 DEF AskedAt
<1>9. CASE tick
  <2>1. /\ UNCHANGED <<client_vars, KEEP_ALIVE_TIMER, timers>> /\ executing' = "idle"
      BY <1>9 DEF tick, idle, timer_vars, loop_vars
  <2>2. Registered' = Registered
      BY <2>1 DEF client_vars, Registered
  <2> QED BY <1>2, <2>1, <2>2 DEF AskedAt, client_vars
<1> QED BY <1>4, <1>5, <1>6, <1>7, <1>8, <1>9, Steps

\* The client the loop of the acknowledgements comes to is sent one.
LEMMA LoopAsks ==
    ASSUME ServiceInv, NetworkOK, MailOK, Inv', QueuesInOrder', NetworkOK', MailOK',
           [SystemNext]_system_vars, executing = "send_ack",
           NEW x \in client_keys, x \notin client_keys', connections[x].open,
           NEW A \in Nat, A = time
    PROVE  Asked(x, A)'
<1>1. Inv /\ QueuesInOrder /\ x \in DOMAIN connections
    BY DEF ServiceInv, Inv, ControlInv, LoopKeysAreRegistered, NetworkOK, Registered
<1>2. /\ ~idle /\ client_keys # {} /\ client_keys' # client_keys
    BY DEF idle
<1>3. send_ack(x) /\ UNCHANGED network_vars
  <2>1. ASSUME NEW p \in Principal, NEW nonce \in ClientNonce, NEW g \in Gateway,
               connect(p, nonce, g)
        PROVE  FALSE
      BY <1>2, <2>1 DEF connect, ws_open
  <2>2. ASSUME NEW k, disconnect(k) \/ client_send(k) \/ deliver(k) \/ report_closed(k)
        PROVE  FALSE
      BY <1>2, <2>2 DEF disconnect, client_send, deliver, report_closed, ws_close,
                        vars, loop_vars
  <2>3. ASSUME NEW g \in Gateway, poll(g) \/ relay(g)
        PROVE  FALSE
      BY <1>2, <2>3 DEF poll, relay, vars, loop_vars
  <2>4. ASSUME NEW p \in Principal, application(p)
        PROVE  FALSE
      BY <1>2, <2>4 DEF application, send, close, not_in_on_close, loop_vars
  <2>5. ~tick /\ ~(UNCHANGED system_vars)
      BY <1>2 DEF tick, system_vars, vars, loop_vars
  <2>6. run => send_ack(x)
    <3>1. ~send_ack_to_clients /\ ~send_ack_end /\ ~check_keep_alive
          /\ ~check_keep_alive_end
        BY <1>2 DEF send_ack_to_clients, send_ack_end, check_keep_alive,
                    check_keep_alive_end, end_loop
    <3>2. \A k : ~close_silent_client(k)
        BY DEF close_silent_client, next_iteration
    <3>3. \A k : send_ack(k) => k = x
        BY DEF send_ack, next_iteration
    <3> QED BY <3>1, <3>2, <3>3 DEF run
  <2> QED BY <2>1, <2>2, <2>3, <2>4, <2>5, <2>6 DEF SystemNext
<1>4. PICK content :
          content.kind = "AckMessage" /\ Sends(x, content) /\ time' = time
    BY <1>1, <1>3, AckSends
<1>5. UNCHANGED <<polling_nonce, polled, connections, time>>
    BY <1>3, <1>4 DEF network_vars
<1>6. Comes(x, content)
    BY <1>1, <1>4, <1>5, SentIsComing
<1> QED BY <1>4, <1>6 DEF Comes, Asked

LEMMA AnswerInductive ==
    ASSUME ServiceInv, DeadlineInv, NetworkOK, MailOK, AnswerInv,
           Inv', QueuesInOrder', NetworkOK', MailOK', [SystemNext]_system_vars
    PROVE  AnswerInv'
<1>1. Inv /\ TimerInv /\ QueuesInOrder /\ [Next]_vars
    BY SystemSteps DEF ServiceInv
<1>2. ASSUME NEW x \in Registered', NEW A \in Nat, connections'[x].open, AskedAt(x, A)'
      PROVE  Answers(x, A)'
  <2>1. /\ x \in Registered /\ A <= time
        /\ \/ AskedAt(x, A)
           \/ executing = "send_ack" /\ x \in client_keys \ client_keys' /\ A = time
      BY <1>1, <1>2, AskedBefore
  <2>2. x \in DOMAIN connections /\ connections[x].open
    <3>1. x \in DOMAIN connections
        BY <2>1 DEF NetworkOK
    <3> QED BY <1>1, <1>2, <3>1, ConnectionsOnlyClose
  <2>3. CASE AskedAt(x, A)
    <3>1. Answers(x, A)
        BY <2>1, <2>2, <2>3 DEF AnswerInv
    <3> QED BY <1>2, <2>1, <2>2, <3>1, AnswersStay
  <2>4. CASE executing = "send_ack" /\ x \in client_keys \ client_keys' /\ A = time
    <3>1. Asked(x, A)'
        BY <2>2, <2>4, LoopAsks
    <3> QED BY <3>1 DEF Answers
  <2> QED BY <2>1, <2>3, <2>4
<1> QED BY <1>2 DEF AnswerInv

\* A client that is there and that a check finds silent was sent the acknowledgement of
\* that check, and its answer is on the way to the canister.
LateAnswer(x) == \E A \in Nat : time = A + CLIENT_KEEP_ALIVE_TIMEOUT /\ Answering(x, A)

LEMMA SilentIsAnswering ==
    ASSUME ServiceInv, DeadlineInv, NetworkOK, MailOK, AnswerInv,
           MaxTimerDelay = 0, KEEP_ALIVE_TIMER \in timers, KEEP_ALIVE_TIMER.deadline <= time,
           NEW x \in CLIENTS_WAITING_FOR_KEEP_ALIVE, x \in Registered, is_silent(x),
           connections[x].open
    PROVE  LateAnswer(x)
<1>1. /\ Inv /\ ServedInv /\ x \in DOMAIN connections
      /\ time \in Nat /\ CLIENT_KEEP_ALIVE_TIMEOUT \in Nat
      /\ heard(x) \in Nat /\ KEEP_ALIVE_TIMER.deadline \in Nat
      /\ Latency \in Nat /\ Latency < CLIENT_KEEP_ALIVE_TIMEOUT
  <2>1. /\ Inv /\ ServedInv /\ x \in DOMAIN connections
        /\ time \in Nat /\ CLIENT_KEEP_ALIVE_TIMEOUT \in Nat
        /\ heard(x) \in Nat /\ KEEP_ALIVE_TIMER.deadline \in Nat
      BY TimerTypes DEF ServiceInv, MailOK, NetworkOK, Registered
  <2>2. /\ Latency \in Nat /\ 0 < CLIENT_KEEP_ALIVE_TIMEOUT
        /\ 2 * Latency <= CLIENT_KEEP_ALIVE_TIMEOUT
      BY LatencyAssumption DEF LatencyAssumption
  <2> QED BY <2>1, <2>2
<1>2. time <= KEEP_ALIVE_TIMER.deadline + MaxTimerDelay
    BY DEF DeadlineInv
<1>3. KEEP_ALIVE_TIMER.deadline = time
    BY <1>1, <1>2
<1>4. time - heard(x) > CLIENT_KEEP_ALIVE_TIMEOUT
    BY DEF is_silent, heard
<1>5. PICK A \in Nat : time = A + CLIENT_KEEP_ALIVE_TIMEOUT
  <2>1. /\ time - CLIENT_KEEP_ALIVE_TIMEOUT \in Nat
        /\ time = (time - CLIENT_KEEP_ALIVE_TIMEOUT) + CLIENT_KEEP_ALIVE_TIMEOUT
      BY <1>1, <1>4
  <2> QED BY <2>1
<1>6. Answers(x, A)
    BY <1>3, <1>5 DEF AskedAt, AnswerInv
<1>7. ~(A <= heard(x))
    BY <1>1, <1>4, <1>5
<1>8. ~Asked(x, A)
  <2>1. ASSUME NEW m, Coming(x, m), m.timestamp = A
        PROVE  FALSE
    <3>1. PICK seq : seq = to_relay(connections[x].gateway)
        OBVIOUS
    <3>2. PICK i \in places(seq, x) : seq[i] = m
        BY <2>1, <3>1 DEF Coming, Has
    <3>3. InTime(seq, x, time)
        BY <1>1, <3>1 DEF ServedInv, Served
    <3>4. time <= A + Latency
        BY <2>1, <3>2, <3>3 DEF InTime
    <3> QED BY <1>1, <1>5, <3>4
  <2> QED BY <2>1 DEF Asked
<1> QED BY <1>5, <1>6, <1>7, <1>8 DEF Answers, LateAnswer

\* While the check runs, no answer of a client it has still to come to is delivered.
LEMMA LateAnswerStays ==
    ASSUME ServiceInv, NetworkOK, [SystemNext]_system_vars, time' = time,
           NEW x \in Registered, x \in Registered', is_silent(x), heard(x)' = heard(x),
           LateAnswer(x)
    PROVE  LateAnswer(x)'
<1>1. /\ Inv /\ QueuesInOrder /\ time \in Nat /\ heard(x) \in Nat
      /\ CLIENT_KEEP_ALIVE_TIMEOUT \in Nat
    BY TimerTypes DEF ServiceInv, Registered
<1>2. PICK A \in Nat : time = A + CLIENT_KEEP_ALIVE_TIMEOUT /\ Answering(x, A)
    BY DEF LateAnswer
<1>3. A <= time /\ time - heard(x) > CLIENT_KEEP_ALIVE_TIMEOUT
    BY <1>1, <1>2 DEF is_silent, heard
<1>4. ~(A <= heard(x))
    BY <1>1, <1>2, <1>3
<1>5. Answering(x, A)' \/ A <= heard(x)'
    BY <1>1, <1>2, <1>3, AnswerArrives
<1>6. Answering(x, A)'
    BY <1>4, <1>5
<1> QED BY <1>2, <1>6 DEF LateAnswer

\* The clients that a check has still to come to are gone, or their answer is late.
ResponsiveInv ==
    executing = "check_keep_alive" =>
        \A k \in client_keys : is_open(k) => LateAnswer(k)

LEMMA ResponsiveInductive ==
    ASSUME MaxTimerDelay = 0,
           ServiceInv, DeadlineInv, NetworkOK, MailOK, AnswerInv,
           ResponsiveInv, ServiceInv', [SystemNext]_system_vars
    PROVE  ResponsiveInv'
<1>1. /\ Inv /\ TimerInv /\ QueuesInOrder /\ [Next]_vars
      /\ client_keys \subseteq Registered /\ Registered \subseteq DOMAIN connections
      /\ client_keys' \subseteq Registered'
    BY SystemSteps DEF ServiceInv, Inv, ControlInv, LoopKeysAreRegistered, NetworkOK, Registered
<1>2. ASSUME NEW x \in Registered, is_open(x)'
      PROVE  connections[x].open /\ is_open(x)
  <2>1. x \in DOMAIN connections
      BY <1>1
  <2> QED BY <1>1, <1>2, <2>1, ConnectionsOnlyClose DEF is_open
<1> SUFFICES ASSUME executing' = "check_keep_alive", NEW x \in client_keys', is_open(x)'
             PROVE  LateAnswer(x)'
    BY DEF ResponsiveInv
<1>3. CASE LeavesTimers
  <2>1. /\ executing = "check_keep_alive" /\ x \in client_keys
        /\ time' = time /\ heard(x)' = heard(x)
      BY <1>1, <1>3 DEF LeavesTimers, InsideLoop, OutsideLoops, Registered
  <2>2. LateAnswer(x)
      BY <1>1, <1>2, <2>1 DEF ResponsiveInv
  <2>3. is_silent(x)
      BY <2>1 DEF ServiceInv, CheckInv
  <2> QED BY <1>1, <2>1, <2>2, <2>3, LateAnswerStays
<1>4. CASE check_keep_alive
  <2>1. /\ KEEP_ALIVE_TIMER \in timers /\ KEEP_ALIVE_TIMER.deadline <= time
        /\ x \in CLIENTS_WAITING_FOR_KEEP_ALIVE /\ x \in Registered /\ is_silent(x)
        /\ time' = time /\ heard(x)' = heard(x)
      BY <1>1, <1>4, CheckFires DEF Registered, heard, client_vars
  <2>2. LateAnswer(x)
      BY <1>2, <2>1, SilentIsAnswering
  <2> QED BY <1>1, <2>1, <2>2, LateAnswerStays
<1>5. ASSUME NEW params \in InitParams, init(params) \/ upgrade(params)
      PROVE  FALSE
    BY <1>1, <1>5, Restart
<1>6. ~send_ack_to_clients /\ ~send_ack_end /\ ~tick
    BY DEF send_ack_to_clients, start_loop, send_ack_end, end_loop, tick, idle, loop_vars
<1> QED BY <1>1, <1>3, <1>4, <1>5, <1>6, Steps

\* An answer that is late, and in time, is at the bound.
LEMMA LateIsAtTheBound ==
    ASSUME Inv, NetworkOK, AnswersInTime, NEW x \in DOMAIN connections, LateAnswer(x)
    PROVE  answers_at_the_bound(x)
<1>1. /\ time \in Nat /\ CLIENT_KEEP_ALIVE_TIMEOUT \in Nat
      /\ Latency \in Nat /\ 2 * Latency <= CLIENT_KEEP_ALIVE_TIMEOUT
    BY TimerTypes, LatencyAssumption DEF LatencyAssumption
<1>2. PICK A \in Nat : time = A + CLIENT_KEEP_ALIVE_TIMEOUT /\ Answering(x, A)
    BY DEF LateAnswer
<1>3. PICK i \in 1..Len(to_canister[x]) : IsAnswer(to_canister[x][i], A)
    BY <1>2 DEF Answering
<1>4. /\ to_canister[x][i] \in ClientMessage /\ i \in DOMAIN to_canister[x]
    BY ElementOfSeq, LenProperties DEF NetworkOK
<1>5. PICK t \in Nat : t = to_canister[x][i].timestamp
    BY <1>4 DEF ClientMessage
<1>6. time <= t + Latency /\ t <= A + Latency /\ to_canister[x][i].kind = "KeepAlive"
    BY <1>3, <1>5 DEF AnswersInTime, IsAnswer
<1>7. 2 * Latency = CLIENT_KEEP_ALIVE_TIMEOUT /\ t + Latency = time
    BY <1>1, <1>2, <1>6
<1> QED BY <1>4, <1>5, <1>6, <1>7 DEF answers_at_the_bound

\* With messages within the latency bound and timers on time, a client that is there
\* is closed by the keep alive check only at the bound: since the acknowledgement the
\* check belongs to, it was heard of, or the acknowledgement or its answer is still on
\* its way; at the time of the check the acknowledgement cannot be, and the answer
\* only if both took half of the timeout (lib.rs:36), the constants of the code
\* included.  The timers have to be on time: the run late_check shows a client that
\* answered and is removed by a late one.
THEOREM RespondingClientsStay ==
    ASSUME MaxTimerDelay = 0
    PROVE  SystemSpec => []ResponsiveClientsStay
<1> DEFINE known == ServiceInv /\ DeadlineInv /\ NetworkOK /\ MailOK
           OK == AnswerInv /\ AnswersInTime /\ ResponsiveInv
<1>1. SystemSpec => []known
    BY SystemIsCdk, DeadlineInvariant, MailInvariant, PTL
<1>2. SystemInit => OK
  <2> SUFFICES ASSUME SystemInit PROVE OK
      OBVIOUS
  <2>1. /\ DOMAIN REGISTERED_CLIENTS = {} /\ DOMAIN connections = {}
        /\ executing = "idle"
      BY DEF SystemInit, Init, EmptyMap
  <2> QED BY <2>1 DEF AnswerInv, AnswersInTime, ResponsiveInv, Registered
<1>3. known /\ OK /\ known' /\ [SystemNext]_system_vars => OK'
  <2> SUFFICES ASSUME known, OK, known', [SystemNext]_system_vars PROVE OK'
      OBVIOUS
  <2>1. Inv /\ QueuesInOrder /\ Inv' /\ QueuesInOrder'
      BY DEF ServiceInv
  <2>2. AnswerInv'
      BY <2>1, AnswerInductive
  <2>3. AnswersInTime'
      BY <2>1, AnswersStayInTime
  <2>4. ResponsiveInv'
      BY ResponsiveInductive
  <2> QED BY <2>2, <2>3, <2>4
<1>4. known /\ OK => ResponsiveClientsStay
  <2> SUFFICES ASSUME known, OK, executing = "check_keep_alive",
                      NEW k \in client_keys, is_open(k)
               PROVE  answers_at_the_bound(k)
      BY DEF ResponsiveClientsStay
  <2>1. LateAnswer(k) /\ Inv /\ k \in DOMAIN connections
      BY DEF ResponsiveInv, ServiceInv, is_open
  <2> QED BY <2>1, LateIsAtTheBound
<1> QED BY <1>1, <1>2, <1>3, <1>4, PTL DEF SystemSpec

\* Below the bound the check closes no client that is there: the latency of the run
\* latency_bound is the smallest with which it may.
THEOREM PromptClientsStay ==
    ASSUME MaxTimerDelay = 0, 2 * Latency < CLIENT_KEEP_ALIVE_TIMEOUT
    PROVE  SystemSpec => []AllowedLatencyKeepsClients
<1>1. ~(2 * Latency = CLIENT_KEEP_ALIVE_TIMEOUT)
    BY LatencyAssumption, ConstantsAssumption DEF LatencyAssumption, ConstantsAssumption
<1>2. ResponsiveClientsStay => AllowedLatencyKeepsClients
    BY <1>1 DEF ResponsiveClientsStay, AllowedLatencyKeepsClients, answers_at_the_bound
<1> QED BY <1>2, RespondingClientsStay, PTL
=============================================================================
