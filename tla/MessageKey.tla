----------------------------- MODULE MessageKey -----------------------------
(***************************************************************************)
(* The keys of messages as the strings they are in the code: the text of   *)
(* the gateway's principal, an underscore, and the nonce padded with       *)
(* zeros.  RegisteredGateway and WsCdk compare nonces where the code       *)
(* compares these strings, in the queue (state.rs, partition_point) and in *)
(* the tree that all gateways share (value_range).  This module holds the  *)
(* queues of some gateways and says when that is the same.                 *)
(*                                                                         *)
(* A string is a sequence of character codes in the order of ASCII:        *)
(* dash, digits, underscore, letters.                                      *)
(***************************************************************************)
EXTENDS RegisteredGateway, SequencesExt

CONSTANTS
    Text,        \* the texts of the gateways' principals
    Base, Width, \* 10 and 20 in the code
    MaxNonce     \* u64::MAX in the code

Dash == 0
Digit(d) == d + 1
Underscore == Base + 1
Letter == Base + 2

\* Every nonce has at most Width digits, and a principal's text no underscore.
ASSUME KeyAssumption ==
    /\ Base \in Nat /\ Width \in Nat /\ Base > 1
    /\ MaxNonce \in 0..Base^Width - 1
    /\ \A text \in Text : text \in Seq({Dash, Letter} \cup {Digit(d) : d \in 0..Base - 1})

VARIABLE REGISTERED_GATEWAYS   \* text -> RegisteredGateway

\* u64::to_string
to_string(n) ==
    LET len == CHOOSE w \in 1..Width : n < Base^w /\ (w > 1 => n >= Base^(w - 1))
    IN  [i \in 1..len |-> Digit((n \div Base^(len - i)) % Base)]

zeros(n) == [i \in 1..n |-> Digit(0)]

\* Mutants: no padding, and padding on the other side.
unpadded(digits) == digits
pad_right(digits) == digits \o zeros(Width - Len(digits))

\* {:0>20}
pad(digits) == zeros(Width - Len(digits)) \o digits

\* Mutant: nothing between the principal and the nonce.
format_without_separator(gateway, nonce) == gateway \o pad(to_string(nonce))

format_message_for_gateway_key(gateway, nonce) ==
    gateway \o <<Underscore>> \o pad(to_string(nonce))

\* Str::cmp
less(s, t) ==
    \E i \in DOMAIN t :
        /\ \A j \in 1..i - 1 : j \in DOMAIN s /\ s[j] = t[j]
        /\ i \in DOMAIN s => s[i] < t[i]

\* The nonce a poller reads from a key: the number after the last underscore.
get_polling_nonce(key) ==
    LET last == CHOOSE i \in DOMAIN key :
                    /\ key[i] = Underscore
                    /\ \A j \in i + 1..Len(key) : key[j] # Underscore
    IN  FoldLeft(LAMBDA n, digit : n * Base + digit - 1, 0, SubSeq(key, last + 1, Len(key)))

string_of(m) == format_message_for_gateway_key(m.key[1], m.key[2])

----------------------------------------------------------------------------

Init == REGISTERED_GATEWAYS = [g \in Text |-> new_gateway]

\* Bound: MaxNonce.
send(g) ==
    LET gw == REGISTERED_GATEWAYS[g]
    IN  /\ gw.outgoing_message_nonce <= MaxNonce
        /\ REGISTERED_GATEWAYS' = [REGISTERED_GATEWAYS EXCEPT ![g] =
               add_message_to_queue(@, [key |-> <<g, gw.outgoing_message_nonce>>], 0)]

\* The oldest message is pruned: of age 1, over a maximum of 0.
prune(g) ==
    /\ REGISTERED_GATEWAYS[g].messages_queue # << >>
    /\ REGISTERED_GATEWAYS' =
           [REGISTERED_GATEWAYS EXCEPT ![g] = delete_old_messages(@, 1, 1, 0)]

Next == \E g \in Text : send(g) \/ prune(g)

Spec == Init /\ [][Next]_REGISTERED_GATEWAYS

----------------------------------------------------------------------------

queue_of(g) == REGISTERED_GATEWAYS[g].messages_queue
tree_keys == UNION {keys_of(REGISTERED_GATEWAYS[g]) : g \in Text}

\* partition_point finds, by comparing strings, the message that comparing nonces
\* finds: also where the number of digits changes, which unpadded keys get wrong.
PollStartsAtNonce ==
    \A g \in Text, nonce \in 0..MaxNonce :
        \A i \in DOMAIN queue_of(g) :
            less(string_of(queue_of(g)[i]), format_message_for_gateway_key(g, nonce))
                <=> i <= start_index(REGISTERED_GATEWAYS[g], nonce)

\* The strings of the shared tree between those of two messages of a queue are
\* those of the messages between them: value_range shows no other gateway's.
RangeIsOfOneQueue ==
    \A g \in Text :
        \A i, j \in DOMAIN queue_of(g) :
            {key \in tree_keys :
                LET s == format_message_for_gateway_key(key[1], key[2])
                IN  /\ ~less(s, string_of(queue_of(g)[i]))
                    /\ ~less(string_of(queue_of(g)[j]), s)}
                = {queue_of(g)[h].key : h \in i..j}

\* A poller reads the nonce back from the key, whatever the text before it, and
\* so goes on after the last message it got.
NonceIsReadBack ==
    \A g \in Text : \A i \in DOMAIN queue_of(g) :
        get_polling_nonce(string_of(queue_of(g)[i])) = queue_of(g)[i].key[2]
=============================================================================
