----------------------------- MODULE BinaryCodec -----------------------------
(***************************************************************************)
(* The binary protocol (library/protocol/binary): commands decoded from    *)
(* the bytes a client writes, settings encoded into a response buffer, and *)
(* the client's side as library/protocol/binary/README.md documents it.    *)
(* Bytes are 0..Radix-1; Radix is 256, and smaller in TLC's instances, so  *)
(* that the limits of one-byte lengths are in reach.                       *)
(***************************************************************************)
EXTENDS Integers, Sequences

CONSTANT Radix

USPC_GET == 1
USPC_GET_FULL == 2
USPC_LIST == 3
USPC_LIST_FULL == 4
USPC_SET == 5
USPC_SET_DEFAULT == 6
USPC_RESTORE == 7
USPC_LIST_SOME == 8
USPC_LIST_SOME_FULL == 9

ASSUME RadixAssumption == Radix \in Nat /\ Radix > USPC_LIST_SOME_FULL

TypeOnly == {USPC_LIST, USPC_LIST_FULL, USPC_RESTORE}
OneId == {USPC_GET, USPC_GET_FULL}
WithValue == {USPC_SET, USPC_SET_DEFAULT}
ManyIds == {USPC_LIST_SOME, USPC_LIST_SOME_FULL}
Full == {USPC_GET_FULL, USPC_LIST_FULL, USPC_LIST_SOME_FULL}
Commands == TypeOnly \cup OneId \cup WithValue \cup ManyIds

Octet == 0..(Radix - 1)             \* uint8_t
IdRange == 0..(Radix * Radix - 1)   \* uint16_t
NUL == 0
Byte(n) == n % Radix                               \* a cast to uint8_t
Word(n) == <<Byte(n), Byte(n \div Radix)>>         \* little endian
WordAt(b, i) == b[i] + Radix * b[i + 1]

-----------------------------------------------------------------------------
(* user_settings_protocol_binary_decode_command *)

Refused(err) == [err |-> err, type |-> 0, id |-> 0, len |-> 0, value |-> <<>>]
Command(type, id, len, value) ==
    [err |-> "ok", type |-> type, id |-> id, len |-> len, value |-> value]

CommandRecord ==
    [err : {"ok", "EPROTO", "ENOTSUP", "none"}, type : Octet, id : IdRange,
     len : Octet, value : Seq(Octet)]

\* The length of the write agrees with its command.
LengthAgrees(b) ==
    \/ b[1] \in TypeOnly
    \/ b[1] \in OneId /\ Len(b) = 3
    \/ b[1] \in WithValue /\ Len(b) >= 5
    \/ b[1] \in ManyIds /\ Len(b) >= 2 /\ (Len(b) - 2) \div 2 = b[2]

DecodeKnown(b) ==
    LET type == b[1] IN
    CASE type \in TypeOnly -> Command(type, 0, 0, <<>>)
      [] type \in OneId -> Command(type, WordAt(b, 2), 0, <<>>)
      [] type \in WithValue ->
             Command(type, WordAt(b, 2), b[4], SubSeq(b, 5, 4 + b[4]))
      [] type \in ManyIds ->
             Command(type, 0, Byte(2 * b[2]), SubSeq(b, 3, Len(b)))

Decode(b) ==
    IF b = <<>> THEN Refused("EPROTO")
    ELSE IF b[1] \notin Commands THEN Refused("ENOTSUP")
    ELSE IF ~LengthAgrees(b) THEN Refused("EPROTO")
    ELSE DecodeKnown(b)

\* The ids of a LIST_SOME command, as the executor reads them.
Ids(cmd) == [i \in 1..(cmd.len \div 2) |-> WordAt(cmd.value, 2 * i - 1)]

-----------------------------------------------------------------------------
(* prv_encode_required_bytes, user_settings_protocol_binary_encode and their *)
(* full forms.  A setting is a record [id, key, type, max, data, default],   *)
(* data and default being sequences of bytes, empty when not set.            *)

Required(r, full) ==
    2 + Len(r.key) + 1 + 1 + 1 + Len(r.data)
      + IF full THEN 1 + 1 + Len(r.default) ELSE 0

LengthAndBytes(d) == <<Byte(Len(d))>> \o d

HighByteFirst(r, full) ==    \* mutant: the id is big endian
    <<Byte(r.id \div Radix), Byte(r.id)>> \o r.key \o <<NUL, r.type>>
      \o LengthAndBytes(r.data)
      \o IF full THEN LengthAndBytes(r.default) \o <<Byte(r.max)>> ELSE <<>>

Encoded(r, full) ==
    Word(r.id) \o r.key \o <<NUL, r.type>> \o LengthAndBytes(r.data)
      \o IF full THEN LengthAndBytes(r.default) \o <<Byte(r.max)>> ELSE <<>>

\* Mutant: the byte that terminates the key is not counted.
FitsBuffer(r, full, size) == Required(r, full) - 1 <= size
EncodeFits(r, full, size) == Required(r, full) <= size   \* else -ENOMEM

-----------------------------------------------------------------------------
(* The client *)

ClientGets(type, id) == <<type>> \o Word(id)
ClientSets(type, id, v) == <<type>> \o Word(id) \o <<Len(v)>> \o v
ClientLists(type, ids) ==
    <<type, Len(ids)>> \o [i \in 1..(2 * Len(ids)) |->
                              Word(ids[(i + 1) \div 2])[2 - (i % 2)]]

\* What the client reads from a response.
ClientReads(b, full) ==
    LET end == CHOOSE i \in 3..Len(b) :
                   b[i] = NUL /\ \A j \in 3..(i - 1) : b[j] # NUL
        len == b[end + 2]
        rest == SubSeq(b, end + 3 + len, Len(b))
    IN [id |-> WordAt(b, 1), key |-> SubSeq(b, 3, end - 1),
        type |-> b[end + 1], data |-> SubSeq(b, end + 3, end + 2 + len),
        default |-> IF full THEN SubSeq(rest, 2, 1 + rest[1]) ELSE <<>>,
        max |-> IF full THEN rest[2 + rest[1]] ELSE 0,
        extra |-> IF full THEN Len(rest) - 2 - rest[1] ELSE Len(rest)]
=============================================================================
