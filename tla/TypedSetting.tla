---------------------------- MODULE TypedSetting ----------------------------
(***************************************************************************)
(* One setting with its type, its buffer of max_size bytes and its         *)
(* validation callback from user_settings_validation_helpers.h, and what   *)
(* the front ends make of it: the conversions of user_settings_json.c and  *)
(* user_settings_shell.c, and raw bytes from the binary protocol.          *)
(*                                                                         *)
(* A byte of an integer is 0..Radix-1 (256 in the code, smaller in TLC's   *)
(* instances), so that all integers of a type can be enumerated.  Bytes of *)
(* strings are character codes.                                            *)
(***************************************************************************)
EXTENDS Integers, Sequences

CONSTANTS
    Radix,       \* values of a byte
    Types,       \* the types of the settings to look at
    NULL,        \* no flash entry
    Numbers,     \* integers in JSON documents and shell arguments
    Texts,       \* strings in JSON documents and shell arguments
    Written,     \* Written[type]: payloads the protocol or a caller sets
    MaxSizes,    \* sizes a firmware may give a string or bytes setting
    Checks       \* Checks[type]: validation callbacks

Unsigned == {"u8", "u16", "u32", "u64"}
Signed == {"i8", "i16", "i32", "i64"}
Fixed == Unsigned \cup Signed \cup {"bool"}
Sized == {"str", "bytes"}

\* What a byte of a setting can be.
Byte(ty) == IF ty \in Sized THEN 0..255 ELSE 0..(Radix - 1)

ASSUME TypedAssumption ==
    /\ Radix \in Nat \ {0, 1}
    /\ Types \subseteq Fixed \cup Sized
    /\ MaxSizes \subseteq Nat \ {0}

ASSUME InputAssumption ==
    /\ NULL \notin Seq(Int)
    /\ Numbers \subseteq Int
    /\ Texts \subseteq Seq(1..255)       \* C strings: no NUL inside
    /\ \A ty \in Types : Written[ty] \subseteq Seq(Byte(ty))

VARIABLES
    type, max, check,    \* of the firmware: type, max_size, validate_cb
    buf, len, isSet,     \* data, data_len, is_set
    nvs,                 \* the flash entry
    ret                  \* the result of the last call

vars == <<type, max, check, buf, len, isSet, nvs, ret>>

-----------------------------------------------------------------------------
(* Integers in memory *)

\* prv_type_to_size
Size(ty) == CASE ty \in {"bool", "u8", "i8"} -> 1
              [] ty \in {"u16", "i16"} -> 2
              [] ty \in {"u32", "i32"} -> 4
              [] ty \in {"u64", "i64"} -> 8

\* The helpers of user_settings_validation_helpers.h, used for what they are
\* useful for: a range for integers, an exact size that the type allows.
ASSUME CheckAssumption ==
    \A ty \in Types : \A c \in Checks[ty] :
        \/ c = [kind |-> "none"]
        \/ /\ c \in [kind : {"exact"}, size : Nat]
           /\ ty \in Fixed => c.size = Size(ty)
        \/ /\ c \in [kind : {"range"}, lo : Int, hi : Int]
           /\ ty \in Unsigned \cup Signed

\* Place[k]: what a one at byte k of an integer is worth.
Place[k \in 0..8] == IF k = 0 THEN 1 ELSE Place[k - 1] * Radix
Modulus(ty) == Place[Size(ty)]
Smallest(ty) == IF ty \in Signed THEN -(Modulus(ty) \div 2) ELSE 0
Largest(ty) == Smallest(ty) + Modulus(ty) - 1
InRange(n, ty) ==
    \/ ty = "bool" /\ n \in {0, 1}
    \/ ty # "bool" /\ Smallest(ty) <= n /\ n <= Largest(ty)

\* A conversion to an integer type keeps the low bits; to bool, not being 0.
Cast(n, ty) ==
    IF ty = "bool" THEN IF n = 0 THEN 0 ELSE 1
    ELSE Smallest(ty) + ((n - Smallest(ty)) % Modulus(ty))

Stored(n, ty) == [i \in 1..Size(ty) |-> (n \div Place[i - 1]) % Radix]
Memory(b, n) == [i \in 1..n |-> IF i <= Len(b) THEN b[i] ELSE 0]

\* *(type *)data: the first n bytes as an unsigned integer, and as the type.
Low(b, n) ==
    LET low[i \in 0..n] ==
            IF i = 0 THEN 0 ELSE low[i - 1] + b[i] * Place[i - 1]
    IN low[n]
Number(b, ty) == Cast(Low(b, Size(ty)), ty)

Clamped(n, ty) == IF n < Smallest(ty) THEN Smallest(ty)
                  ELSE IF n > Largest(ty) THEN Largest(ty) ELSE n

-----------------------------------------------------------------------------
(* Hexadecimal text *)

OtherModulus(c) == ((c % 32) + 9) % 26     \* mutant
HexDigit(c) == ((c % 32) + 9) % 25
\* A byte holds the low 8 bits of what two characters that are no digits give.
FromHex(text) == [i \in 1..(Len(text) \div 2) |->
                     (HexDigit(text[2 * i - 1]) * 16 + HexDigit(text[2 * i])) % 256]

HexChar(d) == IF d < 10 THEN 48 + d ELSE 55 + d          \* %X
ToHex(b) == [i \in 1..(2 * Len(b)) |->
                LET x == b[(i + 1) \div 2]
                IN HexChar(IF i % 2 = 1 THEN x \div 16 ELSE x % 16)]

UpToNul(b) == SubSeq(b, 1, (CHOOSE i \in 1..Len(b) :
                               b[i] = 0 /\ \A j \in 1..(i - 1) : b[j] # 0) - 1)

-----------------------------------------------------------------------------
(* The front ends.  An item is a JSON element or a shell argument; an        *)
(* argument that is no number is 0 to strtol.                                *)

Items == [kind : {"number"}, n : Numbers] \cup [kind : {"bool"}, n : {0, 1}]
         \cup [kind : {"string"}, text : Texts]
TextPayload(ty, text) == IF ty = "str" THEN text \o <<0>> ELSE FromHex(text)

\* prv_set_from_json: the kinds of element it takes for a type, and cJSON's
\* valueint, which is the number clamped to an int.
JsonTakes(ty, item) ==
    \/ ty = "bool" /\ item.kind = "bool"
    \/ ty \in Unsigned \cup Signed /\ item.kind = "number"
    \/ ty \in Sized /\ item.kind = "string"
JsonPayload(ty, item) ==
    IF ty \in Sized THEN TextPayload(ty, item.text)
    ELSE Stored(Cast(Clamped(item.n, "i32"), ty), ty)

\* prv_json_from_setting
ExportUncast(x) == x      \* mutant: the number is not cast to int
ExportedNumber(x) == Cast(x, "i32")
Exported(ty, b, n) ==
    IF ty \in Sized
    THEN [kind |-> "string",
          text |-> IF ty = "str" THEN UpToNul(b) ELSE ToHex(SubSeq(b, 1, n))]
    ELSE [kind |-> IF ty = "bool" THEN "bool" ELSE "number",
          n |-> ExportedNumber(Number(b, ty))]

\* prv_set_helper: strtoll for 64-bit settings, strtol for the others, whose
\* long has 32 bits on the targets.
ParsedAsInt(n, ty) == Clamped(n, "i32")   \* mutant: strtol for all
Parsed(n, ty) == Clamped(n, IF ty \in {"u64", "i64"} THEN "i64" ELSE "i32")
ShellTakes(ty, item) == item.kind = IF ty \in Sized THEN "string" ELSE "number"
ShellPayload(ty, item) ==
    IF ty \in Sized THEN TextPayload(ty, item.text)
    ELSE Stored(Cast(Parsed(item.n, ty), ty), ty)

\* prv_shell_print_setting: each integer type has its own format.
Printed(ty, b, n) ==
    IF ty \in Sized
    THEN [kind |-> "string",
          text |-> IF ty = "str" THEN UpToNul(b) ELSE ToHex(SubSeq(b, 1, n))]
    ELSE [kind |-> "number", n |-> Number(b, ty)]

-----------------------------------------------------------------------------
(* prv_user_settings_set and the validation helpers *)

ExceptTop(x, lo, hi) == lo <= x      \* mutant: the maximum is not compared
Within(x, lo, hi) == lo <= x /\ x <= hi
AtMostSize(p, n) == Len(p) <= n      \* mutant: shorter payloads pass
ExactSize(p, n) == Len(p) = n

\* The range check reads a whole integer from the caller's memory, which holds
\* zeros behind a short payload of the protocol.
Valid(p) ==
    \/ check.kind = "none"
    \/ check.kind = "range"
         /\ Within(Number(Memory(p, Size(type)), type), check.lo, check.hi)
    \/ check.kind = "exact" /\ ExactSize(p, check.size)

Same(p) == Len(p) = len /\ SubSeq(buf, 1, len) = p

\* prv_value_set_cb copies the payload and leaves the rest of the buffer.
OneShort(p) ==      \* mutant: off by one
    [i \in 1..max |-> IF i < Len(p) THEN p[i] ELSE buf[i]]
Overwritten(p) == [i \in 1..max |-> IF i <= Len(p) THEN p[i] ELSE buf[i]]

Set(p) ==
    /\ \/ Len(p) > max /\ ret' = "ENOMEM"
                       /\ UNCHANGED <<buf, len, isSet, nvs>>
       \/ Len(p) <= max /\ Same(p) /\ ret' = "ok"
                       /\ UNCHANGED <<buf, len, isSet, nvs>>
       \/ Len(p) <= max /\ ~Same(p) /\ ~Valid(p) /\ ret' = "EINVAL"
                       /\ UNCHANGED <<buf, len, isSet, nvs>>
       \/ /\ Len(p) <= max /\ ~Same(p) /\ Valid(p)
          /\ ret' = "ok"
          /\ IF p = <<>>       \* RAM stays and the entry is deleted
             THEN nvs' = NULL /\ UNCHANGED <<buf, len, isSet>>
             ELSE nvs' = p /\ buf' = Overwritten(p) /\ len' = Len(p)
                           /\ isSet' = TRUE
    /\ UNCHANGED <<type, max, check>>

SetRaw == \E p \in Written[type] : Set(p)

ShellSet(item) ==
    /\ ShellTakes(type, item)
    /\ Set(ShellPayload(type, item))

JsonSet(item) ==
    \/ JsonTakes(type, item) /\ Set(JsonPayload(type, item))
    \/ /\ ~JsonTakes(type, item)
       /\ ret' = "EINVAL"
       /\ UNCHANGED <<type, max, check, buf, len, isSet, nvs>>

-----------------------------------------------------------------------------
(* prv_user_settings_list_add and user_settings_load, in the same firmware   *)
(* or one that gives the setting another max_size.                           *)

Sizes(ty) == IF ty \in Fixed THEN {Size(ty)} ELSE MaxSizes

Shorter(m) == nvs # NULL /\ Len(nvs) < m      \* mutant: off by one
Loadable(m) == nvs # NULL /\ Len(nvs) <= m

Boot(m) ==
    /\ max' = m
    /\ buf' = IF Loadable(m) THEN Memory(nvs, m) ELSE Memory(<<>>, m)
    /\ len' = IF Loadable(m) THEN Len(nvs) ELSE 0
    /\ isSet' = Loadable(m)
    /\ ret' = "none"
    /\ UNCHANGED <<type, check, nvs>>

Init ==
    /\ type \in Types
    /\ check \in Checks[type]
    /\ max \in Sizes(type)
    /\ buf = Memory(<<>>, max)
    /\ len = 0 /\ isSet = FALSE /\ nvs = NULL
    /\ ret = "none"

Next ==
    \/ SetRaw
    \/ \E item \in Items : ShellSet(item) \/ JsonSet(item)
    \/ \E m \in Sizes(type) : Boot(m)

Spec == Init /\ [][Next]_vars

-----------------------------------------------------------------------------
(* Properties *)

\* The value has the length of its type, and its entry was not deleted.
Whole == nvs # NULL /\ (type \in Fixed => len = Size(type))

\* The buffer has max_size bytes, of which the first data_len are in flash,
\* unless a payload of zero bytes deleted the entry.
BufferIsStored ==
    /\ Len(buf) = max /\ len <= max
    /\ isSet <=> len > 0
    /\ isSet => nvs \in {NULL, SubSeq(buf, 1, len)}
    /\ ret \in {"none", "ok", "ENOMEM", "EINVAL"}

\* What a consumer of user_settings_get takes from the buffer b with length n.
Reading(b, n) == IF type \in Fixed THEN Number(b, type) ELSE SubSeq(b, 1, n)

\* A consumer reads after a reboot what it read before, if the value has the
\* length of its type, which the exact-size check ensures.
ReadsSurviveReboot ==
    isSet /\ nvs # NULL /\ (Whole \/ check.kind = "exact") =>
        Reading(buf, len) = Reading(Memory(nvs, max), Len(nvs))

\* validation_helpers.h: "The maximum value the setting can have (inclusive)",
\* likewise the minimum.  It holds if the value has the length of its type; a
\* shorter payload is checked with zeros behind it and stored with the old
\* bytes behind it, so that what get returns may be out of range.
WholeRangeHolds ==
    isSet /\ Whole /\ check.kind = "range" =>
        check.lo <= Number(buf, type) /\ Number(buf, type) <= check.hi

\* What strtol, or strtoll, can return for a setting.
FitsLong(n) == InRange(n, IF type \in {"u64", "i64"} THEN "i64" ELSE "i32")

\* A number that both its type and int can hold arrives unchanged by JSON and
\* is exported unchanged; one that its type and long can hold arrives
\* unchanged by the shell and is printed unchanged.
NumbersArrive ==
    [][\A item \in Items :
         item.kind # "string" /\ type \in Fixed /\ InRange(item.n, type) =>
           /\ JsonSet(item) /\ ret' = "ok" /\ InRange(item.n, "i32") =>
                  /\ Number(buf', type) = item.n
                  /\ Exported(type, buf', len').n = item.n
           /\ ShellSet(item) /\ ret' = "ok" /\ FitsLong(item.n) =>
                  /\ Number(buf', type) = item.n
                  /\ Printed(type, buf', len').n = item.n]_vars

\* The integers a JSON document carries from one device to another: every one
\* of at most 32 bits (an unsigned one as the int of the same bits), and of 64
\* bits those an int can hold.
Portable(x) == type \in {"u64", "i64"} => InRange(x, "i32")

\* What the protocol or a caller may also write, and no text stands for: a NUL
\* inside a string ends its export, a string without one is read beyond its
\* end, and C does not say what a bool is that is neither 0 nor 1.
WellFormed ==
    /\ type = "str" => buf[len] = 0 /\ \A i \in 1..(len - 1) : buf[i] # 0
    /\ type = "bool" => buf[1] \in {0, 1}

\* Importing what was exported sets the same payload, and so does typing what
\* the shell printed, but for unsigned numbers beyond long.
ExportsImport ==
    isSet /\ Whole /\ WellFormed =>
        LET x == IF type \in Fixed THEN Number(buf, type) ELSE 0
            p == SubSeq(buf, 1, len)
        IN /\ Portable(x) => JsonPayload(type, Exported(type, buf, len)) = p
           /\ FitsLong(x) =>
                  ShellPayload(type, Printed(type, buf, len)) = p

\* list.h: max_size "should never be decreased in consecutive firmware
\* releases": if it is not, an upgrade keeps the value; and a value that did
\* not fit one release is back in the first release it fits.
UpgradesKeepValues ==
    [][ret' = "none" =>
         /\ isSet /\ nvs # NULL /\ max <= max' =>
                isSet' /\ SubSeq(buf', 1, len') = SubSeq(buf, 1, len)
         /\ nvs # NULL /\ Len(nvs) <= max' => SubSeq(buf', 1, len') = nvs]_vars
=============================================================================
