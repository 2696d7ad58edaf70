--------------------------- MODULE MCTypedSetting ---------------------------
(* A small instance of TypedSetting for TLC: bytes are 0..3, so that an i8   *)
(* is -2..1, an int -128..127 and an i64 -32768..32767.                      *)
EXTENDS TypedSettingInv

AllTypes == Fixed \cup Sized
TheNumbers == {-32769, -32768, -130, -129, -128, -127, -9, -8, -3, -2, -1, 0, 1,
               2, 3, 4, 7, 8, 15, 16, 127, 128, 129, 255, 256, 32767, 32768,
               65535, 65536}

\* "", "a", "0F", "aF9c", "oO"
TheTexts == {<<>>, <<97>>, <<48, 70>>, <<97, 70, 57, 99>>, <<111, 79>>}
TheMaxSizes == {1, 2, 3, 5}

\* Short ones, too long ones, ones that share a prefix, strings without a NUL at
\* the end or with one inside.
IntegerPayloads ==
    {<<1>>, <<3>>, <<0, 0>>, <<1, 2>>, <<3, 1>>, <<3, 3, 3, 3>>, <<0, 2, 1, 3>>,
     <<0, 0, 0, 0, 1, 0, 0, 2>>, <<3, 3, 3, 3, 3, 3, 3, 3, 3>>}
TheWritten == [ty \in AllTypes |->
    CASE ty = "bool" -> {<<0>>, <<1>>, <<3>>}
      [] ty = "str" -> {<<97>>, <<97, 0>>, <<97, 98, 0>>, <<97, 0, 98, 0>>}
      [] ty = "bytes" -> {<<0, 255>>, <<1, 2, 3, 4, 5>>}
      [] OTHER -> IntegerPayloads]

NoCheck == [kind |-> "none"]
Range(lo, hi) == [kind |-> "range", lo |-> lo, hi |-> hi]
Exact(n) == [kind |-> "exact", size |-> n]
TheChecks == [ty \in AllTypes |->
    CASE ty = "bool" -> {NoCheck}
      [] ty \in Sized -> {NoCheck, Exact(2)}
      [] ty \in Unsigned -> {NoCheck, Range(1, Largest("u8") + 3), Exact(Size(ty))}
      [] ty \in Signed -> {NoCheck, Range(-2, 1), Exact(Size(ty))}]
=============================================================================
