-------------------------------- MODULE Utf8 --------------------------------
(***************************************************************************)
(* toml.c's conversions between a character's code and its UTF-8 bytes,    *)
(* with shifts and masks as divisions and remainders.                      *)
(***************************************************************************)
EXTENDS Integers, Sequences

\* What stands in the first of n bytes, and the largest code n bytes have.
Prefix == <<0, 192, 224, 240, 248, 252>>
Limit  == <<127, 2047, 65535, 2097151, 67108863, 2147483647>>
Power  == <<1, 64, 4096, 262144, 16777216, 1073741824>>

Codes == 0 .. Limit[6]

\* UTF-16 surrogates and noncharacters.
Forbidden == (55296 .. 57343) \cup {65534, 65535}

Width(code) ==
    IF code <= Limit[1] THEN 1 ELSE IF code <= Limit[2] THEN 2 ELSE
    IF code <= Limit[3] THEN 3 ELSE IF code <= Limit[4] THEN 4 ELSE
    IF code <= Limit[5] THEN 5 ELSE 6

\* toml_ucs_to_utf8; no bytes stand for -1.
Encode(code) ==
    IF code \in Forbidden \/ code \notin Codes THEN <<>>
    ELSE LET n == Width(code)
         IN  [i \in 1 .. n |-> IF i = 1 THEN Prefix[n] + code \div Power[n]
                               ELSE 128 + ((code \div Power[n - i + 1]) % 64)]

\* How many bytes a character has whose first one is b; 0 if it begins none.
Announced(b) ==
    IF b < 128 THEN 1 ELSE IF b < 192 THEN 0 ELSE IF b < 224 THEN 2 ELSE
    IF b < 240 THEN 3 ELSE IF b < 248 THEN 4 ELSE IF b < 252 THEN 5 ELSE
    IF b < 254 THEN 6 ELSE 0

Term(bytes, n, i) == IF i > n THEN 0 ELSE (bytes[i] % 64) * Power[n - i + 1]

\* toml_utf8_to_ucs of a string that is not empty: the code, or -1.
Decode(bytes) ==
    LET n == Announced(bytes[1])
    IN  IF n = 0 \/ Len(bytes) < n \/ \E i \in 2 .. n : bytes[i] \div 64 # 2 THEN -1
        ELSE (bytes[1] - Prefix[n]) * Power[n] + Term(bytes, n, 2) + Term(bytes, n, 3)
               + Term(bytes, n, 4) + Term(bytes, n, 5) + Term(bytes, n, 6)
=============================================================================
