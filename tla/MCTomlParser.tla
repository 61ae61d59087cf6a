---------------------------- MODULE MCTomlParser ----------------------------
(***************************************************************************)
(* The reader of configuration files for TLC, and its UTF-8 at the codes   *)
(* where the number of bytes changes.                                      *)
(***************************************************************************)
EXTENDS TomlParser, Utf8

MCCodes == UNION {{Limit[n] - 1, Limit[n]} : n \in 1 .. 6}
             \cup {Limit[n] + 1 : n \in 1 .. 5} \cup {0, 55295, 57344, 65533}

ASSUME MCRoundTrip == \A code \in MCCodes \ Forbidden : Decode(Encode(code)) = code

\* No character begins with a byte that continues one, and none of two or
\* more bytes is read from fewer.
ASSUME MCCutShort ==
    \A code \in MCCodes \ (Forbidden \cup 0 .. Limit[1]) :
        LET bytes == Encode(code)
        IN  /\ Decode(Tail(bytes)) = -1
            /\ Decode(SubSeq(bytes, 1, Len(bytes) - 1)) = -1
=============================================================================
