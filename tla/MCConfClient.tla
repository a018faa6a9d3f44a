---------------------------- MODULE MCConfClient ----------------------------
(* ConfClient at scaled widths: 18-bit unsigned long long, 10-bit int and *)
(* a limit of 400, so that 400 * 2^9 < 2^18 and 400 < 511 as 52560000 *   *)
(* 2^31 < 2^64 and 52560000 < 2^31 - 1.  The keep values are atoi's of    *)
(* "-1", "0", "20", the limit and the largest int; client_can_delete set *)
(* to "0", "1" or "256" (which (uint8_t) makes 0); compression written    *)
(* "gzip5", "3" or "zlib" (no level); network_timeout 60; and the        *)
(* server's conf with the defaults or with compression 1 and              *)
(* network_timeout 60.                                                    *)
EXTENDS ConfClient

MCW        == 18
MCIntBits  == 10
MCLimit    == 400
MCKeepVals == {-1, 0, 20, 400, 511}
MCCanBits  == {"client_can_delete"}
MCCanVals  == {0, 1, 256}
MCCompTexts == <<<<"gzip", "5">>, <<"3">>, <<"zlib">>>>
MCTimeoutVals == {60}
MCGlobalInts == {[compression |-> 9, network_timeout |-> 7200],
                 [compression |-> 1, network_timeout |-> 60]}
=============================================================================
