---------------------------- MODULE MC_NetdBridge ----------------------------
(* NetdBridge instantiated for TLC: replies with no word, one word, two   *)
(* words of which only the first fits a 4-byte buffer, and one word that  *)
(* is a lone quote (the split refuses it); unsolicited lines of one word  *)
(* (noise) and of two (a broadcast).                                       *)
EXTENDS NetdBridge

MCAnswers == {<<>>, <<<<"a">>>>, <<<<"a">>, <<"b", "b", "b">>>>, <<<<DQ>>>>}

MCBroadcasts == {<<"x">>, <<"6", "0", "0", SP, "x">>}
====
