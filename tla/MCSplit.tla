------------------------------ MODULE MCSplit -------------------------------
(* Four services.  The PMT of the first takes two packets, that of the      *)
(* second one; both have two versions.  That of the fourth has 300 bytes.   *)
EXTENDS SplitReader, TLC

\* A PMT of 200 bytes, in two packets.
PmtA(es) == [size |-> 200, pcr |-> "clockA", ecm |-> {"keyA"}, es |-> <<{<<2, "videoA", 40>>}, es>>]
TableDef ==
  [A |-> <<PmtA({<<15, "audioA", 5>>, <<13, "dataA", 12>>}), PmtA({<<15, "audio2A", 5>>})>>,
   B |-> <<[size |-> 60, pcr |-> "videoB", ecm |-> {}, es |-> <<{<<2, "videoB", 20>>}>>],
           [size |-> 80, pcr |-> "videoB", ecm |-> {"keyA"},
            es |-> <<{<<2, "videoB", 30>>, <<15, "audioA", 40>>}>>]>>,
   D |-> <<[size |-> 300, pcr |-> "videoD", ecm |-> {},
            es |-> <<{<<2, "videoD", 20>>, <<15, "audioD", 183>>}, {<<15, "audioA", 100>>}>>]>>]
    @@ (OneSegPid :> <<[size |-> 40, pcr |-> NullPid, ecm |-> {}, es |-> <<{<<27, "videoC", 20>>}>>]>>)
PmtPidsDef == {"A", "B", "D", OneSegPid}
EsPidsDef == {"clockA", "keyA", "videoA", "audioA", "audio2A", "dataA", "videoB", "videoC", "videoD", "audioD"}
AtoiDef == [hd |-> 0, sd1 |-> 0, sd2 |-> 0, sd3 |-> 0, all |-> 0, epg |-> 0]
             @@ ("1seg" :> 1) @@ ("101" :> 101) @@ ("102" :> 102) @@ ("103" :> 103) @@ ("999" :> 999)

Full == <<<<0, NitPid>>, <<101, "A">>, <<102, "B">>, <<103, OneSegPid>>>>
PatsDef == {Full, <<<<102, "B">>, <<101, "A">>>>, <<<<101, "A">>, <<102, "A">>>>,
            <<<<104, "D">>, <<102, "B">>>>}
RequestsDef == {<<>>, <<"101">>, <<"102", "101">>, <<"hd">>, <<"sd2">>, <<"sd3">>, <<"1seg">>,
                <<"all">>, <<"epg">>, <<"999">>, <<"101", "epg">>, <<"epg", "101">>, <<"101", "hd">>}
StaleDef == {102}
=============================================================================
