------------------------ MODULE MCCallTranscription ------------------------
(* The newest call is of the second day, the others of the first.          *)
EXTENDS CallTranscription
MCCallDay == [c \in Calls |-> IF c = NCalls THEN 2 ELSE 1]
=============================================================================
