-------------------------- MODULE MCRealtimeVoice ---------------------------
EXTENDS RealtimeVoice

(* Two exchanges; the first answer is replayed under the second response.  *)
Conversation == <<"u1", "a1", "u2", "a2">>
Replayed == {<<"r1", "a1">>, <<"r2", "a2">>, <<"r2", "a1">>}
Outputs == {<<"r1", {"a1"}>>, <<"r2", {}>>}
=============================================================================
