----------------------- MODULE MCStreamConfiguration -----------------------
(* Tasks for two streams that agree, overlap and conflict in every part of the
   configuration of a stream, with entries that have to be skipped. *)
EXTENDS StreamConfiguration

Algorithm(id, version) == [algorithm_id |-> id, version |-> version]

Stream(id, transport, dedup, algorithms, tracker) ==
    [enabled |-> TRUE, stream_id |-> id, transport |-> transport, alarm_dedup |-> dedup,
     algorithms |-> algorithms, tracker |-> tracker]

a1 == Algorithm("a", 1)
a2 == Algorithm("a", 2)
b1 == Algorithm("b", 1)
u1 == Algorithm("", 1)

MCAgentConfigs ==
    {<<>>,
     <<Stream("s", "t1", 0, <<a1>>, "on")>>,
     <<Stream("s", "t1", 0, <<a2>>, "")>>,
     <<Stream("s", "t1", 5, <<b1, a1>>, "off")>>,
     <<Stream("s", "t2", 0, <<u1, a2>>, "")>>,
     <<Stream("s", "t1", 0, <<>>, "on2"), Stream("r", "t1", 0, <<a1>>, "")>>,
     <<Stream("r", "t1", 5, <<b1>>, "off"), Stream("s", "t1", 0, <<u1>>, "on")>>,
     <<Stream("s", "", 5, <<b1>>, "off"), Stream("", "t1", 0, <<b1>>, "")>>,
     <<[Stream("s", "t2", 5, <<a2>>, "off") EXCEPT !.enabled = FALSE],
       Stream("s", "t1", 5, <<u1, b1>>, "")>>}
=============================================================================
