---------------------------- MODULE MCAlarmPath ----------------------------
(* Two objects of one class and configurations that differ in one part each: the
   tracker, the window, the algorithms. *)
EXTENDS AlarmPath, TLC

Symmetry == Permutations(Objects)

MCClassOf == [o \in Objects |-> 1]

Always == [start |-> 0, end |-> 0]
Daytime == [start |-> 2, end |-> 3]

MCConfigs ==
    {[algorithms |-> <<Always>>, tracker |-> NoTracker, interval |-> 3],
     [algorithms |-> <<Always>>, tracker |-> "t1", interval |-> 0],
     [algorithms |-> <<Daytime>>, tracker |-> "t2", interval |-> 1]}
=============================================================================
