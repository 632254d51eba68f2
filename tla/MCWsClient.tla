----------------------------- MODULE MCWsClient -----------------------------
(* Instances of WsClient for TLC. *)
EXTENDS WsClientInv, TLC

CONSTANTS t1, t2, main, s1

OneTaskSet  == {t1}
TwoTasks    == {t1, t2}
OneApp      == {main}
TwoApps     == {main, s1}

CallsStop    == {"start", "stop", "close", "send"}
CallsNoClose == {"start", "stop", "send"}
CallsOne     == {"start", "stop", "close", "send", "destroy"}
CallsAll     ==
    {"start", "restart", "stop", "close", "send", "destroy", "destroy_on_exit"}

TaskSymmetry == Permutations(Tasks)
=============================================================================
