------------------------------ MODULE MCWsSend ------------------------------
(* Instances of WsSend for TLC: two locked senders and a message in parts,     *)
(* each in fragments over two connections, then both kinds at once, and        *)
(* errors of different lengths.                                                *)
EXTENDS WsSend

CONSTANTS task, s1, s2, p1

Messages(a, b, c) == s1 :> a @@ s2 :> b @@ p1 :> c

Instances ==
    { [sizes |-> {1}, lengths |-> {3}, parts |-> 3, conns |-> 2,
       messages |-> Messages(2, 1, 0)],
      [sizes |-> {1}, lengths |-> {1, 3}, parts |-> 3, conns |-> 2,
       messages |-> Messages(1, 1, 0)],
      [sizes |-> {1}, lengths |-> {3}, parts |-> 6, conns |-> 2,
       messages |-> Messages(0, 0, 1)],
      [sizes |-> {1}, lengths |-> {1}, parts |-> 1, conns |-> 1,
       messages |-> Messages(1, 0, 1)],
      [sizes |-> {1, 2}, lengths |-> {0}, parts |-> 0, conns |-> 1,
       messages |-> Messages(1, 1, 0)],
      [sizes |-> {1, 2}, lengths |-> {0}, parts |-> 0, conns |-> 1,
       messages |-> Messages(0, 0, 1)] }
=============================================================================
