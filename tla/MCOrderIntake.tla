--------------------------- MODULE MCOrderIntake ---------------------------
(* OrderIntake on small instances: the charges t1, t2 and z1 and the query *)
(* y1 share a number, the customer's charge c1 has another.                *)
EXTENDS OrderIntake

CONSTANTS t1, t2, z1, c1, y1, n1, n2

TwoNumbers == {n1, n2}
NumberOf == [r \in Requests |-> IF r = c1 THEN n2 ELSE n1]
=============================================================================
