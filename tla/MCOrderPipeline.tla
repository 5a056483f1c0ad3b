-------------------------- MODULE MCOrderPipeline --------------------------
(* OrderPipeline on small instances.                                       *)
EXTENDS OrderPipeline

CONSTANTS o1, o2, c1, c2, q1, q2, n1, n2

TwoOrders == {o1, o2}
OneTmall == {o1}
TwoTmall == {o1, o2}
Garbage == {0, 1, 7}
=============================================================================
