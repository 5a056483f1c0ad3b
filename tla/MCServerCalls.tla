--------------------------- MODULE MCServerCalls ---------------------------
(* ServerCalls on a small instance: an area that the file lists or not,    *)
(* charges of the right and of a wrong product whose texts fill the log to *)
(* its last byte, one byte more and more, and two senders that verify one  *)
(* name.                                                                   *)
EXTENDS ServerCalls

CONSTANTS c1, c2, c3, a1, u1, u2, s1, s2

OpOf == [a \in Areas |-> CMCC]
ProvinceOf == [a \in Areas |-> 31]

Charge(op, province, length) ==
    [kind |-> "charge", area |-> a1, product |-> [op |-> op, province |-> province],
     length |-> length]

Verify(u, s) == [kind |-> "verify", user |-> u, sender |-> s]

Right == Charge(CMCC, 31, 2)
Wrong == Charge(CMCC, 1, 3)
Zkcl == [kind |-> "zkcl", area |-> a1, length |-> 6]

TwoCharges == {Right, Wrong}
OneZkcl == {Zkcl}
ThreeVerifications == {Verify(u1, s1), Verify(u1, s2), Verify(u2, s1)}

AsksOf == [c \in Calls |->
              CASE c = c1 -> {Right, Verify(u1, s1)}
                [] c = c2 -> {Right, Wrong, Verify(u1, s2)}
                [] OTHER  -> {Wrong, Zkcl, Verify(u1, s1), Verify(u2, s1)}]
=============================================================================
