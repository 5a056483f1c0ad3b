------------------------- MODULE MCChannelRequests -------------------------
(* ChannelRequests with the code's limits.                                 *)
EXTENDS ChannelRequests

TwoSLS == {<<"SLS", "SLS">>}
Lists == {<<"SLS", "SLS">>, <<"LLWW", "SLS">>, <<"SLS", "LLWW">>}
Uninitialised == {-1, 0, 1, 2}
=============================================================================
