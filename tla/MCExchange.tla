----------------------------- MODULE MCExchange -----------------------------
(* Instances of Exchange for TLC.  A socket bound to the IPv6 wildcard is  *)
(* reached over IPv4 too.                                                  *)
EXTENDS Exchange

IPv6First == <<"IPv6", "IPv4">>
IPv4First == <<"IPv4", "IPv6">>
Reached == [IPv4 |-> {"IPv4"}, IPv6 |-> {"IPv4", "IPv6"}]
=============================================================================
