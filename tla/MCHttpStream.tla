---------------------------- MODULE MCHttpStream ----------------------------
(* Instances of HttpStream for TLC.                                        *)
EXTENDS HttpStream

(* No body, a short one, and one that looks like the end of a header.      *)
Bodies == {<< >>, <<"body">>, <<"CR", "LF", "CR", "LF">>}

WithHeaders == [Headers: {TRUE}, Body: Bodies]
OneWithout == WithHeaders \cup {[Headers |-> FALSE, Body |-> <<"body">>]}
=============================================================================
