--------------------------- MODULE MessageChannel ---------------------------
(***************************************************************************)
(* What one direction of an HTTP connection promises its two ends: the     *)
(* messages handed to one arrive whole at the other, in order and once, as *)
(* long as the sending end is open.  HttpStream implements it.             *)
(***************************************************************************)
EXTENDS Naturals, Sequences

CONSTANT Messages

VARIABLES
    sent,           \* the messages handed to the sending end
    delivered,      \* those the receiving end has raised an event for
    open            \* the sending end is there

vars == <<sent, delivered, open>>

Init == sent = << >> /\ delivered = << >> /\ open = TRUE

Send(m) ==
    /\ open
    /\ sent' = Append(sent, m)
    /\ UNCHANGED <<delivered, open>>

Deliver ==
    /\ Len(delivered) < Len(sent)
    /\ delivered' = Append(delivered, sent[Len(delivered) + 1])
    /\ UNCHANGED <<sent, open>>

Close == open /\ open' = FALSE /\ UNCHANGED <<sent, delivered>>

Next == (\E m \in Messages : Send(m)) \/ Deliver \/ Close

Spec == Init /\ [][Next]_vars

FairSpec == Spec /\ WF_vars(open /\ Deliver)
=============================================================================
