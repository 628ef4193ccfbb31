-------------------------- MODULE MCRequestLinks ----------------------------
(***************************************************************************)
(* Instances of RequestLinks for TLC.                                      *)
(***************************************************************************)
EXTENDS RequestLinks, TLC

Asks(kind, from, filed) == [kind |-> kind, from |-> from, filed |-> filed]

\* Two links to the offer; the owner's question about its own advance, not filed, beside
\* the lender's; a question about the record beside one to the debtor; the owner's question
\* about its advance, filed, beside an invitation.
MCPairs ==
    {{Asks("offer", "owner", TRUE)},
     {Asks("receipt", "owner", FALSE), Asks("receipt", "lender", FALSE)},
     {Asks("client", "owner", TRUE), Asks("debtor", "owner", TRUE)},
     {Asks("receipt", "owner", TRUE), Asks("client", "owner", FALSE)}}

MCPlans == {p \in [Links -> Requests] : {p[l] : l \in Links} \in MCPairs}

MCSymmetry == Permutations(Links) \cup Permutations(Runs)
=============================================================================
