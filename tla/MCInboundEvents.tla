--------------------------- MODULE MCInboundEvents ---------------------------
\* Two notifications that share an identity and one of a source the server does not know.
EXTENDS InboundEvents, TLC

CONSTANTS e1, e2, e3, i1, i3

MCIdentityOf == e1 :> i1 @@ e2 :> i1 @@ e3 :> i3
IntakeSymmetry == {p @@ q : p \in Permutations(Call), q \in Permutations(Code)}
=============================================================================
