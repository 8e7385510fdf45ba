----------------------------- MODULE MCPortfolio -----------------------------
EXTENDS Portfolio

\* Two accounts behind the login at the live port, one of them also behind the other.
MCBehind == 4001 :> <<"A", "B">> @@ 4002 :> <<"B">>

\* No Gateway listens at the paper port.
MCBehindLive == 4001 :> <<"A", "B">>

\* What one account holds the other lacks.
MCHoldings ==
  [a \in {"A", "B"} |->
     [s \in {"s1", "s2"} |-> IF <<a, s>> \in {<<"A", "s1">>, <<"B", "s2">>} THEN 1 ELSE 0]]
=============================================================================
