----------------------------- MODULE MCSettings -----------------------------
EXTENDS ClientSettings

MCDefaults ==
  [mode |-> "live", live |-> 4001, paper |-> 4002, account |-> NoAccount,
   multiplier |-> 100]

\* What an earlier version left.
MCEarlier == {[MCDefaults EXCEPT !.account = "B"]}

MCBehind == 4001 :> <<"A", "B">> @@ 4002 :> <<"P">>

MCNaN == {NaN}
=============================================================================
