-------------------------- MODULE MCReconcilePasses --------------------------
(* Small instances of the reconciliation arithmetic.                        *)
EXTENDS ReconcilePasses

\* Two units to a share: half shares are the finest quantity that matters.
MCUnit == 2

MCEqual == [clientBalance |-> 1, masterBalance |-> 1, multiplier |-> 10,
            forceMinOne |-> TRUE]

\* Books that hold something in one given symbol only.
Only(s, q) == [x \in Sym |-> IF x = s THEN q ELSE 0]

\* The arithmetic, in one symbol with ample funds: up to three shares either way
\* on the master, two and a half on the client, ratios 1/3 .. 3, multipliers
\* 0.1x, 0.5x, 1x and 1.5x.
MCOneSymbol ==
  LET s == CHOOSE x \in Sym : TRUE
  IN  [master : {Only(s, q) : q \in {-6, -2, -1, 0, 1, 2, 4, 6}},
       book : {Only(s, q) : q \in -5..5},
       params : [clientBalance : {1, 2, 3}, masterBalance : {1, 2, 3},
                 multiplier : {1, 5, 10, 15}, forceMinOne : {TRUE}],
       funds : {100}, resting : {{}}]

\* The budget, in two symbols: none, one, one and a half or two shares' worth of
\* funds for up to four shares of openings, and either symbol cooling.
MCBudget ==
  [master : [Sym -> {-2, 0, 2, 4}], book : [Sym -> {-2, 0, 3}], params : {MCEqual},
   funds : {0, 2, 3, 4}, resting : SUBSET Sym]

MCCases == MCOneSymbol \cup MCBudget

\* A flip of whole shares, the position less than the target.
MCFlip ==
  [master : [Sym -> {-6}], book : [Sym -> {2}], params : {MCEqual}, funds : {100},
   resting : {{}}]

\* The empty-master guard needs several symbols and few quantities.
MCGuardCases ==
  [master : {[s \in Sym |-> 0]}, book : [Sym -> {0, 2}], params : {MCEqual},
   funds : {100}, resting : {{}}]

\* Openings only, so that nothing frees margin within the pass.
MCFlatCases ==
  [master : [Sym -> {0, 2}], book : {[s \in Sym |-> 0]}, params : {MCEqual},
   funds : {2}, resting : SUBSET Sym]
=============================================================================
