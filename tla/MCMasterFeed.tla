---------------------------- MODULE MCMasterFeed ----------------------------
(* Small instances of the master's feed.                                    *)
EXTENDS MasterFeed

MCTwoNets == {0, 2}
=============================================================================
