----------------------------- MODULE Connections -----------------------------
(***************************************************************************)
(* Where the settings lead: the ports probed for a Gateway                 *)
(* (pax-client/src/ib.rs, port_candidates and connect_with_fallback) and   *)
(* the account that is looked at there (data.rs).                          *)
(*                                                                         *)
(* The host is left out: it is typed, kept, captured and compared as the   *)
(* mode is.  The trade and execution modes and the drawdown limit are left *)
(* out: they are typed, kept and stored as the multiplier is.              *)
(***************************************************************************)
EXTENDS Integers, Sequences, FiniteSetsExt, SequencesExt, TLC

CONSTANTS
  Account,     \* the accounts there are
  Behind,      \* the ports on which a Gateway listens, and the accounts of each
  LivePorts, PaperPorts,
  Multipliers  \* the multipliers in use, in hundredths

Mode == {"live", "paper"}

\* An account field left empty; a multiplier typed as "nan", which parses.
NoAccount == "none chosen"
NaN == -1

ASSUME ConnectionsAssumption ==
  /\ NoAccount \notin Account /\ Account # {}
  /\ LivePorts \cup PaperPorts \subseteq Nat
  /\ Multipliers \subseteq Nat \cup {NaN}
  /\ \A p \in DOMAIN Behind : Behind[p] \in Seq(Account) /\ Behind[p] # <<>>

Settings == [mode : Mode, live : LivePorts, paper : PaperPorts,
             account : Account \cup {NoAccount}, multiplier : Nat \cup {NaN}]

\* The ports to probe, in this order, zeros and repetitions left out.
PortCandidates ==
  [mode \in Mode, live \in LivePorts, paper \in PaperPorts |->
     LET own == IF mode = "live" THEN <<live, paper>> ELSE <<paper, live>>
     IN  FoldLeft(LAMBDA ps, p : IF p = 0 \/ Contains(ps, p) THEN ps ELSE Append(ps, p),
                  <<>>, own \o <<7496, 7497, 4001, 4002>>)]

Candidates(s) == PortCandidates[s.mode, s.live, s.paper]

\* The places in that order at which a Gateway listens.  Each of these Gateways may fail
\* to answer, and then the next one is tried, whosever it is.
Listening(s) == {i \in DOMAIN Candidates(s) : Candidates(s)[i] \in DOMAIN Behind}

\* The account chosen if the login has it, else the login's first.
Resolved(s, accounts) ==
  IF s.account \in ToSet(accounts) THEN s.account ELSE Head(accounts)
=============================================================================
