------------------------- MODULE MCOracleGovernance -------------------------
(***************************************************************************)
(* The administrators and proposals of the price oracle, for model         *)
(* checking.  All calls together are beyond TLC, so each behaviour is      *)
(* given one of four menus of calls: menu, fixed in the initial state.     *)
(*                                                                         *)
(*   "admins"      freeze, two hand-overs, removal proposals;              *)
(*   "weights"     registrations, vote weights and thresholds;             *)
(*   "delegation"  votes delegated while administrators come and go;       *)
(*   "veflow"      upgrades, slashes, pauses, destruction, veFLOW votes.   *)
(*                                                                         *)
(* The calls of the administrators need no menu and are part of all four.  *)
(***************************************************************************)
EXTENDS OracleGovernance, TLC

VARIABLE menu

allVars == <<menu, vars>>

\* Accounts are told apart by nothing in the code.
Symmetry == Permutations(Accounts)

W == INSTANCE OracleGovernance WITH
  Councils <- {}, Types <- {"RegisterAdmin"},
  Weights <- {0, 2}, Thresholds <- {0, 1}, MaxTime <- 1

D == INSTANCE OracleGovernance WITH
  Councils <- {}, Types <- {"RegisterAdmin"}, Delegates <- Accounts, MaxTime <- 1

V == INSTANCE OracleGovernance WITH
  Councils <- {}, Types <- {"Upgrade", "Slash", "TogglePause", "SelfDestruct"},
  Lockers <- Accounts, VeflowUsed <- TRUE, MaxTime <- 1

MCInit == menu \in {"admins", "weights", "delegation", "veflow"} /\ Init

MCNext ==
  /\ UNCHANGED menu
  /\ \/ menu = "admins" /\ Next
     \/ menu = "weights" /\ W!Next
     \/ menu = "delegation" /\ D!Next
     \/ menu = "veflow" /\ V!Next

MCSpec == MCInit /\ [][MCNext]_allVars
=============================================================================
