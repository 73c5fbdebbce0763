-------------------------------- MODULE Pnl --------------------------------
(***************************************************************************)
(* The figures portfolio/pnl.py reports about the ledger, to the risk      *)
(* policy, the dashboard and the pnl_daily table.                          *)
(***************************************************************************)
EXTENDS Ledger, Functions

LongPositions == {t \in Tokens : qty[t] > 0}  \* mutant: shorts are not positions

(* Ledger.positions(): the tokens whose quantity is not zero.               *)
Positions == {t \in Tokens : qty[t] # 0}

nav_usd == cash + SumFunction([t \in Positions |-> qty[t] * mark[t]])

unrealized_pnl == SumFunction([t \in Positions |-> qty[t] * (mark[t] - avg[t])])

-----------------------------------------------------------------------------
AllRealized == SumFunction(realized)

(* The net asset value the risk limits are relative to has an explanation:  *)
(* it is the starting cash, plus what was realized on every token, plus     *)
(* what is unrealized, less the buy fees still pending, up to rounding.     *)
NavIsExplained ==
    (\A t \in Tokens : sound[t]) =>
        2 * Abs(nav_usd - StartingCash - AllRealized - unrealized_pnl + SumFunction(fees))
           <= SumFunction(slack)

=============================================================================
