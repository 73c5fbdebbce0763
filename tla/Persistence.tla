----------------------------- MODULE Persistence -----------------------------
(***************************************************************************)
(* The positions table beside the running agent of ExitMonitor: the pass   *)
(* of _portfolio_persist_loop, which is suspended in every write, and what *)
(* a restart makes of the rows.                                            *)
(***************************************************************************)
EXTENDS ExitMonitor

CONSTANTS MaxRestarts    \* bound

ASSUME RestartsAssumption == MaxRestarts \in Nat
ASSUME RowAssumption == None \notin Positions

VARIABLES
    rows,        \* the positions table
    toWrite,     \* positions the running pass has still to write
    restarts,    \* how often so far (bounded)
    track        \* observation: see Tracks

dbVars == <<rows, toWrite, restarts, track>>
vars == <<monitorVars, dbVars>>

(* What became of a token: its row, as written or as a restart found it,    *)
(* has not been overtaken by an opening or a closing; or it has been closed *)
(* since the last pass began, or the one before.                            *)
Tracks == {"changed", "kept", "shut", "idle"}

TypeOK ==
    /\ MonitorTypeOK
    /\ rows \in [Tokens -> Positions \cup {None}]
    /\ toWrite \subseteq Tokens
    /\ restarts \in 0..MaxRestarts
    /\ track \in [Tokens -> Tracks]

Init ==
    /\ MonitorInit
    /\ rows = [t \in Tokens |-> None]
    /\ toWrite = {}
    /\ restarts = 0
    /\ track = [t \in Tokens |-> "changed"]

-----------------------------------------------------------------------------
(* A step A of the agent: it may open and close positions.                  *)
Agent(A) ==
    /\ A
    /\ track' = [t \in Tokens |->
                   IF (position[t].qty = 0) = (position'[t].qty = 0)
                   THEN track[t] ELSE "changed"]
    /\ UNCHANGED <<rows, toWrite, restarts>>

(* The next pass takes the positions that are open now.  A row that was not *)
(* restored stays where it is.                                              *)
StartPass ==
    /\ toWrite = {}
    /\ toWrite' = {t \in Tokens : Open(t)}
    /\ track' = [t \in Tokens |->
                   CASE Open(t) \/ track[t] = "kept" -> track[t]
                     [] ~Open(t) /\ track[t] = "changed" -> "shut"
                     [] OTHER -> "idle"]
    /\ UNCHANGED <<monitorVars, rows, restarts>>

(* A bug: the row goes if nothing is left to sell.                          *)
UpsertLots(row, p) == IF Lots(Size(p.qty)) = 0 THEN None ELSE p

(* upsert_position: the row of a closed position is deleted, the horizon of *)
(* an existing one is left alone.                                           *)
Upsert(row, p) ==
    CASE p.qty = 0 -> None
      [] p.qty # 0 /\ (row = None \/ row.horizon = None) -> p
      [] OTHER -> [p EXCEPT !.horizon = row.horizon]

(* The position is written as it is now; it may have closed since the pass  *)
(* began.                                                                   *)
Write(t) ==
    /\ t \in toWrite
    /\ rows' = [rows EXCEPT ![t] = Upsert(@, position[t])]
    /\ toWrite' = toWrite \ {t}
    /\ track' = IF Open(t) THEN [track EXCEPT ![t] = "kept"] ELSE track
    /\ UNCHANGED <<monitorVars, restarts>>

(* The write fails, and the loop goes on.                                   *)
FailWrite(t) ==
    /\ t \in toWrite
    /\ toWrite' = toWrite \ {t}
    /\ UNCHANGED <<monitorVars, rows, restarts, track>>

(* restore_positions: what the next process makes of a row.                 *)
Restored(row) == IF row = None THEN NoPosition ELSE row

(* A new process restores the rows of S and leaves the rest in the table:   *)
(* without a database, or if the rows cannot be fetched, it starts with     *)
(* none, and a row it cannot read is skipped.  Its paper orders are gone;   *)
(* those at the venue, and fills that were not reported, it does not know.  *)
Restart(S) ==
    /\ restarts < MaxRestarts /\ restarts' = restarts + 1
    /\ position' = [t \in Tokens |-> IF t \in S THEN Restored(rows[t]) ELSE NoPosition]
    /\ bids' = [t \in Tokens |-> 0]
    /\ unbooked' = <<>>
    /\ todo' = [t \in Tokens |-> None] /\ sale' = None
    /\ cooling' = [t \in Tokens |-> 0]
    /\ engaged' = FALSE
    /\ toWrite' = {}
    /\ track' = [t \in Tokens |-> IF rows[t] = None THEN "changed" ELSE "kept"]
    /\ thesis' = [t \in Tokens |-> thesis[t] /\ t \in S /\ rows[t] # None]
    /\ UNCHANGED <<held, mode, listing, bounds, rows>>

Next ==
    \/ Agent(MonitorNext)
    \/ StartPass
    \/ \E t \in Tokens : Write(t) \/ FailWrite(t)
    \/ \E S \in SUBSET Tokens : Restart(S)

Exit(t) == todo[t] # "far" /\ \E why \in Triggers : Emit(t, why)
SellOut(t) == sale # None /\ sale.token = t /\ Sell(sale.size)

(* The monitor's task runs, the executor answers, and the market gives      *)
(* every position its chance: a price at which it is worth the floor, and   *)
(* bids for all of it, not just once.                                       *)
Fairness ==
    /\ WF_vars(Agent(StartScan))
    /\ WF_vars(Agent(Sold))
    /\ \A t \in Tokens :
          /\ WF_vars(Agent(Skip(t)))
          /\ SF_vars(Agent(Exit(t)))
          /\ SF_vars(Agent(SellOut(t)))

Spec == Init /\ [][Next]_vars
FairSpec == Spec /\ Fairness

-----------------------------------------------------------------------------
(* Properties.                                                              *)

(* Exits only reduce (execution/exit_monitor.py): whatever scans, purchases *)
(* and restarts come in between, a paper position is oversold by the        *)
(* rounding of one exit at most, and never by a second one.                 *)
PaperNeverShort ==
    mode = "paper" => \A t \in Tokens : position[t].qty >= -1

(* The books of a live process, behind the venue by what is not reported,   *)
(* never show a short position: a second exit before the first is booked is *)
(* refused, and reports keep their order.  A restart forgets reports.       *)
LiveNeverShort ==
    mode = "live" /\ restarts = 0 => \A t \in Tokens : position[t].qty >= 0

(* A restart that can read the row of a position brings the position back   *)
(* if it was written and has been open since: even if the pass that wrote   *)
(* it was overtaken by its closing and reopening, and after any number of   *)
(* restarts that could not read it, unless the agent traded that token      *)
(* without it (upsert_position and the restore in main.py).                 *)
PositionsSurvive ==
    [][\A S \in SUBSET Tokens :
          Restart(S) => \A t \in S : track[t] = "kept" => position'[t].qty # 0]_vars

(* "The agent should be flat before the binary settlement event": on paper  *)
(* what is open in a market that stays listed near its end, or as resolved, *)
(* is sold down to dust for good, unless the switch stays engaged.          *)
FlatBeforeSettlement ==
    \A t \in Tokens :
        (<>[](mode = "paper" /\ listing[t] \in {"near", "closed"} /\ ~engaged))
           => <>[](Size(position[t].qty) < Floor)

(* "When the entry was Fundamentals (LLM-driven) the thesis is hold to      *)
(* binary settle.  We skip profit_take and stop_loss" (exit_monitor.py,     *)
(* _decide).                                                                *)
HoldsToResolution ==
    [][sale' # sale /\ sale' # None /\ sale'.why \in {"profit_take", "stop_loss"}
         => ~thesis[sale'.token]]_vars

(* "Closed positions (qty=0) get deleted" (main.py, the persist loop): a    *)
(* position that was closed before the last pass began has no row.          *)
ClosedRowsGo == \A t \in Tokens : track[t] = "idle" => rows[t] = None

=============================================================================
