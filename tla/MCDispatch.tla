----------------------------- MODULE MCDispatch -----------------------------
(***************************************************************************)
(* Two exchanges of one request for TLC, with the fairness of their        *)
(* timers and callbacks: the gateway's with a worker, and the door's with  *)
(* a core that stops and in the end stays up.  A behaviour follows one of  *)
(* them, chosen at its start.                                              *)
(***************************************************************************)
EXTENDS Dispatch

CONSTANTS Request, Class, Limit, HealthFailures, MaxSends, MaxStops

VARIABLES part,
          hold, holdId, receipt, testing, closing, probe, fails, waiters, asked,
          rq, sends, cut, copy, ran, coreUp, stops

doorState == <<hold, holdId, receipt, testing, closing, probe, fails, waiters, asked,
               rq, sends, cut, copy, ran, coreUp, stops>>

D == INSTANCE Door WITH kind <- hold

Ordinary == [r \in Request |-> "normal"]

ExchangeInit ==
    /\ part \in {"dispatch", "door"} /\ Init /\ D!Init
    /\ part = "door" => captures

ExchangeNext ==
    /\ UNCHANGED part
    /\ \/ part = "dispatch" /\ Next /\ UNCHANGED doorState
       \/ part = "door" /\ D!Next /\ UNCHANGED vars

Exchange ==
    /\ ExchangeInit /\ [][ExchangeNext]_<<part, vars, doorState>>
    /\ part = "dispatch" => Fairness
    /\ part = "door" => D!Fairness

(* A core that stays up gets the requests the door holds for it.           *)
HeldMovesOn == D!HeldMovesOn
=============================================================================
