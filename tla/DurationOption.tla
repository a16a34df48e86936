--------------------------- MODULE DurationOption ---------------------------
(***************************************************************************)
(* The address tracker when --generation-duration is given on the command  *)
(* line.  Options names no conversion for it (server_tap.py:28), so the    *)
(* duration is text and adding it to a time raises TypeError: at once in   *)
(* makeService when a generation is recorded, which ends the process, and  *)
(* in every expire(), which logs it.  The first start of all does not add. *)
(***************************************************************************)
EXTENDS AddressIDTracker

TextStart == generation = 0 /\ Start

TextCheck ==
    /\ phase = "serving"
    /\ sinceCheck = Period
    /\ sinceCheck' = 0
    /\ UNCHANGED <<generation, age, addressIds, phase, unerased, life, early, issued>>

TextNext ==
    \/ TextStart
    \/ Erase
    \/ TextCheck
    \/ \E a \in Addr : GetKnown(a) \/ GetNew(a)
    \/ Tick
    \/ Crash

TextSpec == Init /\ [][TextNext]_vars
=============================================================================
