------------------------------ MODULE Coordinator ------------------------------
(***************************************************************************)
(* RequestCoordinator of client.ts and the generation each screen of the   *)
(* app keeps beside it.  A request, or a read of the device's cache, that  *)
(* was begun is a flight: it carries the numbers it began with, whatever   *)
(* is done to it meanwhile, and lands when it lands, aborted or not.       *)
(***************************************************************************)
EXTENDS Naturals, FiniteSets

CONSTANTS
  MaxCalls,   \* bound on what the user and the network do together
  None        \* no data

ScreenAssumption == MaxCalls \in Nat

VARIABLES
  shown,     \* the screen's state as React holds it
  line,      \* its generation, and that of its coordinator
  flights,   \* reads, requests and writes that have not landed
  calls      \* what the user and the network did so far

Line == [generation : Nat, run : Nat]
NewLine == [generation |-> 0, run |-> 0]

Counted == calls < MaxCalls /\ calls' = calls + 1

(* generation.current += 1 and coordinator.cancel().                       *)
Cancelled(l) == [generation |-> l.generation + 1, run |-> l.run + 1]

(* A read is not the coordinator's: only the screen's generation guards it.*)
NextRead(l) == [l EXCEPT !.generation = @ + 1]

(* coordinator.run(): the request before it is aborted.                    *)
NextRun(l) == [l EXCEPT !.run = @ + 1]

(* The checks after an await: of a read or a rejected request, and of an   *)
(* answered one, which must be accepted as well.                           *)
Current(f, l) == f.generation = l.generation
Accepted(f, l) == Current(f, l) /\ f.run = l.run

Landed(f) == flights' = flights \ {f}
At(stage) == {f \in flights : f.stage = stage}

(* A flight whose landing will still be heeded.                            *)
Awaited(l) ==
  \/ \E f \in At("read") : Current(f, l)
  \/ \E f \in At("live") : Accepted(f, l)
=============================================================================
