------------------------------- MODULE Machines -------------------------------
(***************************************************************************)
(* What ServerMachines, StoreMachines and ScreenMachines share.  Each of   *)
(* them instantiates some of the smaller machines and proves of each what  *)
(* it promises; no two machines run in one behaviour, so they share names  *)
(* of parameters and variables, and those that machines of several modules *)
(* have are declared here.                                                 *)
(***************************************************************************)
EXTENDS Integers, Sequences, FiniteSets

CONSTANTS
  Threads, MaxTurns, MaxFaults,
  None, Corrupt

VARIABLES
  at, cache, clock, task, calls, faults, kept, remote, acked, raced
=============================================================================
