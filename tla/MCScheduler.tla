----------------------------- MODULE MCScheduler -----------------------------
(***************************************************************************)
(* A clock of four ticks a second.  MCRates gives periods of two, three,   *)
(* four (also for a rate that is not finite) and eight ticks.  A rate      *)
(* faster than the clock ticks, as any sample_rate_hz above 1e9 is for     *)
(* steady_clock, is left out: its period of 0 keeps dispatch_due from      *)
(* returning.                                                              *)
(***************************************************************************)
EXTENDS Scheduler

MCRates == {<<2, 1>>, <<4, 3>>, <<1, 0>>, <<1, 2>>}
=============================================================================
