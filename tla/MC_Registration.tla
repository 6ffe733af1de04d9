-------------------------- MODULE MC_Registration --------------------------
(* Model-checking instance of Registration: the rounds of MC_Scrubber,     *)
(* with unregistration and release at any point.                           *)
EXTENDS Registration, MC_Scrubber

\* One worker, so that the warm-up read has started it before any
\* teardown (two workers meet the hang of the stop_unstarted run): the
\* staggered rounds and the fixed round of MC_Scrubber.
MCRelease == MCStag \cup MCFixed
=============================================================================
