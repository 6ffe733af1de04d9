---------------------------- MODULE MC_Scrubber ----------------------------
(* Model-checking instances of Scrubber: the attribute values at Init and *)
(* the attribute writes the operator makes.                               *)
EXTENDS Scrubber

\* A segment of one KB is two sectors.  Starting at sector 1 of a
\* four-sector disk, seqscrub() emits [1, 3) and the partial [3, 4) after
\* the warm-up read of sector 2.
MCSeql ==
    { [strategy |-> "seql", reqbound |-> 0, segsize |-> 1, regsize |-> 1,
       spoint |-> 1, scount |-> 0, threads |-> 2,
       dpo |-> 1, vrprotect |-> 0] }

\* Regions of four sectors, two segments each: on a six-sector disk
\* stgscrub() emits 0, 4, 2 and skips 6, past the end.  Or a count of
\* one sector, smaller than the segment: no warm-up, one segment, and a
\* request bound of one.  One worker.
MCStag ==
    { [strategy |-> "stag", reqbound |-> 0, segsize |-> 1, regsize |-> 2,
       spoint |-> 0, scount |-> 0, threads |-> 1,
       dpo |-> 1, vrprotect |-> 0],
      [strategy |-> "stag", reqbound |-> 1, segsize |-> 2, regsize |-> 2,
       spoint |-> 0, scount |-> 1, threads |-> 1,
       dpo |-> 1, vrprotect |-> 0] }

\* fixedscrub() scaled to a five-sector disk: it needs at least five
\* sectors and probes 0, 4, 1 (sector 4 stands for 40000000, the
\* probes step one sector inward).  With one-KB segments the probe at 4
\* reads two sectors.  Its reqbound of one is never consulted.
MCFixedMinCap == 5
MCFixedTop == 4
MCFixedStride == 1
MCFixedProbes == 3

MCFixed ==
    { [strategy |-> "fixed", reqbound |-> 1, segsize |-> 1, regsize |-> 1,
       spoint |-> 0, scount |-> 0, threads |-> 1,
       dpo |-> 1, vrprotect |-> 0] }

\* The rounds of the passing check on a five-sector disk: seqscrub()
\* from sector 2 with two workers emits [2, 4) and the partial [4, 5)
\* after the warm-up read of sector 3; or one of the staggered rounds of
\* MCStag, where 0, 4 (partial) and 2 are emitted and 6 is skipped; or
\* the fixed round of MCFixed.
MCRounds ==
    { [strategy |-> "seql", reqbound |-> 0, segsize |-> 1, regsize |-> 1,
       spoint |-> 2, scount |-> 0, threads |-> 2,
       dpo |-> 1, vrprotect |-> 0] } \cup MCStag \cup MCFixed

\* One worker, a two-sector disk read as one segment.
MCOne ==
    { [strategy |-> "seql", reqbound |-> 0, segsize |-> 1, regsize |-> 1,
       spoint |-> 0, scount |-> 0, threads |-> 1,
       dpo |-> 1, vrprotect |-> 0] }

\* No attribute writes other than state.
NoLiveWrites == {}

\* The operator sets segsize to 2 KB at any time, during a round too.
MCLiveWrites == { [attr |-> "segsize", text |-> [kind |-> "num", val |-> 2]] }

\* The operator turns dpo off.
MCDpoOff == { [attr |-> "dpo", text |-> [kind |-> "word", val |-> "off"]] }

\* The operator sets spoint to sector 6 of a four-sector disk.
MCSpointPastEnd == { [attr |-> "spoint", text |-> [kind |-> "num", val |-> 6]] }
=============================================================================
