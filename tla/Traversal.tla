----------------------------- MODULE Traversal -----------------------------
(***************************************************************************)
(* The traversal strategies of the in-kernel scrubber                      *)
(* (block/scrub_core.c): the round parameters scrubdev() derives from the  *)
(* snapshot, and one iteration of the loops of seqscrub(), stgscrub()     *)
(* and fixedscrub(), expressed over a cursor so that the controller of     *)
(* Scrubber.tla can step through them with a segread() call between       *)
(* iterations.                                                             *)
(*                                                                         *)
(* A cursor is a record [pos, sn, rn]: seqscrub() uses pos, stgscrub()     *)
(* uses the segment and region counters sn and rn, fixedscrub() counts its *)
(* probes in sn.  Arithmetic on sector numbers is uint64_t in the code;    *)
(* Word stands for 2^64.                                                   *)
(***************************************************************************)
EXTENDS Naturals

CONSTANT Word   \* 2^64 in the code; a small power of two in a model

\* lceil(): whole / part rounded up.
Lceil(whole, part) ==
    IF whole % part = 0 THEN whole \div part ELSE 1 + whole \div part

\* scrubdev(): s->capacity becomes the end sector of the round (the whole
\* disk when scount is 0 or runs past the disk), and the sizes, stored in
\* KB, are doubled into sectors.  snap is the snapshot taken by scrubber().
RoundParams(snap, diskCap) ==
    [ strategy |-> snap.strategy,
      reqbound |-> snap.reqbound,
      start    |-> snap.spoint,
      capacity |-> IF snap.scount = 0 \/ snap.spoint + snap.scount > diskCap
                   THEN diskCap ELSE snap.spoint + snap.scount,
      segsize  |-> (2 * snap.segsize) % Word,
      regsize  |-> (2 * snap.regsize) % Word ]

\* stgscrub(): number of regions in [start, capacity) and of segments in a
\* region.  capacity - start wraps around when start > capacity.
RegNum(p) == Lceil((p.capacity - p.start) % Word, p.regsize)
SegNum(p) == Lceil(p.regsize, p.segsize)

TravInit(p) == [pos |-> p.start, sn |-> 0, rn |-> 0]

\* fixedscrub() refuses a disk of 20 GB or less, then probes 50 positions
\* alternating between the start of the disk and sector 40000000, each
\* pair 400000 sectors further in.  It ignores spoint and scount.
FixedMinCap == 40000001
FixedTop == 40000000
FixedStride == 400000
FixedProbes == 50

FixedPos(i) ==
    IF i % 2 = 0 THEN (i \div 2) * FixedStride
    ELSE FixedTop - ((i - 1) \div 2) * FixedStride

\* The loop condition of each strategy fails: the traversal is complete.
TravDone(p, c) ==
    CASE p.strategy = "seql"  -> c.pos >= p.capacity
      [] p.strategy = "stag"  -> c.sn >= SegNum(p)
      [] p.strategy = "fixed" -> c.sn >= FixedProbes

\* The sector the current iteration scrubs.
TravPos(p, c) ==
    CASE p.strategy = "seql"  -> c.pos
      [] p.strategy = "stag"  -> (p.start + c.rn * p.regsize + c.sn * p.segsize) % Word
      [] p.strategy = "fixed" -> FixedPos(c.sn)

\* stgscrub() skips an iteration whose sector lies past the end; the loop
\* condition of seqscrub() already guarantees it does not, and
\* fixedscrub() does not look.
TravEmits(p, c) == p.strategy = "fixed" \/ TravPos(p, c) < p.capacity

\* A slip: the last segment is not cut short at the end of the round.
SegLenUnclipped(p, pos) == p.segsize

\* The sector count of the segment at pos: segsize, or what is left of the
\* round, or the whole round when segsize exceeds it.
SegLen(p, pos) ==
    IF pos + p.segsize > p.capacity
    THEN IF p.segsize > p.capacity THEN p.capacity ELSE p.capacity - pos
    ELSE p.segsize

\* A slip: stgscrub() moves to the next segment column without going
\* back to the first region.
TravNextNoReset(p, c, num) ==
    IF p.strategy = "seql" THEN [c EXCEPT !.pos = (@ + num) % Word]
    ELSE IF p.strategy = "fixed" THEN [c EXCEPT !.sn = @ + 1]
    ELSE IF c.rn + 1 < RegNum(p) THEN [c EXCEPT !.rn = @ + 1]
    ELSE [c EXCEPT !.sn = @ + 1]

\* Advance the cursor past an iteration that scrubbed num sectors; the
\* fixed strategy moves to its next probe.
TravNext(p, c, num) ==
    IF p.strategy = "seql" THEN [c EXCEPT !.pos = (@ + num) % Word]
    ELSE IF p.strategy = "fixed" THEN [c EXCEPT !.sn = @ + 1]
    ELSE IF c.rn + 1 < RegNum(p) THEN [c EXCEPT !.rn = @ + 1]
    ELSE [c EXCEPT !.sn = @ + 1, !.rn = 0]

=============================================================================
