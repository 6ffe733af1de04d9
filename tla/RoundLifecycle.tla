--------------------------- MODULE RoundLifecycle ---------------------------
(***************************************************************************)
(* What a scrubber promises about its rounds, after the round state        *)
(* machine of spec section 4.2: Idle -> Running -> Draining -> Idle.      *)
(* A round starts only while the state attribute is "on" and brings up     *)
(* its workers; segments are handed out only while it runs, and a         *)
(* segment is completed at most once, after it was handed out; workers    *)
(* leave only while the round drains, and the round is over only once     *)
(* every one of them has left.  The attribute may be written at any time. *)
(***************************************************************************)
EXTENDS Naturals

CONSTANT MaxThreads   \* the largest number of workers of a round

VARIABLES
    state,    \* the state attribute: "on", "off" or "abort"
    phase,    \* "idle", "running" or "draining"
    live,     \* the workers of the round that have not exited
    issued,   \* segments handed out this round
    done      \* segments completed this round

vars == <<state, phase, live, issued, done>>

Init ==
    /\ state = "off" /\ phase = "idle" /\ live = {}
    /\ issued = 0 /\ done = 0

\* The operator writes a new value to the state attribute.
Write(v) ==
    /\ v # state
    /\ state' = v
    /\ UNCHANGED <<phase, live, issued, done>>

\* A round starts, with n workers, only while the state is "on".
Begin(n) ==
    /\ phase = "idle" /\ state = "on"
    /\ phase' = "running"
    /\ live' = 0 .. n - 1
    /\ issued' = 0 /\ done' = 0
    /\ UNCHANGED state

\* A segment is handed to a worker.
Hand ==
    /\ phase = "running" /\ live # {}
    /\ issued' = issued + 1
    /\ UNCHANGED <<state, phase, live, done>>

\* A worker completes a segment that was handed out and not yet completed.
Complete ==
    /\ phase # "idle" /\ done < issued
    /\ done' = done + 1
    /\ UNCHANGED <<state, phase, live, issued>>

\* The traversal ends or is cut short.
Drain ==
    /\ phase = "running"
    /\ phase' = "draining"
    /\ UNCHANGED <<state, live, issued, done>>

\* Worker t exits.
Exit(t) ==
    /\ phase = "draining" /\ t \in live
    /\ live' = live \ {t}
    /\ UNCHANGED <<state, phase, issued, done>>

\* The round is over once every worker has exited.
End ==
    /\ phase = "draining" /\ live = {}
    /\ phase' = "idle"
    /\ UNCHANGED <<state, live, issued, done>>

Next ==
    \/ \E v \in {"on", "off", "abort"} : Write(v)
    \/ \E n \in 1 .. MaxThreads : Begin(n)
    \/ Hand \/ Complete \/ Drain \/ End
    \/ \E t \in 0 .. MaxThreads - 1 : Exit(t)

Spec == Init /\ [][Next]_vars

=============================================================================
