------------------------------- MODULE Sysfs -------------------------------
(***************************************************************************)
(* The sysfs control surface of scrub.c: the show and store functions of   *)
(* the scrubber's attributes, each run under sysfs_lock by                 *)
(* scrub_attr_show() / scrub_attr_store(), and the defaults of             *)
(* blk_init_scrub().  The state attribute, whose store wakes the           *)
(* controller, is an action of Scrubber.                                   *)
(*                                                                         *)
(* The attributes are a record with the fields of struct disk_scrubber.    *)
(* The text written to or read from an attribute file is a record:         *)
(*   [kind |-> "num",   val |-> n]     decimal digits, as "echo n" writes  *)
(*   [kind |-> "word",  val |-> w]     a name, as "echo stag" writes       *)
(*   [kind |-> "label", val |-> n]     a label, then n: "Segment size: n KB"*)
(*   [kind |-> "list",  val |-> w]     the choices with w marked: "[seql]" *)
(* The store functions see it through StrToNum and StrName.                *)
(***************************************************************************)
EXTENDS Naturals

CONSTANTS Capacity,   \* get_capacity(s->disk), in sectors
          NumTexts,   \* numbers the operator writes
          WordTexts,  \* names the operator writes
          MaxWrites   \* bound on the operator's writes

VARIABLES attrs,      \* *disk->scrubber
          shown,      \* the attribute last read and the text the read gave
          writes      \* writes so far (bounded by MaxWrites)
vars == <<attrs, shown, writes>>

Strategies == {"seql", "stag", "fixed"}          \* strategies[]
Priorities == {"realtime", "idlechk"}            \* priorities[]

NumAttrs   == {"reqbound", "segsize", "regsize", "spoint", "scount", "threads",
               "vrprotect", "verbose", "ttime_ms", "reqcount", "delayms"}
WordAttrs  == {"strategy", "priority", "dpo", "timed"}
Attrs      == NumAttrs \cup WordAttrs

\* simple_strtoul/strtoull/strtol: the leading decimal digits, 0 if none.
StrToNum(t) == IF t.kind = "num" THEN t.val ELSE 0

\* The page with a trailing newline cut, as strcmp() compares it.
StrName(t) == IF t.kind = "word" THEN t.val ELSE "?"

(***************************************************************************)
(* blk_init_scrub(): the default attributes.                               *)
(***************************************************************************)
BlkInitScrub ==
    [reqbound |-> 0, segsize |-> 2048, regsize |-> 131072, threads |-> 1, dpo |-> 1,
     vrprotect |-> 0, verbose |-> 1, spoint |-> 0, reqcount |-> 0, scount |-> 0,
     timed |-> 0, ttime_ms |-> 0, delayms |-> 0, strategy |-> "seql",
     priority |-> "idlechk"]

(***************************************************************************)
(* The store functions.  Each returns the new attributes.                  *)
(***************************************************************************)
\* scrub_reqbound_store(): an unsigned value is never < 0, so always stored.
ReqboundStore(s, t) == [s EXCEPT !.reqbound = StrToNum(t)]

\* Mutant: the zero test is dropped.
SegsizeStoreNoZeroCheck(s, t, cap) ==
    IF s.segsize > cap THEN [s EXCEPT !.segsize = cap] ELSE [s EXCEPT !.segsize = StrToNum(t)]

\* scrub_segsize_store(): 0 is rejected; the capacity test reads the OLD
\* segsize, and clamps it whatever was written.
SegsizeStore(s, t, cap) ==
    CASE StrToNum(t) = 0 -> s
      [] s.segsize > cap -> [s EXCEPT !.segsize = cap]
      [] OTHER           -> [s EXCEPT !.segsize = StrToNum(t)]

\* scrub_regsize_store(): the same pattern on regsize.
RegsizeStore(s, t, cap) ==
    CASE StrToNum(t) = 0 -> s
      [] s.regsize > cap -> [s EXCEPT !.regsize = cap]
      [] OTHER           -> [s EXCEPT !.regsize = StrToNum(t)]

\* scrub_spoint_store(): an OLD spoint past the capacity is reset to 0.
SpointStore(s, t, cap) ==
    IF s.spoint > cap THEN [s EXCEPT !.spoint = 0] ELSE [s EXCEPT !.spoint = StrToNum(t)]

\* scrub_scount_store(): an OLD scount past the capacity is clamped.
ScountStore(s, t, cap) ==
    IF s.scount > cap THEN [s EXCEPT !.scount = cap] ELSE [s EXCEPT !.scount = StrToNum(t)]

\* Mutant: the name is copied in without the search of strategies[].
StrategyStoreAnyName(s, t) == [s EXCEPT !.strategy = StrName(t)]

\* scrub_strategy_store() / scrub_priority_store(): a known name different
\* from the current one is copied in; otherwise only a log line.
StrategyStore(s, t) ==
    IF StrName(t) \in Strategies THEN [s EXCEPT !.strategy = StrName(t)] ELSE s

PriorityStore(s, t) ==
    IF StrName(t) \in Priorities THEN [s EXCEPT !.priority = StrName(t)] ELSE s

\* scrub_threads_store(): threads <= 0 is rejected.
ThreadsStore(s, t) == IF StrToNum(t) <= 0 THEN s ELSE [s EXCEPT !.threads = StrToNum(t)]

\* scrub_dpo_store() / scrub_timed_store(): a value other than 0 or 1 is
\* first normalised to 0; "on" sets 1 if clear, "off" clears if set.
FlagStore(s, f, t) ==
    LET cur == IF s[f] \in {0, 1} THEN s[f] ELSE 0
    IN  CASE StrName(t) = "on" /\ cur = 0  -> [s EXCEPT ![f] = 1]
          [] StrName(t) = "off" /\ cur # 0 -> [s EXCEPT ![f] = 0]
          [] OTHER                         -> [s EXCEPT ![f] = cur]

DpoStore(s, t) == FlagStore(s, "dpo", t)
TimedStore(s, t) == FlagStore(s, "timed", t)

\* scrub_vrprotect_store() (0..7) / scrub_verbose_store() (0..3): a value
\* out of range is rejected.
VrprotectStore(s, t) == IF StrToNum(t) \in 0..7 THEN [s EXCEPT !.vrprotect = StrToNum(t)] ELSE s
VerboseStore(s, t) == IF StrToNum(t) \in 0..3 THEN [s EXCEPT !.verbose = StrToNum(t)] ELSE s

\* scrub_ttime_ms_store(), scrub_reqcount_store(), scrub_delayms_store():
\* stored as parsed.
PlainStore(s, f, t) == [s EXCEPT ![f] = StrToNum(t)]

\* scrub_attr_store(): the store function of attribute a.
Store(a, s, t, cap) ==
    CASE a = "reqbound"  -> ReqboundStore(s, t)
      [] a = "segsize"   -> SegsizeStore(s, t, cap)
      [] a = "regsize"   -> RegsizeStore(s, t, cap)
      [] a = "spoint"    -> SpointStore(s, t, cap)
      [] a = "scount"    -> ScountStore(s, t, cap)
      [] a = "strategy"  -> StrategyStore(s, t)
      [] a = "priority"  -> PriorityStore(s, t)
      [] a = "threads"   -> ThreadsStore(s, t)
      [] a = "dpo"       -> DpoStore(s, t)
      [] a = "vrprotect" -> VrprotectStore(s, t)
      [] a = "verbose"   -> VerboseStore(s, t)
      [] a = "timed"     -> TimedStore(s, t)
      [] OTHER           -> PlainStore(s, a, t)

(***************************************************************************)
(* The show functions, by the shape of the text they print.                *)
(***************************************************************************)
\* The numeric shows with a label: reqbound, segsize, regsize, spoint,
\* scount, threads, vrprotect, verbose ("Segment size: %llu KB\n").
LabelShow(s, f) == [kind |-> "label", val |-> s[f]]

\* The choice shows: strategy and priority list every name and bracket the
\* current one; dpo and timed print "[on] off" or " on [off]".
ListShow(s, f) ==
    [kind |-> "list", val |-> IF f \in {"dpo", "timed"}
                              THEN IF s[f] # 0 THEN "on" ELSE "off"
                              ELSE s[f]]

\* ttime_ms, reqcount and delayms print the bare number ("%llu\n").
PlainShow(s, f) == [kind |-> "num", val |-> s[f]]

\* scrub_attr_show(): the show function of attribute a.
Show(a, s) ==
    CASE a \in WordAttrs                           -> ListShow(s, a)
      [] a \in {"ttime_ms", "reqcount", "delayms"} -> PlainShow(s, a)
      [] OTHER                                     -> LabelShow(s, a)

----------------------------------------------------------------------------
(***************************************************************************)
(* The control surface on its own: a user reads and writes attribute      *)
(* files.  Each write is one store under sysfs_lock, so writes are atomic  *)
(* with respect to each other.                                             *)
(***************************************************************************)
Texts(a) ==
    IF a \in NumAttrs
    THEN {[kind |-> "num", val |-> n] : n \in NumTexts}
    ELSE {[kind |-> "word", val |-> w] : w \in WordTexts}

NoRead == [attr |-> "none", text |-> [kind |-> "num", val |-> 0]]

Init == attrs = BlkInitScrub /\ shown = NoRead /\ writes = 0

\* cat <attr>
Read(a) == shown' = [attr |-> a, text |-> Show(a, attrs)] /\ UNCHANGED <<attrs, writes>>

\* echo <text> > <attr>
Write(a, t) ==
    /\ writes < MaxWrites
    /\ attrs' = Store(a, attrs, t, Capacity)
    /\ writes' = writes + 1
    /\ UNCHANGED shown

\* cat <attr> > <attr>: write back the text the last read gave.
WriteBack ==
    /\ shown # NoRead
    /\ Write(shown.attr, shown.text)

Next ==
    \/ \E a \in Attrs : Read(a)
    \/ \E a \in Attrs : \E t \in Texts(a) : Write(a, t)
    \/ WriteBack

Spec == Init /\ [][Next]_vars

----------------------------------------------------------------------------
TypeOK ==
    /\ attrs.strategy \in Strategies /\ attrs.priority \in Priorities
    /\ \A f \in NumAttrs \cup {"dpo", "timed"} : attrs[f] \in Nat
    /\ shown.attr \in Attrs \cup {"none"}
    /\ writes \in 0..MaxWrites

(* Spec §9 and §4.1: whatever the operator writes, the attributes a round  *)
(* snapshots stay usable: segsize, regsize and threads positive, the       *)
(* VERIFY protection field in 0..7, verbosity in 0..3, dpo and timed 0 or  *)
(* 1.  It is about the rejection branches of the store functions and the  *)
(* clamp of segsize and regsize to get_capacity(), which may be 0.         *)
AttrsUsable ==
    /\ attrs.segsize > 0 /\ attrs.regsize > 0 /\ attrs.threads > 0
    /\ attrs.vrprotect \in 0..7 /\ attrs.verbose \in 0..3
    /\ attrs.dpo \in {0, 1} /\ attrs.timed \in {0, 1}

=============================================================================
