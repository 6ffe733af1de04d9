------------------------------ MODULE Scrubber ------------------------------
(***************************************************************************)
(* One disk's in-kernel scrubber (block/scrub_core.c, block/scrub.c):      *)
(* the controller thread scrubber(), the dispatcher segread() it calls,    *)
(* the worker threads kthread_segread(), and the "state" attribute the     *)
(* operator writes through sysfs.                                          *)
(*                                                                         *)
(* Linux sleeping is modelled by a RUNNING flag per task: a task sets it   *)
(* FALSE with set_current_state(TASK_INTERRUPTIBLE), schedule() returns   *)
(* only once a wake-up has set it TRUE again.  The per-worker barrier is a *)
(* spinlock, TRUE while locked; spin_lock_init() leaves it unlocked.       *)
(***************************************************************************)
EXTENDS Naturals, Sequences, FiniteSets, Traversal

CONSTANTS
    DiskCapacity,   \* get_capacity(disk), in sectors
    MaxXfer,        \* 65535: the largest sector count of one VERIFY(10)
    MaxThreads,     \* the largest value of the "threads" attribute
    TunableChoices, \* the values the other attributes may hold
    MaxRounds,      \* bound: the rounds a behaviour may start
    LiveWrites      \* the attribute writes the operator may make: [attr, text]

ASSUME DiskCapacity \in Nat \ {0} /\ MaxXfer \in Nat \ {0}
ASSUME MaxThreads \in Nat \ {0}

Workers == 0 .. MaxThreads - 1

VARIABLES
    state,        \* disk->scrubber->state: "on", "off" or "abort"
    tun,          \* the other attributes of disk->scrubber
    liveReqcount, \* disk->scrubber->reqcount
    cpc,          \* where the controller thread is
    ctlRunning,   \* the controller task is TASK_RUNNING
    snap,         \* struct scrubparams: the attributes copied for the round
    rp,           \* the round parameters computed by scrubdev()
    cur,          \* the strategy's loop cursor
    reqcnt,       \* the strategy's local reqcount
    job,          \* segread() arguments: [pos, num, warm]
    retpc,        \* where the controller resumes when segread() returns
    tgt,          \* tcounter: the worker segread() picked
    stopIdx,      \* the worker the teardown loop is stopping
    available,    \* s->available
    sReqcount,    \* s->reqcount
    tstate,       \* tdata[t].state: "TINIT", "TIDLE" or "TBUSY"
    slot,         \* tdata[t].pos and .count, with the dispatch id
    barrier,      \* s->barrier[t] is locked
    shouldStop,   \* kthread_should_stop() of worker t
    wpc,          \* where worker t is
    wrun,         \* worker t's task is TASK_RUNNING
    wjob,         \* worker t's local pos and count
    dispatched,   \* history: the jobs segread() loaded this round
    finished,     \* history: dispatch ids a worker has completed
    assigned,     \* history: the dispatch id segread() picked worker t for
    rounds,       \* history: the rounds started so far
    verifyFlags   \* history: the dpo and vrprotect of this round's VERIFYs

ctlVars == <<cpc, ctlRunning, snap, rp, cur, reqcnt, job, retpc, tgt, stopIdx>>
roundVars == <<available, sReqcount, tstate, slot, barrier,
               shouldStop>>
wVars == <<wpc, wrun, wjob>>
histVars == <<dispatched, finished, assigned, rounds, verifyFlags>>
vars == <<state, tun, liveReqcount, ctlVars, roundVars, wVars, histVars>>

\* The slot as kmalloc_node(__GFP_ZERO) leaves it: id 0 is no dispatch.
ZeroSlot == [pos |-> 0, count |-> 0, id |-> 0]

\* tdata[t].state: TINIT, TIDLE, TBUSY.
ThreadStates == {"TINIT", "TIDLE", "TBUSY"}

\* The workers of the current round.
Active == 0 .. snap.threads - 1

NoJob == [pos |-> 0, num |-> 0, warm |-> FALSE]

\* The polling loop, and "exited": scrubber() has returned (module Registration).
IdlePcs == {"check", "prep", "sleep", "exited"}
TeardownPcs == {"stop", "stop_wait", "stop_sleep", "finish"}

-----------------------------------------------------------------------------
(* The operator: scrub_state_store().  A write of the current value is     *)
(* rejected with a log message and changes nothing.                        *)

StoreState(v) ==
    /\ v # state
    /\ state' = v
    /\ ctlRunning' = IF v = "on" THEN TRUE ELSE ctlRunning
    /\ UNCHANGED <<tun, liveReqcount, cpc, snap, rp, cur, reqcnt, job, retpc,
                   tgt, stopIdx, roundVars, wVars, histVars>>

\* The other attribute stores of scrub.c (module Sysfs), under sysfs_lock.
\* Only disk->scrubber changes; a round reads its snapshot, except where
\* the code reads disk->scrubber itself.
Attr == INSTANCE Sysfs WITH Capacity <- DiskCapacity, NumTexts <- {}, WordTexts <- {},
                            MaxWrites <- 0, attrs <- tun, shown <- 0, writes <- 0

StoreAttr(w) ==
    /\ tun' = Attr!Store(w.attr, tun, w.text, DiskCapacity)
    /\ UNCHANGED <<state, liveReqcount, ctlVars, roundVars, wVars, histVars>>

-----------------------------------------------------------------------------
(* The controller: scrubber() and scrubdev().                              *)

\* The loop finds the state is not "on" ...
CIdle ==
    /\ cpc = "check"
    /\ state # "on"
    /\ cpc' = "prep"
    /\ UNCHANGED <<state, tun, liveReqcount, ctlRunning, snap, rp, cur, reqcnt,
                   job, retpc, tgt, stopIdx, roundVars, wVars, histVars>>

\* ... then sets TASK_INTERRUPTIBLE and, as it is not asked to stop, ...
CPrep ==
    /\ cpc = "prep"
    /\ ctlRunning' = FALSE
    /\ cpc' = "sleep"
    /\ UNCHANGED <<state, tun, liveReqcount, snap, rp, cur, reqcnt, job, retpc,
                   tgt, stopIdx, roundVars, wVars, histVars>>

\* ... schedules, and runs the loop again once woken.
CSleep ==
    /\ cpc = "sleep"
    /\ ctlRunning
    /\ cpc' = "check"
    /\ UNCHANGED <<state, tun, liveReqcount, ctlRunning, snap, rp, cur, reqcnt,
                   job, retpc, tgt, stopIdx, roundVars, wVars, histVars>>

\* A slip: s->available = 0 is left out, so the count of the last round's
\* workers carries over (s is allocated once, before the loop).
CStartRoundNoReset ==
    /\ cpc = "check"
    /\ state = "on"
    /\ rounds < MaxRounds
    /\ rounds' = rounds + 1
    /\ snap' = tun
    /\ sReqcount' = 0
    /\ barrier' = [t \in Workers |-> FALSE]
    /\ tstate' = [t \in Workers |-> "TINIT"]
    /\ slot' = [t \in Workers |-> ZeroSlot]
    /\ shouldStop' = [t \in Workers |-> FALSE]
    /\ wpc' = [t \in Workers |-> IF t < tun.threads THEN "start" ELSE "none"]
    /\ wrun' = [t \in Workers |-> TRUE]
    /\ wjob' = [t \in Workers |-> ZeroSlot]
    /\ dispatched' = <<>>
    /\ finished' = {}
    /\ assigned' = [t \in Workers |-> 0]
    /\ verifyFlags' = {}
    /\ cpc' = "warmup"
    /\ UNCHANGED <<state, tun, liveReqcount, ctlRunning, available, rp, cur, reqcnt, job,
                   retpc, tgt, stopIdx>>

\* The state is "on": copy the attributes under sysfs_lock, reset the round
\* counters, initialise the barriers (unlocked) and the thread data, and
\* start the workers.  Setting the idle I/O priority changes nothing here.
CStartRound ==
    /\ cpc = "check"
    /\ state = "on"
    /\ rounds < MaxRounds
    /\ rounds' = rounds + 1
    /\ snap' = tun
    /\ available' = 0
    /\ sReqcount' = 0
    /\ barrier' = [t \in Workers |-> FALSE]
    /\ tstate' = [t \in Workers |-> "TINIT"]
    /\ slot' = [t \in Workers |-> ZeroSlot]
    /\ shouldStop' = [t \in Workers |-> FALSE]
    /\ wpc' = [t \in Workers |-> IF t < tun.threads THEN "start" ELSE "none"]
    /\ wrun' = [t \in Workers |-> TRUE]
    /\ wjob' = [t \in Workers |-> ZeroSlot]
    /\ dispatched' = <<>>
    /\ finished' = {}
    /\ assigned' = [t \in Workers |-> 0]
    /\ verifyFlags' = {}
    /\ cpc' = "warmup"
    /\ UNCHANGED <<state, tun, liveReqcount, ctlRunning, rp, cur, reqcnt, job,
                   retpc, tgt, stopIdx>>

\* segread() is entered with the job to dispatch and where to return.
Call(j, ret) == job' = j /\ retpc' = ret /\ cpc' = "sr_wait"

\* The warm-up read of segsize sectors at spoint + segsize, skipped only
\* when a nonzero scount is smaller than segsize.  Sizes are not doubled
\* yet and s->capacity still holds scount.
CWarmup ==
    /\ cpc = "warmup"
    /\ IF snap.scount # 0 /\ snap.scount < snap.segsize
       THEN cpc' = "scrubdev" /\ UNCHANGED <<job, retpc>>
       ELSE Call([pos |-> snap.spoint + snap.segsize, num |-> snap.segsize,
                  warm |-> TRUE], "scrubdev")
    /\ UNCHANGED <<state, tun, liveReqcount, ctlRunning, snap, rp, cur, reqcnt,
                   tgt, stopIdx, roundVars, wVars, histVars>>

\* scrubdev(): compute the round's end and sizes, enter the strategy.
CScrubdev ==
    /\ cpc = "scrubdev"
    /\ rp' = RoundParams(snap, DiskCapacity)
    /\ cur' = TravInit(rp')
    /\ reqcnt' = 0
    /\ cpc' = IF snap.strategy = "fixed" THEN "fixed_check" ELSE "strat"
    /\ UNCHANGED <<state, tun, liveReqcount, ctlRunning, snap, job, retpc, tgt,
                   stopIdx, roundVars, wVars, histVars>>

\* fixedscrub() returns -1 on a disk of 20 GB or less; otherwise it reads
\* one sector at sector 0 (untimed) before its probes.
CFixedCheck ==
    /\ cpc = "fixed_check"
    /\ IF DiskCapacity < FixedMinCap
       THEN cpc' = "stop" /\ stopIdx' = 0 /\ UNCHANGED <<job, retpc>>
       ELSE Call([pos |-> 0, num |-> 1, warm |-> TRUE], "strat") /\ UNCHANGED stopIdx
    /\ UNCHANGED <<state, tun, liveReqcount, ctlRunning, snap, rp, cur, reqcnt,
                   tgt, roundVars, wVars, histVars>>

\* The strategy's loop condition fails: the traversal is complete.
CTravEnd ==
    /\ cpc = "strat"
    /\ TravDone(rp, cur)
    /\ cpc' = "stop"
    /\ stopIdx' = 0
    /\ UNCHANGED <<state, tun, liveReqcount, ctlRunning, snap, rp, cur, reqcnt,
                   job, retpc, tgt, roundVars, wVars, histVars>>

\* stgscrub() skips a segment that starts past the end.
CTravSkip ==
    /\ cpc = "strat"
    /\ ~TravDone(rp, cur)
    /\ ~TravEmits(rp, cur)
    /\ cur' = TravNext(rp, cur, 0)
    /\ UNCHANGED <<state, tun, liveReqcount, cpc, ctlRunning, snap, rp, reqcnt,
                   job, retpc, tgt, stopIdx, roundVars, wVars, histVars>>

\* The strategy hands the current segment to segread(): fixedscrub() a
\* whole segsize, the others what SegLen leaves of the round.
CTravEmit ==
    /\ cpc = "strat"
    /\ ~TravDone(rp, cur)
    /\ TravEmits(rp, cur)
    /\ LET pos == TravPos(rp, cur)
           fixed == rp.strategy = "fixed"
       IN  Call([pos |-> pos, num |-> IF fixed THEN rp.segsize ELSE SegLen(rp, pos),
                 warm |-> FALSE],
                IF fixed THEN "fixed_next" ELSE "bail")
    /\ UNCHANGED <<state, tun, liveReqcount, ctlRunning, snap, rp, cur, reqcnt,
                   tgt, stopIdx, roundVars, wVars, histVars>>

\* After segread(): bail out on "abort" or once ++reqcount exceeds a
\* nonzero reqbound, else advance past the segment.
CBail ==
    /\ cpc = "bail"
    /\ LET bound == rp.reqbound # 0 /\ state # "abort"
           quit  == state = "abort" \/ (bound /\ reqcnt + 1 > rp.reqbound)
       IN  /\ reqcnt' = IF bound THEN reqcnt + 1 ELSE reqcnt
           /\ IF quit
              THEN cpc' = "stop" /\ stopIdx' = 0 /\ UNCHANGED cur
              ELSE cpc' = "strat" /\ cur' = TravNext(rp, cur, job.num)
                                  /\ UNCHANGED stopIdx
    /\ UNCHANGED <<state, tun, liveReqcount, ctlRunning, snap, rp, job, retpc,
                   tgt, roundVars, wVars, histVars>>

\* fixedscrub() goes on to its next probe whatever the state attribute
\* says: it checks neither "abort" nor reqbound.
CFixedNext ==
    /\ cpc = "fixed_next"
    /\ cur' = TravNext(rp, cur, job.num)
    /\ cpc' = "strat"
    /\ UNCHANGED <<state, tun, liveReqcount, ctlRunning, snap, rp, reqcnt, job,
                   retpc, tgt, stopIdx, roundVars, wVars, histVars>>

-----------------------------------------------------------------------------
(* The dispatcher: segread().                                              *)

\* A slip: a worker is taken without waiting for one to be available.
SrWaitNoGuard ==
    /\ cpc = "sr_wait"
    /\ available' = available - 1
    /\ cpc' = "sr_pick"
    /\ UNCHANGED <<state, tun, liveReqcount, ctlRunning, snap, rp, cur, reqcnt,
                   job, retpc, tgt, stopIdx, sReqcount, tstate, slot,
                   barrier, shouldStop, wVars, histVars>>

\* Wait until a worker is available, then take it under mutexavail.
SrWait ==
    /\ cpc = "sr_wait"
    /\ available > 0
    /\ available' = available - 1
    /\ cpc' = "sr_pick"
    /\ UNCHANGED <<state, tun, liveReqcount, ctlRunning, snap, rp, cur, reqcnt,
                   job, retpc, tgt, stopIdx, sReqcount, tstate, slot,
                   barrier, shouldStop, wVars, histVars>>

\* Scan tdata for a TIDLE worker and mark it TBUSY.
SrPick ==
    /\ cpc = "sr_pick"
    /\ \E t \in Active :
          /\ tstate[t] = "TIDLE"
          /\ tstate' = [tstate EXCEPT ![t] = "TBUSY"]
          /\ tgt' = t
          /\ assigned' = [assigned EXCEPT ![t] = Len(dispatched) + 1]
    /\ cpc' = "sr_load"
    /\ UNCHANGED <<state, tun, liveReqcount, ctlRunning, snap, rp, cur, reqcnt,
                   job, retpc, stopIdx, available, sReqcount, slot,
                   barrier, shouldStop, wVars, dispatched, finished, rounds,
                   verifyFlags>>

\* Write pos and count into its slot.
SrLoad ==
    /\ cpc = "sr_load"
    /\ slot' = [slot EXCEPT ![tgt] = [pos |-> job.pos, count |-> job.num,
                                      id |-> Len(dispatched) + 1]]
    /\ dispatched' = Append(dispatched, job)
    /\ cpc' = "sr_raise"
    /\ UNCHANGED <<state, tun, liveReqcount, ctlRunning, snap, rp, cur, reqcnt,
                   job, retpc, tgt, stopIdx, available, sReqcount,
                   tstate, barrier, shouldStop, wVars, finished, assigned,
                   rounds, verifyFlags>>

\* Raise the barrier: spin_unlock().
SrRaise ==
    /\ cpc = "sr_raise"
    /\ barrier' = [barrier EXCEPT ![tgt] = FALSE]
    /\ cpc' = "sr_handoff"
    /\ UNCHANGED <<state, tun, liveReqcount, ctlRunning, snap, rp, cur, reqcnt,
                   job, retpc, tgt, stopIdx, available, sReqcount,
                   tstate, slot, shouldStop, wVars, histVars>>

\* Poll until the worker is not TASK_RUNNING, wake it, and return.
SrHandoff ==
    /\ cpc = "sr_handoff"
    /\ ~wrun[tgt]
    /\ wrun' = [wrun EXCEPT ![tgt] = TRUE]
    /\ cpc' = retpc
    /\ UNCHANGED <<state, tun, liveReqcount, ctlRunning, snap, rp, cur, reqcnt,
                   job, retpc, tgt, stopIdx, roundVars, wpc, wjob, histVars>>

-----------------------------------------------------------------------------
(* The controller's teardown: kthread_stop() each worker in turn, then     *)
(* publish the round's reqcount under sysfs_lock.                          *)

CStopNext ==
    /\ cpc = "stop"
    /\ stopIdx < snap.threads
    /\ shouldStop' = [shouldStop EXCEPT ![stopIdx] = TRUE]
    /\ wrun' = [wrun EXCEPT ![stopIdx] = TRUE]
    /\ cpc' = "stop_wait"
    /\ UNCHANGED <<state, tun, liveReqcount, ctlRunning, snap, rp, cur, reqcnt,
                   job, retpc, tgt, stopIdx, available, sReqcount,
                   tstate, slot, barrier, wpc, wjob, histVars>>

\* kthread_stop() returns once the worker has exited, with its exit code:
\* 0 from kthread_segread(), or -EINTR when the worker was stopped before
\* it first ran.  On a negative code the loop sleeps and calls
\* kthread_stop() again, which returns the same exit code.
CStopWait ==
    /\ cpc = "stop_wait"
    /\ wpc[stopIdx] \in {"exited", "eintr"}
    /\ IF wpc[stopIdx] = "exited"
       THEN cpc' = "stop" /\ stopIdx' = stopIdx + 1 /\ UNCHANGED ctlRunning
       ELSE cpc' = "stop_sleep" /\ ctlRunning' = FALSE /\ UNCHANGED stopIdx
    /\ UNCHANGED <<state, tun, liveReqcount, snap, rp, cur, reqcnt, job, retpc,
                   tgt, roundVars, wVars, histVars>>

CStopSleep ==
    /\ cpc = "stop_sleep"
    /\ ctlRunning
    /\ cpc' = "stop_wait"
    /\ UNCHANGED <<state, tun, liveReqcount, ctlRunning, snap, rp, cur, reqcnt,
                   job, retpc, tgt, stopIdx, roundVars, wVars, histVars>>

\* A slip: the update runs without waiting for the kthread_stop() loop.
CFinishEarly ==
    /\ cpc = "stop"
    /\ liveReqcount' = sReqcount
    /\ cpc' = "check"
    /\ UNCHANGED <<state, tun, ctlRunning, snap, rp, cur, reqcnt, job, retpc,
                   tgt, stopIdx, roundVars, wVars, histVars>>

CFinish ==
    /\ cpc = "stop"
    /\ stopIdx >= snap.threads
    /\ liveReqcount' = sReqcount
    /\ cpc' = "check"
    /\ UNCHANGED <<state, tun, ctlRunning, snap, rp, cur, reqcnt, job, retpc,
                   tgt, stopIdx, roundVars, wVars, histVars>>

-----------------------------------------------------------------------------
(* A worker: kthread_segread().                                            *)

\* First run: data->state = TIDLE.  Counting itself available and the
\* wake of the controller are the steps WCount and WWake that follow.
WStart(t) ==
    /\ wpc[t] = "start"
    /\ ~shouldStop[t]
    /\ tstate' = [tstate EXCEPT ![t] = "TIDLE"]
    /\ wpc' = [wpc EXCEPT ![t] = "count"]
    /\ UNCHANGED <<state, tun, liveReqcount, ctlVars, available, sReqcount,
                   slot, barrier, shouldStop, wrun, wjob, histVars>>

\* kthread() does not call the thread function of a thread stopped before
\* it first ran: the thread exits with -EINTR.
WStartStopped(t) ==
    /\ wpc[t] = "start"
    /\ shouldStop[t]
    /\ wpc' = [wpc EXCEPT ![t] = "eintr"]
    /\ UNCHANGED <<state, tun, liveReqcount, ctlVars, roundVars, wrun, wjob,
                   histVars>>

\* Top of the event loop: set_current_state(TASK_INTERRUPTIBLE).
WPark(t) ==
    /\ wpc[t] = "park"
    /\ wrun' = [wrun EXCEPT ![t] = FALSE]
    /\ wpc' = [wpc EXCEPT ![t] = "try"]
    /\ UNCHANGED <<state, tun, liveReqcount, ctlVars, roundVars, wjob, histVars>>

\* A slip: the barrier loop does not look at kthread_should_stop().
WTryIgnoreStop(t) ==
    /\ wpc[t] = "try"
    /\ \/ /\ ~barrier[t]
          /\ barrier' = [barrier EXCEPT ![t] = TRUE]
          /\ wrun' = [wrun EXCEPT ![t] = TRUE]
          /\ wpc' = [wpc EXCEPT ![t] = "passed"]
       \/ /\ barrier[t]
          /\ wpc' = [wpc EXCEPT ![t] = "sleep"]
          /\ UNCHANGED <<barrier, wrun>>
    /\ UNCHANGED <<state, tun, liveReqcount, ctlVars, available,
                   sReqcount, tstate, slot, shouldStop, wjob, histVars>>

\* while (!spin_trylock(barrier) && !kthread_should_stop()) schedule();
WTry(t) ==
    /\ wpc[t] = "try"
    /\ \/ /\ ~barrier[t]
          /\ barrier' = [barrier EXCEPT ![t] = TRUE]
          /\ wrun' = [wrun EXCEPT ![t] = TRUE]
          /\ wpc' = [wpc EXCEPT ![t] = "passed"]
       \/ /\ barrier[t] /\ shouldStop[t]
          /\ wrun' = [wrun EXCEPT ![t] = TRUE]
          /\ wpc' = [wpc EXCEPT ![t] = "passed"]
          /\ UNCHANGED barrier
       \/ /\ barrier[t] /\ ~shouldStop[t]
          /\ wpc' = [wpc EXCEPT ![t] = "sleep"]
          /\ UNCHANGED <<barrier, wrun>>
    /\ UNCHANGED <<state, tun, liveReqcount, ctlVars, available,
                   sReqcount, tstate, slot, shouldStop, wjob, histVars>>

\* schedule() returns once woken; set_current_state(TASK_INTERRUPTIBLE).
WSleep(t) ==
    /\ wpc[t] = "sleep"
    /\ wrun[t]
    /\ wrun' = [wrun EXCEPT ![t] = FALSE]
    /\ wpc' = [wpc EXCEPT ![t] = "try"]
    /\ UNCHANGED <<state, tun, liveReqcount, ctlVars, roundVars, wjob, histVars>>

\* Past the barrier: exit if asked to stop, else act on tdata[t].state,
\* reading pos and count when TBUSY.
WPassed(t) ==
    /\ wpc[t] = "passed"
    /\ \/ shouldStop[t] /\ wpc' = [wpc EXCEPT ![t] = "exited"]
                        /\ UNCHANGED wjob
       \/ /\ ~shouldStop[t] /\ tstate[t] = "TBUSY"
          /\ wjob' = [wjob EXCEPT ![t] = slot[t]]
          /\ wpc' = [wpc EXCEPT ![t] = "verify"]
       \/ /\ ~shouldStop[t] /\ tstate[t] # "TBUSY"
          /\ wpc' = [wpc EXCEPT ![t] = "park"]
          /\ UNCHANGED wjob
    /\ UNCHANGED <<state, tun, liveReqcount, ctlVars, roundVars, wrun, histVars>>

\* One scsi_verify() of at most MaxXfer sectors, whose VERIFY(10) takes dpo
\* and vrprotect from disk->scrubber, the live attributes; count the
\* request under sysfs_lock in both s->reqcount and
\* disk->scrubber->reqcount.  Whether it failed only feeds s->read_errs,
\* which nothing but a log line reads.
WVerify(t) ==
    /\ wpc[t] = "verify"
    /\ verifyFlags' = verifyFlags \cup {[dpo |-> tun.dpo, vrprotect |-> tun.vrprotect]}
    /\ sReqcount' = sReqcount + 1
    /\ liveReqcount' = liveReqcount + 1
    /\ IF wjob[t].count <= MaxXfer
       THEN wpc' = [wpc EXCEPT ![t] = "done"] /\ UNCHANGED wjob
       ELSE wjob' = [wjob EXCEPT ![t].count = @ - MaxXfer,
                                 ![t].pos = @ + MaxXfer]
            /\ UNCHANGED wpc
    /\ UNCHANGED <<state, tun, ctlVars, available, tstate, slot, barrier,
                   shouldStop, wrun, dispatched, finished, assigned, rounds>>

\* A slip: the assignment data->state = TIDLE is dropped, so the worker
\* counts itself available while still TBUSY.
WDoneStaysBusy(t) ==
    /\ wpc[t] = "done"
    /\ finished' = finished \cup {wjob[t].id}
    /\ wpc' = [wpc EXCEPT ![t] = "count"]
    /\ UNCHANGED <<state, tun, liveReqcount, ctlVars, available, tstate,
                   sReqcount, slot, barrier, shouldStop, wrun, wjob,
                   dispatched, assigned, rounds, verifyFlags>>

\* The segment is done: data->state = TIDLE, then WCount and WWake.
WDone(t) ==
    /\ wpc[t] = "done"
    /\ tstate' = [tstate EXCEPT ![t] = "TIDLE"]
    /\ finished' = finished \cup {wjob[t].id}
    /\ wpc' = [wpc EXCEPT ![t] = "count"]
    /\ UNCHANGED <<state, tun, liveReqcount, ctlVars, available, sReqcount,
                   slot, barrier, shouldStop, wrun, wjob,
                   dispatched, assigned, rounds, verifyFlags>>

\* ++s->available under mutexavail, after the worker became TIDLE (first
\* run and end of a segment alike).
WCount(t) ==
    /\ wpc[t] = "count"
    /\ available' = available + 1
    /\ wpc' = [wpc EXCEPT ![t] = "wake"]
    /\ UNCHANGED <<state, tun, liveReqcount, ctlVars, tstate, sReqcount, slot,
                   barrier, shouldStop, wrun, wjob, histVars>>

\* wake_up_state(scrubber task, TASK_REPORT), after the mutex is released.
WWake(t) ==
    /\ wpc[t] = "wake"
    /\ ctlRunning' = TRUE
    /\ wpc' = [wpc EXCEPT ![t] = "park"]
    /\ UNCHANGED <<state, tun, liveReqcount, cpc, snap, rp, cur, reqcnt, job,
                   retpc, tgt, stopIdx, available, sReqcount, tstate, slot,
                   barrier, shouldStop, wrun, wjob, histVars>>

-----------------------------------------------------------------------------

Init ==
    /\ state = "off"
    /\ tun \in TunableChoices
    /\ liveReqcount = 0
    /\ cpc = "check"
    /\ ctlRunning = TRUE
    /\ snap = tun
    /\ rp = RoundParams(tun, DiskCapacity)
    /\ cur = TravInit(rp)
    /\ reqcnt = 0
    /\ job = NoJob
    /\ retpc = "scrubdev"
    /\ tgt = 0
    /\ stopIdx = 0
    /\ available = 0
    /\ sReqcount = 0
    /\ tstate = [t \in Workers |-> "TINIT"]
    /\ slot = [t \in Workers |-> ZeroSlot]
    /\ barrier = [t \in Workers |-> FALSE]
    /\ shouldStop = [t \in Workers |-> FALSE]
    /\ wpc = [t \in Workers |-> "none"]
    /\ wrun = [t \in Workers |-> TRUE]
    /\ wjob = [t \in Workers |-> ZeroSlot]
    /\ dispatched = <<>>
    /\ finished = {}
    /\ assigned = [t \in Workers |-> 0]
    /\ rounds = 0
    /\ verifyFlags = {}

Controller ==
    \/ CIdle \/ CPrep \/ CSleep \/ CStartRound \/ CWarmup \/ CScrubdev
    \/ CFixedCheck \/ CTravEnd \/ CTravSkip \/ CTravEmit \/ CBail \/ CFixedNext
    \/ SrWait \/ SrPick \/ SrLoad \/ SrRaise \/ SrHandoff
    \/ CStopNext \/ CStopWait \/ CStopSleep \/ CFinish

Worker(t) ==
    \/ WStart(t) \/ WStartStopped(t) \/ WPark(t) \/ WTry(t) \/ WSleep(t)
    \/ WPassed(t) \/ WVerify(t) \/ WDone(t) \/ WCount(t) \/ WWake(t)

Next ==
    \/ \E v \in {"on", "off", "abort"} : StoreState(v)
    \/ \E w \in LiveWrites : StoreAttr(w)
    \/ Controller
    \/ \E t \in Workers : Worker(t)

\* Kernel threads are scheduled preemptively: a thread that can run
\* eventually runs.  The operator is under no obligation to write.
Fairness == WF_vars(Controller) /\ \A t \in Workers : WF_vars(Worker(t))

Spec == Init /\ [][Next]_vars /\ Fairness

-----------------------------------------------------------------------------
(* Properties.                                                             *)

\* The attributes the model keeps: those scrubber() copies for a round
\* (priority, verbose, timed and delayms only tune logging and timing).
TunableType ==
    [strategy: {"seql", "stag", "fixed"}, reqbound: Nat, segsize: Nat \ {0}, regsize: Nat \ {0},
     spoint: Nat, scount: Nat, threads: 1 .. MaxThreads, dpo: {0, 1}, vrprotect: 0 .. 7]

TypeOK ==
    /\ state \in {"on", "off", "abort"}
    /\ tun \in TunableType /\ snap \in TunableType
    /\ cpc \in IdlePcs \cup TeardownPcs \cup
              {"warmup", "scrubdev", "fixed_check", "strat", "bail", "fixed_next",
               "sr_wait", "sr_pick",
               "sr_load", "sr_raise", "sr_handoff"}
    /\ ctlRunning \in BOOLEAN
    /\ tgt \in Workers /\ stopIdx \in 0 .. MaxThreads
    /\ available \in 0 .. MaxThreads
    /\ tstate \in [Workers -> ThreadStates]
    /\ barrier \in [Workers -> BOOLEAN]
    /\ shouldStop \in [Workers -> BOOLEAN]
    /\ wrun \in [Workers -> BOOLEAN]
    /\ wpc \in [Workers -> {"none", "start", "park", "try", "sleep", "passed",
                            "verify", "done", "count", "wake", "exited",
                            "eintr"}]
    /\ finished \subseteq 0 .. Len(dispatched)

\* s->available never counts more workers than are TIDLE, the one
\* segread() has taken and not yet marked TBUSY included: a worker sets
\* TIDLE before it counts itself (lines 110-113, 215-219), and segread()
\* decrements before it marks one TBUSY (282-302).  So the scan of tdata
\* in segread(), which spins until it meets a TIDLE worker, always ends.
\* (A worker between TIDLE and its count may be picked first; the
\* inequality is strict then.)  Workers, dispatcher and teardown all move
\* these two pieces of state.
AvailableBoundedByIdle ==
    available + (IF cpc = "sr_pick" THEN 1 ELSE 0)
        <= Cardinality({t \in Active : tstate[t] = "TIDLE"})

\* The segments seqscrub() or stgscrub() hands to segread() in a round are
\* disjoint and lie in [start, capacity); once the strategy runs to
\* completion they cover all of it.  (fixedscrub() probes fixed sectors.)
Emitted == SelectSeq(dispatched, LAMBDA j : ~j.warm)
Sectors(j) == j.pos .. j.pos + j.num - 1

TraversalTilesRound ==
    rp.strategy # "fixed" =>
        /\ \A i \in 1 .. Len(Emitted) :
              /\ rp.start <= Emitted[i].pos
              /\ Emitted[i].pos + Emitted[i].num <= rp.capacity
              /\ \A k \in 1 .. i - 1 : Sectors(Emitted[i]) \cap Sectors(Emitted[k]) = {}
        /\ cpc \in TeardownPcs /\ TravDone(rp, cur) =>
              UNION {Sectors(Emitted[i]) : i \in 1 .. Len(Emitted)}
                 = rp.start .. rp.capacity - 1

\* A round whose workers have all started ends: kthread_stop() returns for
\* every worker and the controller gets back to its polling loop.
AllStarted == \A t \in Active : wpc[t] # "start"

RoundTerminates == (cpc = "stop" /\ stopIdx = 0 /\ AllStarted) ~> (cpc = "check")

\* Every round ends: once the strategy is done, the teardown loop of
\* scrubber() gets back to polling, whether or not each worker had run by
\* the time kthread_stop() was called on it.
RoundEnds == (cpc = "stop" /\ stopIdx = 0) ~> (cpc = "check")

\* A worker verifies the segment segread() loaded for it: the pos and
\* count it reads after passing the barrier are those written after it
\* was marked TBUSY (the barrier is what is meant to order the two).
SlotReadAfterLoad ==
    \A t \in Active : wpc[t] = "verify" => wjob[t].id = assigned[t]

\* When scrubber() has stopped every worker, each segment segread() handed
\* out in the round has been verified.
DispatchedJobsVerified ==
    cpc = "stop" /\ stopIdx >= snap.threads =>
        \A i \in 1 .. Len(dispatched) : i \in finished

\* Writing "on" to the state attribute starts a round: the controller,
\* polling in its idle branch, does not stay asleep while state is "on".
\* (The round bound of the model stops it after MaxRounds rounds.)
ActivationLiveness ==
    \A n \in 0 .. MaxRounds - 1 :
        (state = "on" /\ rounds = n) ~> (rounds > n \/ state # "on")

(* Spec §8, snapshot isolation: a tunable changed during a round does not  *)
(* alter that round.  Every VERIFY(10) of the round carries the dpo and    *)
(* vrprotect scrubber() copied at its start, whatever the operator writes *)
(* meanwhile.  It is about scsi_verify() reading disk->scrubber.           *)
SnapshotIsolation ==
    cpc \notin IdlePcs =>
        \A f \in verifyFlags : f = [dpo |-> snap.dpo, vrprotect |-> snap.vrprotect]

-----------------------------------------------------------------------------
(* Refinement of the round lifecycle (module RoundLifecycle).              *)

\* The phase of the round: the controller's polling loop is idle, its
\* kthread_stop() loop and the final update drain, the rest runs.
Phase ==
    IF cpc \in IdlePcs THEN "idle"
    ELSE IF cpc \in TeardownPcs THEN "draining" ELSE "running"

\* The workers created for the round that have not exited.
Live == {t \in Workers : wpc[t] \notin {"none", "exited", "eintr"}}

Life == INSTANCE RoundLifecycle WITH
            phase <- Phase, live <- Live,
            issued <- Len(dispatched), done <- Cardinality(finished \ {0})

(* The controller, the dispatcher and the workers together implement the  *)
(* round lifecycle of spec section 4.2: a round starts only while state is *)
(* "on"; segread() hands out segments only while the round runs; a worker *)
(* completes only segments handed out, each once; workers exit only after *)
(* kthread_stop() and the controller returns to polling only once every   *)
(* worker of the round has exited.  It is about scrubber()'s teardown     *)
(* loop, kthread_segread()'s exits and the dispatch ids.                   *)
RefinesLifecycle == Life!Spec

=============================================================================
