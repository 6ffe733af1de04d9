---------------------------- MODULE Registration ----------------------------
(***************************************************************************)
(* The life of one disk's scrubber around its rounds (block/scrub.c):      *)
(* blk_unregister_scrub() removes the sysfs directory, and                 *)
(* blk_release_scrub(), the release callback of the kobject, stops the     *)
(* controller with kthread_stop() and frees disk->scrubber.  The           *)
(* controller leaves scrubber() only from its idle branch, when            *)
(* kthread_should_stop() holds (scrub_core.c:793-801).                     *)
(*                                                                         *)
(* The kobject core calls the release callback when the last reference is  *)
(* put.  blk_unregister_scrub() has its kobject_put() commented out, so    *)
(* the release comes, if at all, from whoever drops that reference: the    *)
(* model lets it start at any time after unregistration, or never.         *)
(***************************************************************************)
EXTENDS Scrubber

VARIABLES
    reg,      \* "registered", "unregistered", "releasing" or "released"
    ctlStop   \* kthread_should_stop() of the controller task

regVars == <<reg, ctlStop>>
allVars == <<vars, regVars>>

\* Attribute stores need the sysfs files, which kobject_del() removes.
RStoreState(v) == reg = "registered" /\ StoreState(v) /\ UNCHANGED regVars

RStoreAttr(w) == reg = "registered" /\ StoreAttr(w) /\ UNCHANGED regVars

\* blk_unregister_scrub(): KOBJ_REMOVE, kobject_del(), put_disk().
Unregister ==
    /\ reg = "registered"
    /\ reg' = "unregistered"
    /\ UNCHANGED <<vars, ctlStop>>

\* A slip: the stop flag is set but the sleeping task is not woken.
ReleaseStartNoWake ==
    /\ reg = "unregistered"
    /\ reg' = "releasing"
    /\ ctlStop' = TRUE
    /\ UNCHANGED <<vars>>

\* blk_release_scrub() calls kthread_stop() on the controller: the stop
\* flag is set, the task woken, and the caller blocks until it exits.
ReleaseStart ==
    /\ reg = "unregistered"
    /\ reg' = "releasing"
    /\ ctlStop' = TRUE
    /\ ctlRunning' = TRUE
    /\ UNCHANGED <<state, tun, liveReqcount, cpc, snap, rp, cur, reqcnt, job,
                   retpc, tgt, stopIdx, roundVars, wVars, histVars>>

\* kthread_stop() returns once scrubber() has returned; the names and
\* disk->scrubber are freed.
ReleaseDone ==
    /\ reg = "releasing"
    /\ cpc = "exited"
    /\ reg' = "released"
    /\ UNCHANGED <<vars, ctlStop>>

\* The idle branch, after set_current_state(TASK_INTERRUPTIBLE), finds
\* kthread_should_stop() and breaks out of the loop.
CExit ==
    /\ cpc = "prep"
    /\ ctlStop
    /\ ctlRunning' = FALSE
    /\ cpc' = "exited"
    /\ UNCHANGED <<state, tun, liveReqcount, snap, rp, cur, reqcnt, job, retpc,
                   tgt, stopIdx, roundVars, wVars, histVars, regVars>>

\* The controller of Scrubber, whose idle branch schedules only while it
\* is not asked to stop.
RController ==
    \/ cpc # "prep" /\ Controller /\ UNCHANGED regVars
    \/ ~ctlStop /\ CPrep /\ UNCHANGED regVars
    \/ CExit

\* blk_register_scrub() has added the kobject, and the controller started by
\* kthread_run() is in scrubber(): kscrubd_init()'s NULL checks cannot fail,
\* since blk_init_scrub() has already dereferenced disk->queue.
RInit == Init /\ reg = "registered" /\ ctlStop = FALSE

RNext ==
    \/ \E v \in {"on", "off", "abort"} : RStoreState(v)
    \/ \E w \in LiveWrites : RStoreAttr(w)
    \/ RController
    \/ \E t \in Workers : Worker(t) /\ UNCHANGED regVars
    \/ Unregister \/ ReleaseStart \/ ReleaseDone

\* The controller and the workers are kernel threads, and so is the
\* caller blocked in kthread_stop(): each runs when it can.  Unregistration
\* and the last kobject_put() are up to the rest of the kernel.
RFairness ==
    /\ WF_allVars(RController)
    /\ \A t \in Workers : WF_allVars(Worker(t) /\ UNCHANGED regVars)
    /\ WF_allVars(ReleaseDone)

RSpec == RInit /\ [][RNext]_allVars /\ RFairness

\* As if blk_unregister_scrub() dropped its reference (the kobject_put() of
\* scrub.c:778 restored): once unregistered, the release eventually starts.
RSpecPut == RSpec /\ WF_allVars(ReleaseStart)

-----------------------------------------------------------------------------
(* Properties.                                                             *)

(* blk_release_scrub() frees disk->scrubber only when no thread of the     *)
(* scrubber is left to use it: no worker of a round survives the free.    *)
(* kthread_stop() waits only for the controller; the workers are safe     *)
(* because the controller leaves scrubber() only from its idle branch,    *)
(* after its teardown loop has kthread_stop()ped every one of them.       *)
NoUseAfterRelease ==
    reg = "released" => \A t \in Workers : wpc[t] \in {"none", "exited", "eintr"}

(* A release that starts while state is not "on" completes: the           *)
(* controller finishes any round it is in (abort ends it early, off does  *)
(* not), finds kthread_should_stop() in its idle branch, returns, and     *)
(* kthread_stop() returns to blk_release_scrub().  Once the sysfs files   *)
(* are gone the state cannot change any more, so no round starts again.  *)
(* As for RoundTerminates, the workers of the round must have run: one    *)
(* kthread_stop()ped before it ran hangs the teardown (stop_unstarted).  *)
NoneStoppedUnstarted == \A t \in Active : wpc[t] \notin {"start", "eintr"}

ReleaseCompletes ==
    (reg = "releasing" /\ state # "on" /\ NoneStoppedUnstarted)
        ~> (reg = "released")

(* Spec §3: a scrubber instance is "destroyed at unregistration".  Once   *)
(* blk_unregister_scrub() has run, blk_release_scrub() eventually returns *)
(* and frees it.  It is about the kthread_stop() of blk_release_scrub(),  *)
(* which waits for the controller to leave scrubber() through its idle    *)
(* branch, which it never takes while state stays on.                     *)
DestroyedAtUnregistration == (reg = "unregistered") ~> (reg = "released")

=============================================================================
