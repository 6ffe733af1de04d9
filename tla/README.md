# TLA+ models of the disk scrubber

This directory holds TLA+ models of the in-kernel disk scrubber in
`src/linux-2.6.35/block/` (`scrub_core.c`, `scrub.c`, `scrub_verify.c`). It
also gives the TLC configurations that check the models, and a record of what
the checks show (`PROJECT.json`).

## The system

Each disk has one scrubber with these parts:

- **Control surface** (`scrub.c`). These are sysfs attributes: state, segsize,
  regsize, spoint, scount, threads, strategy, priority, dpo, vrprotect,
  verbose, timed, reqbound, reqcount and others. `scrub_attr_show()` and
  `scrub_attr_store()` run each show and store function under `sysfs_lock`.
  Writing `on` to `state` calls `wake_up_process()` on the controller.
- **Controller** (`scrubber()`, `scrub_core.c:592-807`). It polls `state`.
  - When the state is on, it copies the attributes into a round snapshot and
    resets the round counters.
  - It initialises one barrier spinlock per worker and the worker slots, then
    starts `threads` worker kthreads.
  - It issues a warm-up read, then runs `scrubdev()` and the chosen strategy.
  - At the end it `kthread_stop()`s every worker and publishes `reqcount`.
  - When the state is not on, it sleeps.
- **Strategies** (`seqscrub()`, `stgscrub()`, `fixedscrub()`). The first two
  walk `[start, capacity)` in segments and call `segread()` once per segment.
  After each segment they check for `abort` and for `reqbound`.
  `fixedscrub()` refuses a disk of 40000001 sectors or less. Otherwise it
  reads one sector at 0, then probes 50 fixed positions between sector 0 and
  sector 40000000, one segsize each. It checks neither `abort` nor `reqbound`.
- **Dispatcher** (`segread()`). It waits for `s->available > 0` and
  decrements it. It then picks a TIDLE worker, marks it TBUSY, writes `pos`
  and `count` into its slot, and `spin_unlock()`s its barrier. It polls until
  the worker is no longer TASK_RUNNING, then wakes it.
- **Workers** (`kthread_segread()`). On start, a worker becomes TIDLE, adds
  itself to `available` and wakes the controller. It then loops:
  - It sets TASK_INTERRUPTIBLE, then tries the barrier with `spin_trylock()`
    until that succeeds or it is asked to stop.
  - If it is asked to stop, it exits.
  - Otherwise, if TBUSY, it verifies its segment with `scsi_verify()` calls of
    at most 65535 sectors and counts each request. It then goes back to
    TIDLE, increments `available` and wakes the controller.
- **SCSI VERIFY** (`scrub_verify.c`). `scsi_verify()` calls
  `sg_ll_verify10()` with `dpo` and `vrprotect` read from the live
  attributes. That function builds the VERIFY(10) CDB and sends it through
  the block layer (`do_scsi_pt()`). It classifies the answer with
  `sg_cmds_process_resp()` and decodes the sense data with
  `sg_scsi_normalize_sense()`, `sg_err_category_sense()`,
  `sg_scsi_sense_desc_find()` and `sg_get_sense_info_fld()`.
- **Registration** (`scrub.c`). `blk_register_scrub()` allocates the
  scrubber (`blk_init_scrub()`, which also starts the controller with
  `kthread_run()`) and adds its kobject. `blk_unregister_scrub()` removes the
  sysfs directory. The kobject's release callback, `blk_release_scrub()`,
  `kthread_stop()`s the controller and frees the scrubber. The controller
  leaves `scrubber()` only from its idle branch, when
  `kthread_should_stop()` holds. `blk_unregister_scrub()` has its
  `kobject_put()` commented out, so nothing in this code releases the
  scrubber. The release comes, if ever, from whoever drops the last reference.

## Modules

| Module | Models |
|---|---|
| `Traversal` | Pure operators. `lceil()`; the round parameters that `scrubdev()` computes; the position, length, skip test and cursor step of one iteration of `seqscrub()`, `stgscrub()` and `fixedscrub()` (`FixedPos` gives the probe positions). uint64 arithmetic is `% Word`. |
| `Sysfs` | The store and show functions of `scrub.c` as operators over a record of attributes, and the defaults of `blk_init_scrub()`. It is also a small system of its own: an operator reads an attribute (`Read`), writes one (`Write`), or writes back what it read (`WriteBack`). |
| `MC_Sysfs` | The numbers and names the operator writes. |
| `Scrubber` | The controller, the dispatcher, the workers and the `state` store, composed as one system. Through `INSTANCE Sysfs`, every other store is an action too (`StoreAttr`). It uses `Traversal`. |
| `RoundLifecycle` | The abstract round state machine of spec §4.2 (Idle, Running, Draining), with the state attribute, the live workers and the counts of segments handed out and completed. `Scrubber` is checked to refine it. |
| `Registration` | Extends `Scrubber` with unregistration (`Unregister`), the two halves of `blk_release_scrub()` (`ReleaseStart`: `kthread_stop()` sets the stop flag and wakes the controller; `ReleaseDone`: it returns and the frees follow) and the controller's exit (`CExit`). Attribute stores need the registered kobject (`RStoreState`, `RStoreAttr`). `RController` is `Scrubber`'s controller, whose idle step schedules only while no stop is asked. `RSpecPut` is `RSpec` with the release bound to come after unregistration, as if the `kobject_put()` of `blk_unregister_scrub()` were restored. |
| `MC_Registration` | Extends `Registration` and `MC_Scrubber`. The rounds of the release runs are the staggered rounds and the fixed round. |
| `MC_Scrubber` | Sets of tunables (the attribute values at Init) and of operator writes for the runs. |
| `ScsiVerify` | Pure operators for `scrub_verify.c`, and the worker's split of a segment into VERIFYs (`VerifySplit`, `scrub_core.c:148-206`). |
| `MC_ScsiVerify` | A driver for the `ScsiVerify` operators. Its state is a job (a segment and its flags) and a device answer, and `Next` picks another. It encodes each answer as the bytes a device returns: fixed or descriptor sense, padded to the 32-byte buffer. It gives the spec's §4.6 table as the reference. |

In `Scrubber`:

- The controller is a program counter `cpc`. `Call` enters `segread()` with
  a return point `retpc`, the way each strategy calls it.
- A fixed round goes from `scrubdev` to `CFixedCheck` (the capacity test and
  the one-sector read at 0), then through `CTravEmit` with a whole segsize and
  `CFixedNext`, which moves to the next probe without looking at `state`.
- Each worker has a program counter `wpc[t]`.
- Linux sleeping uses a RUNNING flag per task: `ctlRunning` for the
  controller and `wrun[t]` for each worker.
  - `set_current_state(TASK_INTERRUPTIBLE)` sets the flag FALSE.
  - A wake-up sets it TRUE.
  - `schedule()` is a step guarded by the flag.

  This is what lets the model show lost wake-ups.
- `barrier[t]` is TRUE while the spinlock is locked.
- `shouldStop[t]` is `kthread_should_stop()`.
- If a thread is stopped before it first ran, the kernel's `kthread()` exits
  it with `-EINTR` without calling the thread function (`WStartStopped`).
  `kthread()` is not in this tree, so this step is modelled from the
  kernel's documented behaviour; the `while (res < 0)` loop at 751-760 is
  what meets its result.
- A worker that becomes idle takes three steps, as in the code (110-114,
  215-222): it writes TIDLE (`WStart` or `WDone`), then increments
  `available` under `mutexavail` (`WCount`), then wakes the controller
  (`WWake`). The dispatcher may pick it between the first two.
- Each code block between two points where another thread can observe its
  effect is one action. For example, `SrPick` (TBUSY) and `SrLoad` (pos and
  count) are separate steps, because a worker can run between them.
- `tun` is `disk->scrubber`. The `state` store is `StoreState`. Every other
  store is `StoreAttr(w)`, which applies the `Sysfs` store function of the
  written attribute to `tun`.
  - The attributes start from `TunableChoices`.
  - The operator's other writes come from `LiveWrites`.
  - A round reads its snapshot `snap`, except where the code reads
    `disk->scrubber` itself. `WVerify` takes `dpo` and `vrprotect` from
    `tun`, as `scsi_verify()` does. `liveReqcount` is
    `disk->scrubber->reqcount`.
- History variables record which jobs were handed out and which were
  verified: `dispatched`, `finished`, `assigned` and `rounds`.
  `verifyFlags` records the flags of the round's VERIFYs.

In `Sysfs`, the text written to or read from an attribute file is a record:

- `num` is the digits `echo n` writes;
- `word` is a name;
- `label` is a show's labelled number (`"Segment size: n KB"`);
- `list` is a bracketed choice list.

The stores see the text through `StrToNum` and `StrName`. `StrToNum` is
`simple_strtoul()`: it gives 0 unless the text starts with digits.

In `ScsiVerify`:

- A device answer is the outcome of the block-layer request. It records:
  - whether `blk_get_request()` succeeded;
  - the OS error;
  - the host and driver bytes;
  - the SCSI status;
  - the sense bytes with `sb_len_wr`.

  The request path itself is I/O.
- The CDB is a function from 0..9 to bytes. The sense buffer is a function
  from 0..31 to bytes. `StackByte` reads 0 beyond it.
- TLC's integers are 32-bit, so byte values are scaled.
  - `CdbByte` stands for 256.
  - The CDB's LBA field holds `CdbByte^4` values.
  - The transfer ceiling is `CdbByte^2 - 1`, which is 65535 when
    `CdbByte = 256`.
  - The information field keeps only its low 4 bytes. This is what
    `scsi_verify()` keeps, since its `info` is an `unsigned int`.

Abstractions:

- The outcome of a VERIFY only feeds `read_errs`, and only a log line reads
  that counter. So `Scrubber` leaves it out, and `ScsiVerify` checks it on
  its own.
- `delayms`, timing and I/O priority only sleep, measure or tune the
  scheduler, so they are left out.

## Runs

| Run | Module / cfg | Expect | Checks |
|---|---|---|---|
| rounds | `MC_Scrubber` / `MC_Scrubber.cfg` | pass | `TypeOK`, `AvailableBoundedByIdle`, `TraversalTilesRound`, `RoundTerminates` and `RefinesLifecycle` on a five-sector disk, with one of four rounds: (1) a sequential round from sector 2 with two workers and a partial last segment; (2) a staggered round that emits 0, 4 and 2 and skips 6, past the end; (3) a one-sector staggered round with reqbound 1 and no warm-up; (4) a fixed round, scaled down, whose probes are 0, 4 and 1 (`TraversalTilesRound` is about the other two strategies). VERIFYs are split to one sector. The operator writes `state` and `segsize` at any time. |
| scsi_verify | `MC_ScsiVerify` / `MC_ScsiVerify.cfg` | pass | `TypeOK`, `RequestsTileSegment` and `ResultMatchesSpec`. There are 128 segments around the 65535 ceiling and about 5000 device answers. The answers cover every tabled sense key in fixed and descriptor format, deferred or current, with and without a valid information field. They also cover every transport, driver, status and OS error. |
| release | `MC_Registration` / `MC_Registration.cfg` | pass | `AvailableBoundedByIdle`, `NoUseAfterRelease` and `ReleaseCompletes`. Unregistration and the release may come at any point of a staggered or fixed round, with one worker and up to two rounds, so the second round starts from the state the first left. |
| sysfs_surface | `MC_Sysfs` / `MC_Sysfs.cfg` | pass | `TypeOK`, over any two writes, reads and write-backs of any attribute on a 262144-sector disk. |
| zero_capacity | `MC_Sysfs` / `MC_SysfsEmpty.cfg` | violation | `AttrsUsable` on a disk with `get_capacity()` 0, such as one registered before it has media. The first nonzero write of `segsize` (or `regsize`) finds the old value above the capacity and stores the capacity, 0 (`scrub.c:174`, 200). A staggered round would then divide by it in `lceil()` (`scrub_core.c:435`, 341). |
| barrier_unlocked | `MC_Scrubber` / `MC_Barrier.cfg` | violation | `SlotReadAfterLoad`: `spin_lock_init()` leaves the barrier unlocked (`scrub_core.c:681`). A worker can therefore verify the zeroed slot before `segread()` has loaded it. |
| teardown_drop | `MC_Scrubber` / `MC_TeardownDrop.cfg` | violation | `DispatchedJobsVerified`: `kthread_stop()` makes a worker that was just handed a segment exit without verifying it (`:129`, `:752`). |
| stop_unstarted | `MC_Scrubber` / `MC_StopEarly.cfg` | violation | `RoundEnds`: if a worker is stopped before it ran, `kthread_stop()` keeps returning `-EINTR`, and the teardown loop never ends (`:753`). |
| lost_wakeup | `MC_Scrubber` / `MC_LostWakeup.cfg` | violation | `ActivationLiveness`: a write of `on` between the state test (607) and `set_current_state()` (794) is lost. |
| release_on | `MC_Registration` / `MC_ReleaseOn.cfg` | violation | `DestroyedAtUnregistration` (§3: the instance is destroyed at unregistration), under `RSpecPut`, which assumes the missing `kobject_put()` so that the release does start. The operator writes `on` and the disk is unregistered. Once the sysfs files are gone, `state` stays on, the controller never reaches its idle branch, and `kthread_stop()` never returns (`scrub_core.c:607`, `scrub.c:113`). |
| snapshot_dpo | `MC_Scrubber` / `MC_SnapshotDpo.cfg` | violation | `SnapshotIsolation`: writing `off` to `dpo` during a round changes that round's VERIFYs (`scrub_verify.c:533`). |
| spoint_wrap | `MC_Scrubber` / `MC_SpointWrap.cfg` | violation | `TraversalTilesRound`: the store tests the old value (`scrub.c:220`), so it accepts `spoint` 6 on a four-sector disk. In the staggered round, `capacity - start` then wraps, and the round verifies sectors before `spoint` (`scrub_core.c:434`). |

What the properties say:

- `AvailableBoundedByIdle` says that `available` (plus the worker being
  picked) never exceeds the number of TIDLE workers. If it failed, the TIDLE
  scan in `segread()` (300-301) could spin forever. Equality does not hold:
  a worker is TIDLE before it counts itself.
- `TraversalTilesRound` says three things:
  - the emitted segments lie in `[start, capacity)`;
  - they are pairwise disjoint;
  - when the traversal completes, they cover the whole range.
- `RoundTerminates` says that a round whose workers all started gets back to
  the polling loop. It relies on the fairness below.
- `RequestsTileSegment` decodes the VERIFY(10) CDBs a worker sends for a
  segment and compares them with the segment:
  - there are `ceil(count/65535)` requests, of 1..65535 sectors each;
  - each has opcode 0x2f and the job's protection and DPO bits;
  - they are contiguous from `pos` and end at `pos + count`.
- `ResultMatchesSpec` compares `scsi_verify()`'s return value with the
  category that the spec's §4.6 table gives for the same answer. The
  reference works on the answer's fields, while the code works on the bytes.
  A medium error with a valid information field must report the device's
  LBA.
- `AttrsUsable` says that whatever is written, the attributes a round
  copies stay usable: segsize, regsize and threads are positive, and the
  flags and levels are in range. It fails on a zero-capacity disk.
- `RefinesLifecycle` is `Life!Spec`, where `Life` is `INSTANCE
  RoundLifecycle` under this refinement mapping:
  - the phase comes from the controller's pc: the polling loop is idle, the
    teardown is draining, and everything else is running;
  - `live` is the workers created and not exited;
  - `issued` is `Len(dispatched)`;
  - `done` is the number of dispatch ids completed, not counting id 0, the
    zeroed slot.

  It says several things:
  - a round starts only while state is on;
  - `segread()` hands out segments only while the round runs;
  - a worker completes only segments that were handed out;
  - workers exit only during the teardown;
  - the controller goes back to polling only once every worker has exited,
    which is what makes the `kfree()`s at 774 and 780 safe.
- `NoUseAfterRelease` says that when `blk_release_scrub()` frees the
  scrubber, no worker of a round is left: each one has exited or was never
  created. It holds because the controller exits only from its idle branch,
  after its teardown loop.
- `ReleaseCompletes` says that a release started while `state` is not on
  returns, provided no worker of the round in progress was stopped before it
  ran (that hang is the stop_unstarted run). The round in progress finishes:
  abort ends it early, off does not. The controller then finds the stop flag.
  With `state` on it cannot hold (see below).
- `SnapshotIsolation` is spec §8's snapshot isolation, stated over the
  composed system.

Each property of a passing run has a mutant in `PROJECT.json`, and each mutant
breaks its property. The mutants are:

- a `segread()` without the availability wait;
- a `WDone` that drops `data->state = TIDLE`, so the worker counts itself
  while TBUSY;
- a round start without `s->available = 0`, checked in the release run's
  second round;
- a barrier loop that ignores `kthread_should_stop()`;
- an unclipped last segment;
- a staggered step that does not reset the region;
- a VERIFY split without the 65535 ceiling, or one that steps by 65536;
- a sense normalisation that treats response code 0x73 as fixed format;
- a `scsi_verify()` that does not map -1 to category 99;
- a strategy store without its search of the names;
- a controller that publishes `reqcount` and returns to polling without
  waiting for the `kthread_stop()` loop (checked by both `RefinesLifecycle`
  and `NoUseAfterRelease`);
- a dispatcher that picks a worker without waiting for `available`;
- a release that sets the stop flag without waking the sleeping controller.

### Further disagreements, not kept as runs

These disagreements came up while modelling. They are not kept as runs,
because each run answers one question and the runs went to the round and
the composed system.

- **reqcount drop** (`scrub_core.c:643`). The reset of the `reqcount`
  attribute at round start is commented out while workers increment it
  (201). In a second round the attribute goes on from the first round's
  value, then drops to the round's own count at the round's end (789), so
  spec §8's counter monotonicity fails. One worker, two rounds and a
  two-sector disk reach it.

- **Warm-up overrun** (`scrub_core.c:731`). The warm-up `segread()` reads
  `segsize` sectors at `spoint + segsize` and never checks that against the
  device. A sequential round with `spoint` 2 and two-KB segments on a
  four-sector disk verifies sectors 4 to 7. One round with `spoint` near the
  end reaches this, so no run is kept for it.
- **32-bit LBA** (`scrub_verify.c:447`). `sg_ll_verify10()` writes only the
  low 32 bits of the 64-bit lba into the VERIFY(10) CDB (bytes 2-5). On a
  disk of more than 2^32 sectors, the segments past 2^32 verify sectors near
  the start instead. `RequestsTileSegment` fails under `MC_ScsiVerify.cfg`
  with `CdbByte = 16`, `Word64 = 1048576` and `Jobs` the one segment at
  `CdbByte^4 - 300` of `2 * XferCeiling + 1` sectors, which crosses the
  scaled limit of 65536.
- **Out-of-bounds sense read** (`scrub_verify.c:409`).
  `sg_get_sense_info_fld()` reads the 8 information bytes of a descriptor
  that starts at byte 28, which is past the 32-byte `sense_b`. `SenseInfoFld`
  returns the highest index it reads (`last`), so an answer whose
  descriptors are `<<sks, cmd, info>>` shows it.
- **Unlisted sense keys** (`scrub_verify.c:513`). A sense key outside the
  table, such as 7 (DATA PROTECT) or 10 (COPY ABORTED), makes `scsi_verify()`
  return 99. §4.6 says 98.
- **Show/store round trip** (`scrub.c:134`). Writing back what a labelled
  show printed sets reqbound, spoint, scount, vrprotect or verbose to 0. §8
  says this is a no-op.
- **Unclamped stores** (`scrub.c:174`). A segsize larger than the disk is
  stored unclamped. The spoint_wrap run shows what this pattern leads to.
- **Segment overrun** (`scrub_core.c:380`). When `segsize > capacity`,
  seqscrub sets `num = capacity`, which overruns the end when start > 0.
  `TraversalTilesRound` catches it with `MCBigSegment`-like tunables: start
  at sector 2 of a four-sector disk, with three-KB segments.
- **Staggered overlap** (`scrub_core.c:466`). Segments larger than regions
  overlap.
- **The fixed strategy ignores abort and the round's range**
  (`scrub_core.c:524-533`). §4.2 and §4.3 say every strategy ends the round
  at the next dispatch boundary once `abort` is written. `fixedscrub()` goes
  through all its probes anyway. It also ignores `spoint` and `scount`, and
  the probe at sector 40000000 reads a whole segsize. On a disk just over
  40000001 sectors, that read runs past the end. In the rounds run, the
  probe at 4 reads sectors 4 and 5 of a five-sector disk.

## Bounds

- **Workers.** Two workers are enough for the races between workers. One
  worker is enough for the ordering bugs, which need only the dispatcher and
  one worker.
- **Disk size.** Disks of 2 to 5 sectors with 1-2 KB segments give two or
  three segments. That is enough for:
  - a partial last segment;
  - a skipped staggered position;
  - with a small `Word`, the uint64 wrap.
- **Rounds.** `MaxRounds = 1` bounds the otherwise endless polling loop. The
  release runs allow two rounds. Every round starts
  from the same reset state, apart from the live `reqcount` and the
  attributes.
- **Operator.** Writes of `state` are not capped.
  - The rounds run adds one `segsize` write, which may come at any point,
    including during a round. More writes would only multiply the states
    without changing the round's choice.
  - `MC_Sysfs` allows two writes (`MaxWrites`) to any attribute. The numbers
    are 0, 1 and 300000 (more than the capacity). The zero_capacity run
    sets the capacity to 0. The names are `on`, `off`,
    `stag` and `realtime`.
- **Byte scaling.** TLC's integers are 32-bit.
  - The passing VERIFY run uses `CdbByte = 256` and a 2^30 position modulus.
  - Its jobs sit at 0, 1, 65535 and 2^20. Their counts are 1 and 2, and
    values at and around 1, 2 and 3 times the ceiling.
- **Fixed strategy.** `MC_Scrubber.cfg` replaces the constants of
  `fixedscrub()`: the minimum capacity 40000001 becomes 5, the top probe
  40000000 becomes 4, the step 400000 becomes 1 and the 50 probes become 3.
  Three probes take both branches of `i % 2` and one step inward. The
  five-sector disk passes the capacity test, so the `return -1` branch of
  `CFixedCheck` is not taken in a passing run.
- **Release.** The release run has one worker. With two, a worker stopped
  before it ran hangs the round (the stop_unstarted run), and the release
  cannot return. Two rounds let the release come between rounds as well as
  within one. Registration, unregistration and release happen once each.
  Deadlock is not checked, because a released scrubber really stops.
  In release_on, the controller with `state` on stops at the round bound
  after its second round, where the code would go on starting rounds. In
  either case it never takes the idle branch, which is what the property
  needs.
- **Job and answer pairing.** `MC_ScsiVerify` pairs every job with the good
  answer and every answer with one job. The split does not read the answer.
  The category does not read the job, whose flags only reach the CDB.

## Fairness

`Fairness` gives weak fairness to the controller and to each worker. These are
kernel threads under a preemptive scheduler, so a runnable thread eventually
runs. Sleeping is modelled by disabled steps, so fairness never wakes a
sleeping task by itself. The operator has no fairness, because nothing obliges
it to write.

`RFairness` adds weak fairness to `ReleaseDone`: the caller blocked in
`kthread_stop()` is a thread too, and it runs once the controller has exited.
Unregistration and the start of the release get no fairness. They are up to
the rest of the kernel, and the commented-out `kobject_put()` means the
release may never come. Under `RSpec`, `DestroyedAtUnregistration` therefore
fails at once. The release_on run uses `RSpecPut` instead: weak fairness on
`ReleaseStart` as well. This shows that even a restored `kobject_put()` does
not make the property hold.

## Not modelled yet (plan for later sittings)

1. An abstract specification of the segments themselves, which would say
   that each sector of the round is verified. The code breaks it, as the
   teardown_drop and barrier_unlocked runs show, so `RoundLifecycle` counts
   segments but does not require them to be completed.
2. A failed `kthread_run()` (`:701`). `IS_ERR(...) == -ENOMEM` is never
   true, so an ERR_PTR task is later stopped.
3. The failure paths of registration: a failed `kmalloc_node()` in
   `blk_init_scrub()`, and a failed `kobject_add()` in `blk_register_scrub()`,
   which returns with the controller already running.
4. In `scrub_verify.c`:
   - the NULL return of `construct_scsi_pt_obj()`;
   - the block-layer request (`blk_get_request`, `blk_execute_rq`);
   - the status strings, which only feed logging.
5. The timing of rounds (`timed`, `ttime_ms`, `resptime_us`), including
   `fixedscrub()` switching `s->timed` off and on around its first read.
6. The user-space tool `src/sg3_utils-1.28/src/sg_scrubber.c`. §1 places it
   outside the engine, and §9 already records its backtracking last segment
   (`capacity - segment_size`). Its `segread()` also never advances `pos`
   between the 65535-sector chunks of a segment.
7. The evaluation programs in `src/eval/` are out of scope. They are
   benchmarks, not the scrubber.
