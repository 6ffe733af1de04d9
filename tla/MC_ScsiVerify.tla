---------------------------- MODULE MC_ScsiVerify ----------------------------
(***************************************************************************)
(* Checks the VERIFY(10) driver over bounded inputs.  A state is one call  *)
(* of the worker's VERIFY loop: the job (segment and the scrubber's        *)
(* vrprotect and dpo) and the device's answer.  The answer is kept in the  *)
(* terms of the spec (§4.6), and Wire encodes it the way a SPC-3 device    *)
(* fills io_hdr and the sense buffer; the code's operators see only Wire.  *)
(***************************************************************************)
EXTENDS ScsiVerify, SequencesExt

CONSTANTS Word64,     \* the modulus of the u64 position (scaled)
          Jobs,       \* the segments and flags a worker verifies
          Answers     \* the device's answers

VARIABLES job, ans
vars == <<job, ans>>

----------------------------------------------------------------------------
(* The device side.                                                        *)

\* The n low bytes of x, most significant first.
BytesOf(x, n) == [i \in 1..n |-> (x \div 256^(n - i)) % 256]

\* Fixed-format sense, 18 bytes: valid bit and response code, key at 2,
\* information at 3..6, additional length 10, asc and ascq at 12 and 13.
FixedSense(s) ==
    << (IF s.valid THEN 128 ELSE 0) + (IF s.deferred THEN 113 ELSE 112), 0, s.key >>
      \o BytesOf(s.info, 4) \o << 10, 0, 0, 0, 0, s.asc, s.ascq, 0, 0, 0, 0 >>

\* Sense descriptors: information (type 0), command-specific (type 1) and
\* sense-key-specific (type 2), each with its additional length.
Descriptor(kind, s) ==
    CASE kind = "info" -> << 0, 10, IF s.valid THEN 128 ELSE 0, 0, 0, 0, 0, 0 >> \o BytesOf(s.info, 4)
      [] kind = "cmd"  -> << 1, 10, 0, 0, 0, 0, 0, 0, 0, 0, 0, 0 >>
      [] kind = "sks"  -> << 2, 6, 0, 0, 0, 0, 0, 0 >>

\* Descriptor-format sense: an 8-byte header whose byte 7 counts all the
\* descriptor bytes, even those the 32-byte buffer cuts off.
DescSense(s) ==
    LET body == FlattenSeq([i \in DOMAIN s.descs |-> Descriptor(s.descs[i], s)])
    IN  << IF s.deferred THEN 115 ELSE 114, s.key, s.asc, s.ascq, 0, 0, 0, Len(body) >> \o body

SenseData(s) == IF s.fmt = "fixed" THEN FixedSense(s) ELSE DescSense(s)

\* What the SG_IO call leaves in ptp and sense_b.
Wire(a) ==
    LET data == IF a.sense.fmt = "none" THEN <<>> ELSE SenseData(a.sense)
        wr   == IF Len(data) < SENSE_BUFF_LEN THEN Len(data) ELSE SENSE_BUFF_LEN
    IN  [alloc   |-> a.alloc,
         osErr   |-> a.osErr,
         host    |-> IF a.transport = "host" THEN 7 ELSE 0,            \* DID_ERROR
         driver  |-> CASE a.transport = "driver" -> 6                  \* DRIVER_TIMEOUT
                       [] a.driverSense          -> 24                 \* DRIVER_SENSE|SUGGEST_RETRY
                       [] OTHER                  -> 0,
         status  |-> a.status,
         sense   |-> [i \in 0..SENSE_BUFF_LEN - 1 |-> IF i < wr THEN data[i + 1] ELSE 0],
         sbLenWr |-> wr]

----------------------------------------------------------------------------
(* The reference: spec §4.6 on the answer's own terms.                     *)

SpecSenseCategory(s) ==
    CASE s.key \in {0, 1}    -> 0
      [] s.key = 2           -> CAT_NOT_READY
      [] s.key \in {3, 4, 8} ->
           IF s.valid /\ (s.fmt = "fixed" \/ "info" \in ToSet(s.descs))
           THEN CAT_MEDIUM_HARD_WITH_INFO ELSE CAT_MEDIUM_HARD
      [] s.key = 5           -> IF s.asc = 32 /\ s.ascq = 0 THEN CAT_INVALID_OP ELSE CAT_ILLEGAL_REQ
      [] s.key = 6           -> CAT_UNIT_ATTENTION
      [] s.key = 11          -> CAT_ABORTED_COMMAND
      [] OTHER               -> CAT_SENSE

\* Steps 1-5 of §4.6; -1 surfaces as Other.
SpecResult(a) ==
    CASE ~a.alloc \/ a.osErr # 0 \/ a.transport # "none" -> CAT_OTHER
      [] a.driverSense \/ a.status \in {2, 34}            -> SpecSenseCategory(a.sense)
      [] a.status # 0                                     -> CAT_OTHER
      [] OTHER                                            -> 0

\* The start LBA and block count a CDB carries, per the wire format.
CdbLba(c) == ((c[2] * CdbByte + c[3]) * CdbByte + c[4]) * CdbByte + c[5]
CdbLen(c) == c[7] * CdbByte + c[8]

----------------------------------------------------------------------------
(* Input sets for the runs.                                                *)

\* Sense data a device returns, over the given sense keys and descriptor lists.
SenseSet(keys, lists) ==
    [fmt: {"fixed"}, deferred: BOOLEAN, valid: BOOLEAN, key: keys, asc: {32, 17},
     ascq: {0, 1}, info: {5, 70000}, descs: {<<>>}]
    \cup
    [fmt: {"desc"}, deferred: BOOLEAN, valid: BOOLEAN, key: keys, asc: {32, 17},
     ascq: {0, 1}, info: {5, 70000}, descs: lists]

\* The sense keys of the spec's table, and descriptor lists that fit the buffer.
TableKeys == {0, 1, 2, 3, 4, 5, 6, 8, 11}
FittingLists == {<<>>, <<"cmd">>, <<"info">>, <<"sks", "info">>, <<"cmd", "info">>}

\* An answer that carries no sense data.
NoSenseData == [fmt |-> "none", deferred |-> FALSE, valid |-> FALSE, key |-> 0, asc |-> 0,
                ascq |-> 0, info |-> 0, descs |-> <<>>]

AnswersWith(senses) ==
    \* a CHECK CONDITION, COMMAND TERMINATED or DRIVER_SENSE with sense data
    [alloc: {TRUE}, osErr: {0}, transport: {"none"}, driverSense: {FALSE},
     status: {2, 34}, sense: senses]
    \cup [alloc: {TRUE}, osErr: {0}, transport: {"none"}, driverSense: {TRUE},
          status: {0}, sense: senses]
    \* a transport error that also carries sense data
    \cup [alloc: {TRUE}, osErr: {0}, transport: {"host", "driver"}, driverSense: BOOLEAN,
          status: {2}, sense: {CHOOSE s \in senses : s.key = 3}]
    \* no sense data: good, busy, allocation failure, ioctl errors
    \cup [alloc: BOOLEAN, osErr: {0, -2, -5}, transport: {"none", "host", "driver"},
          driverSense: {FALSE}, status: {0, 8}, sense: {NoSenseData}]

SenseAnswers == AnswersWith(SenseSet(TableKeys, FittingLists))
GoodAnswer == {[alloc |-> TRUE, osErr |-> 0, transport |-> "none", driverSense |-> FALSE,
                status |-> 0, sense |-> NoSenseData]}
OneJob == {[pos |-> 0, count |-> 8, vrprotect |-> 0, dpo |-> 1]}
SplitJobs == [pos: {0, 1, 65535, 1048576}, count: {1, 2, 65534, 65535, 65536, 131070, 131071, 196606},
              vrprotect: {0, 5}, dpo: {0, 1}]
\* The segments of the split check, and the one job of the sense check.
VerifyJobs == SplitJobs \cup OneJob

----------------------------------------------------------------------------
\* The split depends on the job alone and the result on the answer alone
\* (the flags only reach the CDB): every job is paired with a good answer,
\* every answer with the one job.
Paired(j, a) == j \in OneJob \/ a \in GoodAnswer

Init == job \in Jobs /\ ans \in Answers /\ Paired(job, ans)

\* The worker issues the next VERIFY of another job, ...
NextJob == \E j \in Jobs : Paired(j, ans) /\ job' = j /\ UNCHANGED ans

\* ... or the device answers differently.
NextAnswer == \E a \in Answers : Paired(job, a) /\ ans' = a /\ UNCHANGED job

Next == NextJob \/ NextAnswer

Spec == Init /\ [][Next]_vars

----------------------------------------------------------------------------
Requests == VerifySplit(job.pos, job.count, Word64)
CdbOf(q) == VerifyCdb(job.vrprotect, job.dpo, 0, q.lba, q.num)

\* The job and answer are of their types; each VERIFY of the split carries
\* 1..65535 blocks; scsi_verify() returns one of the categories its callers
\* know (sg_ll_verify10()'s comment, with -1 turned into SG_LIB_CAT_OTHER).
TypeOK ==
    /\ job.count \in Nat \ {0} /\ job.pos \in 0..Word64 - 1
    /\ job.vrprotect \in 0..7 /\ job.dpo \in 0..1
    /\ Wire(ans).sbLenWr \in 0..SENSE_BUFF_LEN
    /\ \A i \in DOMAIN Requests : Requests[i].num \in 1..XferCeiling
    /\ ScsiVerifyCall(job.vrprotect, job.dpo, job.pos, job.count, Wire(ans)).ret
         \in {0, CAT_NOT_READY, CAT_MEDIUM_HARD, CAT_ILLEGAL_REQ, CAT_UNIT_ATTENTION,
             CAT_INVALID_OP, CAT_ABORTED_COMMAND, CAT_MEDIUM_HARD_WITH_INFO, CAT_OTHER}

(* Protocol bound and coverage (spec §8): the VERIFY(10) commands the      *)
(* worker loop sends for a segment of N sectors are ceil(N/65535) CDBs,    *)
(* each for 1..65535 blocks with the scrubber's flags, and read back from  *)
(* the wire they are contiguous from the segment's start and cover exactly *)
(* its N sectors.  It is about the split in kthread_segread() and the      *)
(* byte packing in sg_ll_verify10().                                       *)
RequestsTileSegment ==
    LET n   == Len(Requests)
        cdb == [i \in 1..n |-> CdbOf(Requests[i])]
    IN  /\ n = (job.count + XferCeiling - 1) \div XferCeiling
        /\ \A i \in 1..n : /\ CdbLen(cdb[i]) \in 1..XferCeiling
                           /\ cdb[i][0] = VERIFY10_CMD
                           /\ cdb[i][1] = job.vrprotect * 32 + job.dpo * 16
        /\ CdbLba(cdb[1]) = job.pos
        /\ \A i \in 1..n - 1 : CdbLba(cdb[i + 1]) = CdbLba(cdb[i]) + CdbLen(cdb[i])
        /\ CdbLba(cdb[n]) + CdbLen(cdb[n]) = job.pos + job.count

(* Sense classification (spec §4.6): the category scsi_verify() returns    *)
(* for an answer is the one the spec's steps and sense-key table give,     *)
(* whatever the sense format, deferred or current, and whatever other      *)
(* descriptors come first; a medium error with a valid information field   *)
(* reports that LBA.  It is about sg_cmds_process_resp(), the sense        *)
(* parsing and sg_ll_verify10()'s mapping.                                 *)
ResultMatchesSpec ==
    LET v == ScsiVerifyCall(job.vrprotect, job.dpo, job.pos, job.count, Wire(ans))
    IN  /\ v.ret = SpecResult(ans)
        /\ v.ret = CAT_MEDIUM_HARD_WITH_INFO => v.info = ans.sense.info

=============================================================================
