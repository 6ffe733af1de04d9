----------------------------- MODULE ScsiVerify -----------------------------
(***************************************************************************)
(* The SCSI VERIFY(10) driver of scrub_verify.c, and the split of a        *)
(* segment into VERIFY requests in kthread_segread(), as operators.        *)
(*                                                                         *)
(* A sense buffer is a function from 0..SENSE_BUFF_LEN-1 to bytes, indexed *)
(* as in C.  The device's answer to one SG_IO call is a record:            *)
(*   alloc    : construct_scsi_pt_obj() got its memory                     *)
(*   osErr    : the value scsi_kern_ioctl() returned (0 or -errno)         *)
(*   host, driver, status : io_hdr.host_status, driver_status, status      *)
(*   sense, sbLenWr       : the sense buffer and io_hdr.sb_len_wr          *)
(*                                                                         *)
(* CdbByte is the base of one byte of the CDB's address and length fields *)
(* (256 in the code).  A smaller base scales the 32-bit LBA field and the  *)
(* 65535-sector ceiling down together so that TLC reaches their limits.    *)
(***************************************************************************)
EXTENDS Integers, Sequences, Bitwise

CONSTANT CdbByte

SENSE_BUFF_LEN == 32
VERIFY10_CMD   == 47                    \* 0x2f

\* get_scsi_pt_result_category() results
SCSI_PT_DO_BAD_PARAMS == 1
SCSI_PT_DO_TIMEOUT    == 2
PT_GOOD == 0
PT_STATUS == 1
PT_SENSE == 2
PT_TRANSPORT_ERR == 3
PT_OS_ERR == 4

\* SG_LIB_CAT_* codes
CAT_NOT_READY == 2
CAT_MEDIUM_HARD == 3
CAT_ILLEGAL_REQ == 5
CAT_UNIT_ATTENTION == 6
CAT_INVALID_OP == 9
CAT_ABORTED_COMMAND == 11
CAT_MEDIUM_HARD_WITH_INFO == 18
CAT_NO_SENSE == 20
CAT_RECOVERED == 21
CAT_SENSE == 98
CAT_OTHER == 99

\* The largest count the CDB's 16-bit length field holds: 65535 in the code.
XferCeiling == CdbByte * CdbByte - 1

\* The big-endian number in n bytes of b starting at index i.
RECURSIVE BigEndian(_, _, _)
BigEndian(b, i, n) == IF n = 0 THEN 0 ELSE BigEndian(b, i, n - 1) * 256 + b[i + n - 1]

(***************************************************************************)
(* The loop of kthread_segread() for one TBUSY job: the (pos, num) of each *)
(* scsi_verify() call.  pos is a u64 cursor, Word64 its modulus.           *)
(***************************************************************************)
RECURSIVE VerifySplit(_, _, _), VerifySplitUnclipped(_, _, _), VerifySplitStep64K(_, _, _)

\* Mutant: num is not clipped to the ceiling.
VerifySplitUnclipped(pos, count, Word64) ==
    <<[lba |-> pos, num |-> count]>>
      \o (IF count <= XferCeiling THEN <<>>
          ELSE VerifySplitUnclipped((pos + XferCeiling) % Word64, count - XferCeiling, Word64))

\* Mutant: the cursor steps by 64K (65536) while num is clipped at 65535.
VerifySplitStep64K(pos, count, Word64) ==
    LET num == IF count > XferCeiling THEN XferCeiling ELSE count
    IN  <<[lba |-> pos, num |-> num]>>
          \o (IF count <= XferCeiling THEN <<>>
              ELSE VerifySplitStep64K((pos + XferCeiling + 1) % Word64, count - XferCeiling, Word64))

VerifySplit(pos, count, Word64) ==
    LET num == IF count > XferCeiling THEN XferCeiling ELSE count
    IN  <<[lba |-> pos, num |-> num]>>
          \o (IF count <= XferCeiling THEN <<>>
              ELSE VerifySplit((pos + XferCeiling) % Word64, count - XferCeiling, Word64))

(***************************************************************************)
(* The CDB sg_ll_verify10() builds: function 0..9 -> byte.  The LBA bytes  *)
(* are (lba >> 24..0) & 0xff, so only the low four bytes of the u64 lba    *)
(* reach the device.                                                       *)
(***************************************************************************)
VerifyCdb(vrprotect, dpo, bytechk, lba, veriLen) ==
    [k \in 0..9 |->
        CASE k = 0      -> VERIFY10_CMD
          [] k = 1      -> ((vrprotect & 7) * 32) | ((dpo & 1) * 16) | ((bytechk & 1) * 2)
          [] k \in 2..5 -> (lba \div CdbByte^(5 - k)) % CdbByte
          [] k \in 7..8 -> (veriLen \div CdbByte^(8 - k)) % CdbByte
          [] OTHER      -> 0]

(***************************************************************************)
(* sg_scsi_normalize_sense(): ok is its return value.                      *)
(***************************************************************************)
\* Mutant: response code 0x72 is taken for fixed format (> for >=).
NormalizeSenseDescFrom73(sb, sbLen) ==
    IF sbLen = 0 \/ (sb[0] & 112) # 112
    THEN [ok |-> FALSE, rc |-> 0, key |-> 0, asc |-> 0, ascq |-> 0]
    ELSE LET rc == sb[0] & 127
             fixLen == IF sbLen > 7 /\ sb[7] + 8 < sbLen THEN sb[7] + 8 ELSE sbLen
         IN  IF rc > 114
             THEN [ok |-> TRUE, rc |-> rc,
                   key  |-> IF sbLen > 1 THEN sb[1] & 15 ELSE 0,
                   asc  |-> IF sbLen > 2 THEN sb[2] ELSE 0,
                   ascq |-> IF sbLen > 3 THEN sb[3] ELSE 0]
             ELSE [ok |-> TRUE, rc |-> rc,
                   key  |-> IF sbLen > 2 THEN sb[2] & 15 ELSE 0,
                   asc  |-> IF sbLen > 7 /\ fixLen > 12 THEN sb[12] ELSE 0,
                   ascq |-> IF sbLen > 7 /\ fixLen > 13 THEN sb[13] ELSE 0]

NormalizeSense(sb, sbLen) ==
    IF sbLen = 0 \/ (sb[0] & 112) # 112
    THEN [ok |-> FALSE, rc |-> 0, key |-> 0, asc |-> 0, ascq |-> 0]
    ELSE LET rc == sb[0] & 127
             fixLen == IF sbLen > 7 /\ sb[7] + 8 < sbLen THEN sb[7] + 8 ELSE sbLen
         IN  IF rc >= 114
             THEN [ok |-> TRUE, rc |-> rc,
                   key  |-> IF sbLen > 1 THEN sb[1] & 15 ELSE 0,
                   asc  |-> IF sbLen > 2 THEN sb[2] ELSE 0,
                   ascq |-> IF sbLen > 3 THEN sb[3] ELSE 0]
             ELSE [ok |-> TRUE, rc |-> rc,
                   key  |-> IF sbLen > 2 THEN sb[2] & 15 ELSE 0,
                   asc  |-> IF sbLen > 7 /\ fixLen > 12 THEN sb[12] ELSE 0,
                   ascq |-> IF sbLen > 7 /\ fixLen > 13 THEN sb[13] ELSE 0]

(***************************************************************************)
(* sg_err_category_sense()                                                 *)
(***************************************************************************)
ErrCategorySense(sb, sbLen) ==
    LET ssh == NormalizeSense(sb, sbLen)
    IN  IF sbLen > 2 /\ ssh.ok
        THEN CASE ssh.key = 0          -> CAT_NO_SENSE
               [] ssh.key = 1          -> CAT_RECOVERED
               [] ssh.key = 2          -> CAT_NOT_READY
               [] ssh.key \in {3, 4, 8} -> CAT_MEDIUM_HARD
               [] ssh.key = 6          -> CAT_UNIT_ATTENTION
               [] ssh.key = 5          -> IF ssh.asc = 32 /\ ssh.ascq = 0
                                          THEN CAT_INVALID_OP ELSE CAT_ILLEGAL_REQ
               [] ssh.key = 11         -> CAT_ABORTED_COMMAND
               [] OTHER                -> CAT_SENSE
        ELSE CAT_SENSE

(***************************************************************************)
(* sg_scsi_sense_desc_find(): the index of the first descriptor of the     *)
(* given type, or -1 for NULL.  DescScan is the loop: k counts the         *)
(* descriptor bytes passed, d is the index of the current descriptor.     *)
(***************************************************************************)
RECURSIVE DescScan(_, _, _, _, _)
DescScan(sb, addSenLen, type, k, d) ==
    IF k >= addSenLen THEN -1
    ELSE LET addLen == IF k < addSenLen - 1 THEN sb[d + 1] ELSE -1
         IN  IF sb[d] = type THEN d
             ELSE IF addLen < 0 THEN -1
             ELSE DescScan(sb, addSenLen, type, k + addLen + 2, d + addLen + 2)

SenseDescFind(sb, senseLen, type) ==
    IF senseLen < 8 \/ sb[7] = 0 \/ sb[0] < 114 \/ sb[0] > 115 THEN -1
    ELSE DescScan(sb, IF sb[7] < senseLen - 8 THEN sb[7] ELSE senseLen - 8, type, 0, 8)

(***************************************************************************)
(* sg_get_sense_info_fld(), with the info already cut to the unsigned int  *)
(* sg_ll_verify10() keeps of it (its low four bytes).  last is the highest *)
(* index of sense_b the function reads.  A byte past the 32-byte sense_b   *)
(* is other stack memory; it only reaches the logged info, taken as 0.     *)
(***************************************************************************)
StackByte(sb, i) == IF i < SENSE_BUFF_LEN THEN sb[i] ELSE 0

SenseInfoFld(sb, sbLen) ==
    LET none == [valid |-> FALSE, info |-> 0, last |-> 0]
        d    == SenseDescFind(sb, sbLen, 0)
    IN  IF sbLen < 7 THEN none
        ELSE CASE (sb[0] & 127) \in {112, 113} ->
                    [valid |-> (sb[0] & 128) # 0, info |-> BigEndian(sb, 3, 4), last |-> 6]
               [] (sb[0] & 127) \in {114, 115} /\ d # -1 /\ StackByte(sb, d + 1) = 10 ->
                    [valid |-> (StackByte(sb, d + 2) & 128) # 0,
                     info  |-> BigEndian([i \in 0..3 |-> StackByte(sb, d + 8 + i)], 0, 4),
                     last  |-> d + 11]
               [] OTHER -> none

(***************************************************************************)
(* get_scsi_pt_result_category()                                           *)
(***************************************************************************)
PtResultCategory(r) ==
    LET drSt   == r.driver & 15
        scsiSt == r.status & 126
    IN  CASE r.osErr # 0                        -> PT_OS_ERR
          [] r.host # 0                         -> PT_TRANSPORT_ERR
          [] drSt # 0 /\ drSt # 8               -> PT_TRANSPORT_ERR
          [] drSt = 8 \/ scsiSt \in {2, 34}     -> PT_SENSE
          [] scsiSt # 0                         -> PT_STATUS
          [] OTHER                              -> PT_GOOD

(***************************************************************************)
(* do_scsi_pt(): in_err is 0 and cmdp is set, as sg_ll_verify10() sets     *)
(* each once; the result is -os_err when the ioctl failed.                 *)
(***************************************************************************)
DoScsiPt(r) == IF r.osErr < 0 THEN -r.osErr ELSE 0

(***************************************************************************)
(* sg_cmds_process_resp(): ret is -1, -2 (sense, with category scat) or 0. *)
(***************************************************************************)
ProcessResp(res, r) ==
    IF res < 0 \/ res \in {SCSI_PT_DO_BAD_PARAMS, SCSI_PT_DO_TIMEOUT}
    THEN [ret |-> -1, scat |-> 0]
    ELSE CASE PtResultCategory(r) = PT_GOOD  -> [ret |-> 0, scat |-> 0]
           [] PtResultCategory(r) = PT_SENSE ->
                [ret |-> -2, scat |-> ErrCategorySense(r.sense, r.sbLenWr)]
           [] OTHER                          -> [ret |-> -1, scat |-> 0]

(***************************************************************************)
(* sg_ll_verify10(): the CDB it sends, its return value and *infop.        *)
(***************************************************************************)
Verify10(vrprotect, dpo, bytechk, lba, veriLen, r) ==
    LET cdb == VerifyCdb(vrprotect, dpo, bytechk, lba, veriLen)
        pr  == ProcessResp(DoScsiPt(r), r)
        fld == SenseInfoFld(r.sense, r.sbLenWr)
        out(ret, info) == [cdb |-> cdb, ret |-> ret, info |-> info]
    IN  CASE ~r.alloc      -> out(-1, 0)
          [] pr.ret = -1   -> out(-1, 0)
          [] pr.ret = -2   ->
               CASE pr.scat \in {CAT_NOT_READY, CAT_INVALID_OP, CAT_ILLEGAL_REQ,
                                 CAT_UNIT_ATTENTION, CAT_ABORTED_COMMAND} -> out(pr.scat, 0)
                 [] pr.scat \in {CAT_RECOVERED, CAT_NO_SENSE}             -> out(0, 0)
                 [] pr.scat = CAT_MEDIUM_HARD /\ fld.valid -> out(CAT_MEDIUM_HARD_WITH_INFO, fld.info)
                 [] pr.scat = CAT_MEDIUM_HARD              -> out(CAT_MEDIUM_HARD, 0)
                 [] OTHER                                  -> out(-1, 0)
          [] OTHER         -> out(0, 0)

(***************************************************************************)
(* scsi_verify(): VERIFY(10) with bytechk 0 and the scrubber's vrprotect   *)
(* and dpo; a negative result becomes SG_LIB_CAT_OTHER.                    *)
(***************************************************************************)
\* Mutant: sg_ll_verify10()'s -1 is returned as it is.
ScsiVerifyCallUnmapped(vrprotect, dpo, lba, count, r) ==
    Verify10(vrprotect, dpo, 0, lba, count, r)

ScsiVerifyCall(vrprotect, dpo, lba, count, r) ==
    LET v == Verify10(vrprotect, dpo, 0, lba, count, r)
    IN  [v EXCEPT !.ret = IF @ >= 0 THEN @ ELSE CAT_OTHER]

=============================================================================
