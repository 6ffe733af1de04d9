------------------------------ MODULE MC_Sysfs ------------------------------
(* Model-checking instance of Sysfs: writes of 0, 1 and a number past the *)
(* capacity.  MC_Sysfs.cfg sets a disk of 262144 sectors (128 MB), larger *)
(* than the default regsize; MC_SysfsEmpty.cfg a disk of capacity 0.       *)
EXTENDS Sysfs

MCNumTexts == {0, 1, 300000}
MCWordTexts == {"on", "off", "stag", "realtime"}
=============================================================================
