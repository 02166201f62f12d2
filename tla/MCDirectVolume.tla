--------------------------- MODULE MCDirectVolume ---------------------------
(* DirectVolume on small instances.  The kernel may give the disk minor 0   *)
(* or 4, as sda and sdb with a span of 3 instead of 15.                     *)
EXTENDS DirectVolume

MCDiskMinors == {0, 4}
=============================================================================
