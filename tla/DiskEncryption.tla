--------------------------- MODULE DiskEncryption ---------------------------
(***************************************************************************)
(* What the owner of a device may rely on when vold encrypts it, whatever  *)
(* steps cryptfs.c takes and wherever the power fails between them:        *)
(*   - data that is no longer in the clear never is again;                 *)
(*   - once the device has booted from encrypted data that a password      *)
(*     opens, some password always opens it;                               *)
(*   - from then on the password changes only while the data is unlocked,  *)
(*     and a power failure undoes no more than the last changes of it (the *)
(*     footer is written without fsync).                                   *)
(* Until that boot there is no promise that the data can be opened: while  *)
(* it is encrypted no password opens it, a power failure may undo that one *)
(* does again, and if the device does not boot the data may be encrypted   *)
(* once more, over what is there.                                          *)
(***************************************************************************)
CONSTANTS
  Passwords,
  NoPassword   \* no password opens the data

VARIABLES
  clear,      \* the data is on the disk as it was before any encryption
  booted,     \* the device has booted from data that is not in the clear
  accepted,   \* the password that opens the data now
  durable,    \* the one that will after a power failure
  unlocked    \* the running vold has the key

vars == <<clear, booted, accepted, durable, unlocked>>

\* A device that was never encrypted, or one encrypted by an earlier release.
Init ==
  /\ \/ clear = TRUE /\ accepted = NoPassword
     \/ clear = FALSE /\ accepted \in Passwords
  /\ booted = ~clear
  /\ durable = accepted
  /\ unlocked = FALSE

\* A key is drawn for an encryption, in place of what was there.
Begin ==
  /\ ~booted
  /\ accepted' = NoPassword
  /\ UNCHANGED <<clear, booted, durable, unlocked>>

Overwrite ==
  /\ ~booted /\ accepted = NoPassword
  /\ clear' = FALSE /\ durable' = NoPassword
  /\ UNCHANGED <<booted, accepted, unlocked>>

\* All of it is encrypted.
Seal(p) ==
  /\ ~booted /\ ~clear /\ accepted = NoPassword
  /\ accepted' = p
  /\ UNCHANGED <<clear, booted, durable, unlocked>>

Unlock ==
  /\ booted /\ accepted # NoPassword
  /\ unlocked' = TRUE
  /\ UNCHANGED <<clear, booted, accepted, durable>>

ChangePassword(p) ==
  /\ unlocked
  /\ accepted' = p
  /\ UNCHANGED <<clear, booted, durable, unlocked>>

Sync ==
  /\ durable' = accepted
  /\ UNCHANGED <<clear, booted, accepted, unlocked>>

Boot == booted' = ~clear /\ unlocked' = FALSE

PowerLoss ==
  /\ Boot
  /\ accepted' = durable
  /\ UNCHANGED <<clear, durable>>

Reboot ==
  /\ Boot
  /\ durable' = accepted
  /\ UNCHANGED <<clear, accepted>>

Next ==
  \/ Begin \/ Overwrite \/ Unlock \/ Sync \/ PowerLoss \/ Reboot
  \/ \E p \in Passwords : Seal(p) \/ ChangePassword(p)

Spec == Init /\ [][Next]_vars
=============================================================================
