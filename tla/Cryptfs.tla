------------------------------ MODULE Cryptfs ------------------------------
(***************************************************************************)
(* cryptfs.c: full disk encryption.  One command runs at a time, on the    *)
(* CommandListener thread; the power may fail between any two steps.       *)
(*                                                                         *)
(* On the disk are the encryptable partitions, userdata and the volumes    *)
(* vold manages, and the footer that holds the wrapped master key.  The    *)
(* footer is written through the page cache and never with fsync: "footer" *)
(* is what a process reads, "disk" what a power failure leaves.            *)
(*                                                                         *)
(* A key is a number, and so is what a partition holds: Clear, a key k for *)
(* "all encrypted with k", -k for "partly overwritten with k".             *)
(***************************************************************************)
EXTENDS Integers, FiniteSets

CONSTANTS
  NumVolumes,    \* volumes that should_encrypt holds for
  Passwords,
  NoPassword,    \* no password opens userdata
  Devices,       \* devices as they leave the factory or an earlier release
  KeyInFooter,   \* BOOLEAN: the key is in the footer, else in a file
  WipeOnFail,    \* values of ro.vold.wipe_on_crypt_fail
  Faults,        \* calls that may fail
  MaxKeys,       \* bound on the keys that cryptfs_enable draws
  MaxFailed      \* bound on failed_decrypt_count

Calls == {"size", "unmount", "prep", "key", "rewrap", "put", "get", "dm", "table",
          "dmremove", "mount", "io", "reboot"}

ASSUME CryptAssumption ==
  /\ NumVolumes \in Nat
  /\ NoPassword \notin Passwords
  /\ Devices \subseteq {"clear", "legacy"}
  /\ KeyInFooter \in BOOLEAN
  /\ WipeOnFail \subseteq BOOLEAN
  /\ Faults \subseteq Calls
  /\ MaxKeys \in Nat \ {0}
  /\ MaxFailed \in Nat

VARIABLES
  content,     \* what each partition holds
  footer,      \* crypt_mnt_ftr as it is read: the page cache
  disk,        \* crypt_mnt_ftr as a power failure leaves it
  drawn,       \* keys drawn so far
  encrypted,   \* ro.crypto.state, set by init when it boots
  saved,       \* saved_master_key, or NoKey while master_key_saved is 0
  dm,          \* the device mapper device over each partition
  data,        \* what is mounted on /data
  mounted,     \* volumes mounted
  framework,   \* which services init runs: "up", "min" or "down"
  prompted,    \* cryptocomplete told the UI to ask for the password
  restarted,   \* restart_successful
  progress,    \* vold.encrypt_progress
  wakelock,    \* the wakelock of cryptfs_enable is held
  persist,     \* persist_data: "none" or "loaded"
  pc,          \* where the running command is; "idle" between commands
  how, pw,     \* its arguments
  mine,        \* its crypt_ftr
  part,        \* the partition it has come to
  rc           \* its return code, at "idle" the reply of the last command

diskVars  == <<content, footer, disk, drawn>>
bootVars  == <<encrypted, saved, dm, data, mounted, framework, prompted, restarted>>
otherVars == <<progress, wakelock, persist>>
cmdVars   == <<pc, how, pw, mine, part, rc>>
vars == <<diskVars, bootVars, otherVars, cmdVars>>

Part  == 0..NumVolumes   \* 0 is userdata
Key   == 1..MaxKeys
NoKey == 0     \* an unset key, or what a wrong password unwraps
Clear == 0     \* content: not encrypted
NoMap == -1    \* dm: no device of that name
NoTable == -2  \* dm: a device that was created without a table

CurrentMinor == 2   \* CURRENT_MINOR_VERSION
PersistMinor == 1   \* the minor version that persistent data is read and saved for

MayFail(call) == call \in Faults
Outcomes(call) == IF MayFail(call) THEN BOOLEAN ELSE {TRUE}

-----------------------------------------------------------------------------
(* The footer.                                                              *)

Kdf == {"pbkdf2", "scrypt"}
Wrapped == [mk : Key \cup {NoKey}, pw : Passwords \cup {NoPassword}, kdf : Kdf]
Wrap(k, p, kdf) == [mk |-> k, pw |-> p, kdf |-> kdf]

Footer == [magic : BOOLEAN, inProgress : BOOLEAN, minor : 1..CurrentMinor, kdf : Kdf,
           key : Wrapped, fails : 0..MaxFailed]

\* An area that holds no footer.
Blank == [magic |-> FALSE, inProgress |-> FALSE, minor |-> CurrentMinor, kdf |-> "scrypt",
          key |-> Wrap(NoKey, NoPassword, "scrypt"), fails |-> 0]

\* Of a 1.1 footer, which has no kdf_type: its key was derived with PBKDF2.
Legacy(p) == [magic |-> TRUE, inProgress |-> FALSE, minor |-> 1, kdf |-> "scrypt",
              key |-> Wrap(1, p, "pbkdf2"), fails |-> 0]

\* Mutated: the upgrade steps past the current version.
UpgradeTooFar(f) ==
  IF f.magic /\ f.minor <= CurrentMinor THEN [f EXCEPT !.minor = f.minor + 1, !.kdf = "pbkdf2"]
  ELSE f

\* upgrade_crypt_ftr: "But keep the old kdf_type."
Upgrade(f) ==
  IF f.magic /\ f.minor < CurrentMinor THEN [f EXCEPT !.minor = CurrentMinor, !.kdf = "pbkdf2"]
  ELSE f

\* decrypt_master_key, with the function that kdf_type names.  A wrong password
\* is no error: it gives some other key.
Unwrap(f, p) == IF f.key.pw = p /\ f.key.kdf = f.kdf THEN f.key.mk ELSE NoKey

\* encrypt_master_key: always with scrypt.  kdf_type is left to the caller.
Rewrap(f, p, k) == [f EXCEPT !.key = Wrap(k, p, "scrypt")]

\* cryptfs_init_crypt_mnt_ftr, and what cryptfs_enable adds.
NewFooter(p, k) == [magic |-> TRUE, inProgress |-> TRUE, minor |-> CurrentMinor, kdf |-> "scrypt",
                    key |-> Wrap(k, p, "scrypt"), fails |-> 0]

\* get_crypt_ftr_and_key: an old footer is upgraded on the way, in memory and,
\* if the write goes through, in place.
Readable == footer.magic
Get ==
  \/ footer' = Upgrade(footer)
  \/ MayFail("put") /\ footer' = footer
GetFails == ~Readable \/ MayFail("get")

\* put_crypt_ftr_and_key: ok, or an error.  Of a key file the error may be the
\* ftruncate after the write.  A file that was not there before then has not
\* the size that makes it readable.
Put(f, ok) ==
  footer' \in IF ok THEN {f} ELSE IF KeyInFooter \/ ~Readable THEN {footer} ELSE {footer, f}

-----------------------------------------------------------------------------
(* Commands, and the device booting.                                        *)

Idle == pc = "idle"

Goto(l) == pc' = l

Return(code) ==
  /\ pc' = "idle" /\ rc' = code
  /\ how' = "none" /\ pw' = NoPassword /\ mine' = Blank /\ part' = 0

\* init and fs_mgr: /data is mounted if it can be; if not, the device counts as
\* encrypted, /data is a tmpfs and the framework waits for the password.
Boot ==
  /\ encrypted' = (content[0] # Clear)
  /\ data' = IF content[0] = Clear THEN "fs" ELSE "tmpfs"
  /\ framework' = IF content[0] = Clear THEN "up" ELSE "min"
  /\ saved' = NoKey /\ dm' = [q \in Part |-> NoMap] /\ mounted' = {}
  /\ prompted' = FALSE /\ restarted' = FALSE
  /\ progress' = "none" /\ wakelock' = FALSE /\ persist' = "none"
  /\ Return(0)

Init ==
  /\ \E device \in Devices, p \in Passwords :
       /\ content = [q \in Part |-> IF device = "clear" THEN Clear ELSE 1]
       /\ footer = IF device = "clear" THEN Blank ELSE Legacy(p)
       /\ drawn = IF device = "clear" THEN 0 ELSE 1
       /\ encrypted = (device = "legacy")
       /\ data = IF device = "clear" THEN "fs" ELSE "tmpfs"
       /\ framework = IF device = "clear" THEN "up" ELSE "min"
  /\ disk = footer
  /\ saved = NoKey /\ dm = [q \in Part |-> NoMap] /\ mounted = {}
  /\ prompted = FALSE /\ restarted = FALSE
  /\ progress = "none" /\ wakelock = FALSE /\ persist = "none"
  /\ pc = "idle" /\ how = "none" /\ pw = NoPassword /\ mine = Blank /\ part = 0 /\ rc = 0

\* The kernel writes the dirty page of the footer.
WriteBack ==
  /\ disk # footer
  /\ disk' = footer
  /\ UNCHANGED <<content, footer, drawn, bootVars, otherVars, cmdVars>>

\* The power fails, and the device boots again.
PowerLoss ==
  /\ footer' = disk
  /\ Boot
  /\ UNCHANGED <<content, disk, drawn>>

-----------------------------------------------------------------------------
(* cryptfs_enable.                                                          *)

\* Mutated: the wakelock is kept.
NotEncryptedAwake ==
  /\ progress' = "not_encrypted" /\ UNCHANGED wakelock
  /\ Return(-1)

\* error_unencrypted
NotEncrypted ==
  /\ progress' = "not_encrypted" /\ wakelock' = FALSE
  /\ Return(-1)

\* The checks before the wakelock; a return from them does not give back one
\* that an earlier command has kept.  Neither what an earlier encryption of this
\* boot has done nor its outcome is asked for.  The bound is on the keys drawn.
EnableStart(h, p) ==
  /\ Idle
  /\ \/ /\ encrypted \/ MayFail("size")
        /\ progress' = "not_encrypted"
        /\ Return(-1) /\ UNCHANGED wakelock
     \/ /\ ~encrypted /\ drawn < MaxKeys
        /\ Goto("disable") /\ wakelock' = TRUE
        /\ how' = h /\ pw' = p /\ part' = 1
        /\ UNCHANGED <<progress, mine, rc>>
  /\ UNCHANGED <<diskVars, bootVars, persist>>

\* vold_disableVol of one volume after the other.
EnableDisable ==
  /\ pc = "disable" /\ part \in 1..NumVolumes
  /\ mounted' = mounted \ {part}
  /\ part' = part + 1
  /\ UNCHANGED <<diskVars, encrypted, saved, dm, data, framework, prompted, restarted, otherVars,
                 pc, how, pw, mine, rc>>

\* Mutated: a volume that cannot be unmounted is passed over.
EnableDisablePasses ==
  /\ pc = "disable" /\ part \in mounted
  /\ MayFail("unmount")
  /\ part' = part + 1
  /\ UNCHANGED <<diskVars, bootVars, otherVars, pc, how, pw, mine, rc>>

EnableDisableFails ==
  /\ pc = "disable" /\ part \in 1..NumVolumes
  /\ MayFail("size") \/ (MayFail("unmount") /\ part \in mounted)
  /\ NotEncrypted
  /\ UNCHANGED <<diskVars, bootVars, persist>>

\* trigger_shutdown_framework, then /data is unmounted, which it may be already.
EnableShutdown ==
  /\ pc = "disable" /\ part = NumVolumes + 1
  /\ framework' = "down"
  /\ \E ok \in IF data = "none" THEN {TRUE} ELSE Outcomes("unmount") :
       /\ data' = IF ok THEN "none" ELSE data
       /\ Goto(IF ~ok THEN "error_shutting_down" ELSE IF how = "inplace" THEN "tmpfs" ELSE "key")
  /\ UNCHANGED <<diskVars, encrypted, saved, dm, mounted, prompted, restarted, otherVars,
                 how, pw, mine, part, rc>>

\* A framework on a tmpfs shows the progress of an in-place encryption.
EnableMinFramework ==
  /\ pc = "tmpfs"
  /\ \E mounts \in Outcomes("mount"), ok \in Outcomes("prep") :
       /\ data' = IF mounts THEN "tmpfs" ELSE data
       /\ progress' = IF mounts THEN "running" ELSE progress
       /\ framework' = IF mounts /\ ok THEN "min" ELSE framework
       /\ Goto(IF mounts /\ ok THEN "key" ELSE "error_shutting_down")
  /\ UNCHANGED <<diskVars, encrypted, saved, dm, mounted, prompted, restarted, wakelock, persist,
                 how, pw, mine, part, rc>>

\* create_encrypted_random_key and the footer, marked as in progress.  Whether
\* it is written is not looked at.  save_persistent_data refuses every footer
\* of this version.
EnableMakeKey ==
  /\ pc = "key"
  /\ drawn' = drawn + 1
  /\ mine' = NewFooter(pw, drawn + 1)
  /\ \E ok \in Outcomes("put") : Put(NewFooter(pw, drawn + 1), ok)
  /\ persist' = "loaded"
  /\ Goto("map")
  /\ UNCHANGED <<content, disk, bootVars, progress, wakelock, how, pw, part, rc>>

EnableKeyFails ==
  /\ pc = "key" /\ MayFail("key")
  /\ NotEncrypted
  /\ UNCHANGED <<diskVars, bootVars, persist>>

\* The device mapper devices.  One that could not be made shows when it is
\* opened or written.  Where one is left of an earlier encryption none is made,
\* and what is written is what the name on the stack happens to say: the old
\* one, or nothing at all.
EnableMap ==
  /\ pc = "map"
  /\ \E failed \in IF MayFail("dm") THEN SUBSET Part ELSE {{}} :
       dm' = [q \in Part |-> IF dm[q] # NoMap THEN dm[q]
                             ELSE IF q \in failed THEN NoTable ELSE Unwrap(mine, pw)]
  /\ Goto("convert") /\ part' = 0
  /\ UNCHANGED <<diskVars, encrypted, saved, data, mounted, framework, prompted, restarted,
                 otherVars, how, pw, mine, rc>>

\* Mutated: the result for a volume is dropped.
AfterUserdata(result) ==
  /\ rc' = IF part = 0 THEN result ELSE rc
  /\ IF part = NumVolumes \/ (part = 0 /\ result # 0) THEN Goto("unmap") /\ UNCHANGED part
     ELSE Goto("convert") /\ part' = part + 1

\* Where the loop over the partitions goes with the result of one: a failure
\* on userdata ends it, that of a volume lasts until the next volume.
After(result) ==
  /\ rc' = result
  /\ IF part = NumVolumes \/ (part = 0 /\ result # 0) THEN Goto("unmap") /\ UNCHANGED part
     ELSE Goto("convert") /\ part' = part + 1

\* cryptfs_enable_wipe or cryptfs_enable_inplace starts to write a partition, or
\* cannot open it.
EnableConvert ==
  /\ pc = "convert"
  /\ \/ /\ dm[part] > 0
        /\ content' = [content EXCEPT ![part] = -dm[part]]
        /\ Goto("converting") /\ UNCHANGED <<part, rc>>
     \/ /\ dm[part] <= 0 \/ MayFail("io")
        /\ After(-1) /\ UNCHANGED content
  /\ UNCHANGED <<footer, disk, drawn, bootVars, otherVars, how, pw, mine>>

\* It has written all of it, or gives up at an error.
EnableConverted ==
  /\ pc = "converting"
  /\ \/ content' = [content EXCEPT ![part] = dm[part]] /\ After(0)
     \/ MayFail("io") /\ After(-1) /\ UNCHANGED content
  /\ UNCHANGED <<footer, disk, drawn, bootVars, otherVars, how, pw, mine>>

\* The devices are removed whether it succeeded or not.
DeleteDevices ==
  \E left \in IF MayFail("dmremove") THEN SUBSET Part ELSE {{}} :
    dm' = [q \in Part |-> IF q \in left THEN dm[q] ELSE NoMap]

EnableUnmap ==
  /\ pc = "unmap" /\ rc = 0
  /\ DeleteDevices
  /\ progress' = IF how = "inplace" THEN "done" ELSE progress
  /\ Goto("finish")
  /\ UNCHANGED <<diskVars, encrypted, saved, data, mounted, framework, prompted, restarted, persist,
                 wakelock, how, pw, mine, part, rc>>

\* Reboot into recovery to wipe the data, or have the UI offer that.
EnableWipesData ==
  /\ pc = "unmap" /\ rc # 0 /\ TRUE \in WipeOnFail
  /\ DeleteDevices
  /\ Goto("recovery")
  /\ UNCHANGED <<diskVars, encrypted, saved, data, mounted, framework, prompted, restarted,
                 otherVars, how, pw, mine, part, rc>>

EnableFails ==
  /\ pc = "unmap" /\ rc # 0 /\ FALSE \in WipeOnFail
  /\ DeleteDevices
  /\ progress' = "partially_encrypted" /\ wakelock' = FALSE
  /\ Return(-1)
  /\ UNCHANGED <<diskVars, encrypted, saved, data, mounted, framework, prompted, restarted, persist>>

\* "Clear the encryption in progres flag in the footer".
EnableFinish ==
  /\ pc = "finish"
  /\ mine' = [mine EXCEPT !.inProgress = FALSE]
  /\ \E ok \in Outcomes("put") : Put([mine EXCEPT !.inProgress = FALSE], ok)
  /\ Goto("reboot")
  /\ UNCHANGED <<content, disk, drawn, bootVars, otherVars, how, pw, part, rc>>

\* cryptfs_reboot(0): init writes everything back and the device boots.
Reboot ==
  /\ pc \in {"reboot", "error_shutting_down"}
  /\ disk' = footer
  /\ Boot
  /\ UNCHANGED <<content, footer, drawn>>

\* cryptfs_reboot(1) returns: the wakelock stays, and no error is shown.  What
\* recovery does with the data is not part of this module.
RecoveryFails ==
  /\ pc = "recovery" /\ MayFail("reboot")
  /\ Return(-1)
  /\ UNCHANGED <<diskVars, bootVars, otherVars>>

\* "the encrypt step claims success, but the reboot failed"
RebootFails ==
  /\ pc \in {"reboot", "error_shutting_down"} /\ MayFail("reboot")
  /\ progress' = IF pc = "reboot" THEN "reboot_failed" ELSE "shutting_down"
  /\ wakelock' = FALSE
  /\ Return(IF pc = "reboot" THEN rc ELSE -1)
  /\ UNCHANGED <<diskVars, bootVars, persist>>

-----------------------------------------------------------------------------
(* The password.                                                            *)

\* Mutated: the in-progress flag is not looked at.
CompleteCodeOfAny(readable) ==
  IF ~encrypted THEN 1
  ELSE IF readable THEN 0
  ELSE IF KeyInFooter THEN -1 ELSE 1

\* cryptfs_crypto_complete.  access("key_loc") asks for a file of that very
\* name, so that a missing file and an unreadable one look alike.
CompleteCode(readable) ==
  IF ~encrypted THEN 1
  ELSE IF ~readable THEN IF KeyInFooter THEN -1 ELSE 1
  ELSE IF footer.inProgress THEN -2 ELSE 0

\* The UI asks for the password if the answer is 0.
CryptoComplete ==
  /\ Idle
  /\ \E readable \in {Readable} \cup {r \in {FALSE} : MayFail("get")} :
       /\ IF encrypted /\ readable THEN Get ELSE UNCHANGED footer
       /\ prompted' = (CompleteCode(readable) = 0)
       /\ Return(CompleteCode(readable))
  /\ UNCHANGED <<content, disk, drawn, encrypted, saved, dm, data, mounted, framework, restarted,
                 otherVars>>

\* test_mount_encrypted_fs up to the device: create_crypto_blk_dev may fail
\* before there is a device, or leave one without a table.
CheckPasswd(p) ==
  /\ Idle /\ prompted /\ footer.fails < MaxFailed
  /\ \/ /\ saved # NoKey \/ ~encrypted \/ GetFails
        /\ Return(-1) /\ UNCHANGED <<footer, dm>>
     \/ /\ saved = NoKey /\ encrypted /\ Readable /\ Get
        /\ \/ (dm[0] # NoMap \/ MayFail("dm")) /\ UNCHANGED dm
           \/ dm[0] = NoMap /\ MayFail("table") /\ dm' = [dm EXCEPT ![0] = NoTable]
        /\ Return(-1)
     \/ /\ saved = NoKey /\ encrypted /\ Readable /\ Get
        /\ dm[0] = NoMap
        /\ dm' = [dm EXCEPT ![0] = Unwrap(Upgrade(footer), p)]
        /\ mine' = Upgrade(footer) /\ pw' = p
        /\ Goto("check") /\ UNCHANGED <<how, part, rc>>
  /\ UNCHANGED <<content, disk, drawn, encrypted, saved, data, mounted, framework, prompted,
                 restarted, otherVars>>

\* The failed_decrypt_count is written only when it changes.
PutCount(n) ==
  IF mine.fails = n THEN UNCHANGED footer
  ELSE \E ok \in Outcomes("put") : Put([mine EXCEPT !.fails = n], ok)

\* The test mount succeeds.  On a partition that is partly encrypted it may,
\* too: the superblock is among the first blocks.
CheckMounts ==
  /\ pc = "check"
  /\ dm[0] > 0 /\ content[0] \in {dm[0], -dm[0]}
  /\ PutCount(0)
  /\ saved' = dm[0]
  /\ IF mine.kdf = "scrypt" THEN Return(0)
     ELSE Goto("rewrap") /\ mine' = [mine EXCEPT !.fails = 0] /\ UNCHANGED <<how, pw, part, rc>>
  /\ UNCHANGED <<content, disk, drawn, encrypted, dm, data, mounted, framework, prompted,
                 restarted, otherVars>>

\* Mutated: the device stays when the test mount fails.
CheckMountFailsMapped ==
  /\ pc = "check"
  /\ content[0] # dm[0]
  /\ PutCount(mine.fails + 1)
  /\ Return(mine.fails + 1)
  /\ UNCHANGED <<content, disk, drawn, bootVars, otherVars>>

CheckMountFails ==
  /\ pc = "check"
  /\ content[0] # dm[0] \/ MayFail("mount")
  /\ PutCount(mine.fails + 1)
  /\ \E ok \in Outcomes("dmremove") : dm' = IF ok THEN [dm EXCEPT ![0] = NoMap] ELSE dm
  /\ Return(mine.fails + 1)
  /\ UNCHANGED <<content, disk, drawn, encrypted, saved, data, mounted, framework, prompted,
                 restarted, otherVars>>

\* Mutated: kdf_type is left as it was.
CheckRewrapOldKdf ==
  /\ pc = "rewrap"
  /\ Put(Rewrap(mine, pw, saved), TRUE) /\ Return(0)
  /\ UNCHANGED <<content, disk, drawn, bootVars, otherVars>>

\* "Upgrade if we're not using the latest KDF."
CheckRewrap ==
  /\ pc = "rewrap"
  /\ \/ /\ Put([Rewrap(mine, pw, saved) EXCEPT !.kdf = "scrypt"], TRUE)
        /\ Return(0)
     \/ /\ \/ MayFail("rewrap") /\ UNCHANGED footer
           \/ MayFail("put") /\ Put([Rewrap(mine, pw, saved) EXCEPT !.kdf = "scrypt"], FALSE)
        /\ Return(-1)
  /\ UNCHANGED <<content, disk, drawn, bootVars, otherVars>>

\* cryptfs_verify_passwd
VerifyPasswd(p) ==
  /\ Idle
  /\ \/ /\ ~encrypted \/ saved = NoKey \/ GetFails
        /\ Return(IF ~encrypted THEN -2 ELSE -1) /\ UNCHANGED footer
     \/ /\ encrypted /\ saved # NoKey /\ Readable /\ Get
        /\ Return(IF Unwrap(Upgrade(footer), p) = saved THEN 0 ELSE 1)
  /\ UNCHANGED <<content, disk, drawn, bootVars, otherVars>>

\* Mutated: master_key_saved is not looked at.
ChangePwLocked(p) ==
  /\ Idle
  /\ Readable /\ Put(Rewrap(Upgrade(footer), p, saved), TRUE) /\ Return(0)
  /\ UNCHANGED <<content, disk, drawn, bootVars, otherVars>>

\* cryptfs_changepw: neither the wrapping nor the write is looked at.
ChangePw(p) ==
  /\ Idle
  /\ \/ /\ saved = NoKey \/ GetFails
        /\ Return(-1) /\ UNCHANGED footer
     \/ /\ saved # NoKey /\ Readable
        /\ \/ Put(Rewrap(Upgrade(footer), p, saved), TRUE)
           \/ MayFail("rewrap") /\ Put(Upgrade(footer), TRUE)
           \/ MayFail("put") /\ Put(Rewrap(Upgrade(footer), p, saved), FALSE)
        /\ Return(0)
  /\ UNCHANGED <<content, disk, drawn, bootVars, otherVars>>

\* Mutated: the framework is restarted without the key.
RestartStopLocked ==
  /\ Idle
  /\ IF restarted THEN Return(-1) /\ UNCHANGED framework
     ELSE Goto("restart") /\ framework' = "down" /\ UNCHANGED <<how, pw, mine, part, rc>>
  /\ UNCHANGED <<diskVars, encrypted, saved, dm, data, mounted, prompted, restarted, otherVars>>

\* cryptfs_restart: trigger_reset_main stops the framework.
RestartStop ==
  /\ Idle
  /\ IF saved = NoKey \/ restarted THEN Return(-1) /\ UNCHANGED framework
     ELSE Goto("restart") /\ framework' = "down" /\ UNCHANGED <<how, pw, mine, part, rc>>
  /\ UNCHANGED <<diskVars, encrypted, saved, dm, data, mounted, prompted, restarted, otherVars>>

RestartUnmountFails ==
  /\ pc = "restart" /\ MayFail("unmount") /\ data # "none"
  /\ Return(-1)
  /\ UNCHANGED <<diskVars, bootVars, otherVars>>

\* The tmpfs is unmounted, and userdata mounted; whether it is, is not looked at.
RestartMount ==
  /\ pc = "restart"
  /\ \E ok \in Outcomes("mount") : data' = IF ok THEN "crypt" ELSE "none"
  /\ \E ok \in Outcomes("prep") :
       /\ framework' = IF ok THEN "up" ELSE framework
       /\ restarted' = IF ok THEN TRUE ELSE restarted
       /\ Return(IF ok THEN 0 ELSE -1)
  /\ UNCHANGED <<diskVars, encrypted, saved, dm, mounted, prompted, otherVars>>

-----------------------------------------------------------------------------
(* Volumes and fields.                                                      *)

\* cryptfs_setup_volume, when the volume is mounted for the first time: a
\* device with the saved key.  Neither the footer, whose cipher and key size
\* the table has, nor the device is asked for.
SetupVolume(v) ==
  IF encrypted /\ dm[v] = NoMap
  THEN \/ MayFail("size") /\ UNCHANGED dm
       \/ dm' = [dm EXCEPT ![v] = saved]
       \/ (MayFail("dm") \/ GetFails) /\ dm' = [dm EXCEPT ![v] = NoTable]
  ELSE UNCHANGED dm

\* Volume::mountVol, when a framework that is up asks for it.
MountVolume(v) ==
  /\ Idle /\ framework = "up" /\ v \notin mounted
  /\ SetupVolume(v)
  /\ IF dm' # dm /\ Readable THEN Get ELSE UNCHANGED footer
  /\ mounted' = IF \/ content[v] = Clear /\ ~encrypted
                   \/ content[v] > 0 /\ dm'[v] = content[v]
                THEN mounted \cup {v} ELSE mounted
  /\ UNCHANGED <<content, disk, drawn, encrypted, saved, data, framework, prompted, restarted, otherVars,
                 cmdVars>>

\* Volume::unmountVol; "revert" takes the device away for a factory reset.
UnmountVolume(v, revert) ==
  /\ Idle /\ v \in mounted
  /\ mounted' = mounted \ {v}
  /\ dm' = IF revert THEN [dm EXCEPT ![v] = NoMap] ELSE dm
  /\ UNCHANGED <<diskVars, encrypted, saved, data, framework, prompted, restarted, otherVars,
                 cmdVars>>

SupportsFields(f) == f.minor = PersistMinor

\* load_persistent_data: an empty table on a device that is not encrypted.
LoadTable ==
  \/ /\ persist = "loaded" \/ (encrypted /\ GetFails)
     /\ UNCHANGED <<persist, footer>>
  \/ /\ persist = "none" /\ ~encrypted
     /\ persist' = "loaded" /\ UNCHANGED footer
  \/ /\ persist = "none" /\ encrypted /\ Readable /\ Get
     /\ persist' = IF SupportsFields(Upgrade(footer)) THEN "loaded" ELSE "none"

\* cryptfs_getfield: -1 if the table has no such field.
GetField ==
  /\ Idle /\ LoadTable
  /\ \E code \in IF persist' = "none" THEN {-2} ELSE {0, -1} : Return(code)
  /\ UNCHANGED <<content, disk, drawn, bootVars, progress, wakelock>>

\* cryptfs_setfield: -1 if the table is full, or cannot be saved.
SetField ==
  /\ Idle /\ LoadTable
  /\ \E code \in IF persist' = "none" \/ (encrypted /\ ~SupportsFields(Upgrade(footer)))
                 THEN {-1} ELSE {0, -1} : Return(code)
  /\ UNCHANGED <<content, disk, drawn, bootVars, progress, wakelock>>

-----------------------------------------------------------------------------

Next ==
  \/ WriteBack
  \/ PowerLoss
  \/ \E h \in {"wipe", "inplace"}, p \in Passwords : EnableStart(h, p)
  \/ EnableDisable
  \/ EnableDisableFails
  \/ EnableShutdown
  \/ EnableMinFramework
  \/ EnableMakeKey
  \/ EnableKeyFails
  \/ EnableMap
  \/ EnableConvert
  \/ EnableConverted
  \/ EnableUnmap
  \/ EnableWipesData
  \/ RecoveryFails
  \/ EnableFails
  \/ EnableFinish
  \/ Reboot
  \/ RebootFails
  \/ CryptoComplete
  \/ \E p \in Passwords : CheckPasswd(p)
  \/ CheckMounts
  \/ CheckMountFails
  \/ CheckRewrap
  \/ \E p \in Passwords : VerifyPasswd(p)
  \/ \E p \in Passwords : ChangePw(p)
  \/ RestartStop
  \/ RestartUnmountFails
  \/ RestartMount
  \/ \E v \in 1..NumVolumes : MountVolume(v)
  \/ \E v \in 1..NumVolumes, revert \in BOOLEAN : UnmountVolume(v, revert)
  \/ GetField
  \/ SetField

Spec == Init /\ [][Next]_vars

-----------------------------------------------------------------------------
(* Properties.                                                              *)

TypeOK ==
  /\ content \in [Part -> (-MaxKeys)..MaxKeys]
  /\ footer \in Footer /\ disk \in Footer /\ mine \in Footer
  /\ drawn \in 0..MaxKeys
  /\ encrypted \in BOOLEAN /\ prompted \in BOOLEAN /\ restarted \in BOOLEAN
  /\ wakelock \in BOOLEAN
  /\ saved \in Key \cup {NoKey}
  /\ dm \in [Part -> {NoTable, NoMap, NoKey} \cup Key]
  /\ data \in {"fs", "tmpfs", "none", "crypt"}
  /\ mounted \subseteq 1..NumVolumes
  /\ framework \in {"up", "min", "down"}
  /\ progress \in {"none", "running", "done", "not_encrypted", "partially_encrypted",
                   "shutting_down", "reboot_failed"}
  /\ persist \in {"none", "loaded"}
  /\ pc \in {"idle", "disable", "tmpfs", "key", "map", "convert", "converting", "unmap", "finish",
             "reboot", "error_shutting_down", "recovery", "check", "rewrap", "restart"}
  /\ how \in {"none", "wipe", "inplace"}
  /\ pw \in Passwords \cup {NoPassword}
  /\ part \in 0..(NumVolumes + 1)
  /\ rc \in Int

Complete(f) == f.magic /\ ~f.inProgress
KeyOf(f) == IF f.key.pw \in Passwords THEN Unwrap(Upgrade(f), f.key.pw) ELSE NoKey
Opens(f) == content[0] > 0 /\ KeyOf(f) = content[0]

(* A footer without the in-progress flag, as it is and as a power failure   *)
(* would leave it, opens a key under some password, the one userdata is     *)
(* entirely encrypted with: through upgrades of the footer and of the key   *)
(* derivation, changes of the password and power failures between any two   *)
(* writes.  The exception is a later enablecrypto of the same boot, after   *)
(* error_reboot_failed: it draws a newer key and overwrites the data.       *)
Overwritten(k) == content[0] > k \/ content[0] < -k
KeyKept ==
  \A f \in {footer, disk} :
    Complete(f) => KeyOf(f) # NoKey /\ (Opens(f) \/ Overwritten(KeyOf(f)))

(* The flag is cleared only when the last volume is encrypted, with the     *)
(* same key.  Of a volume in between this is not so.                        *)
LastVolumeDone ==
  \A f \in {footer, disk} :
    Complete(f) /\ Opens(f) /\ NumVolumes > 0 => content[NumVolumes] = content[0]

(* checkpw accepts only the key of data that is encrypted to the end.       *)
SavedKeyIsRight == saved # NoKey => saved = content[0]

(* While a partition is overwritten nothing has it mounted.                 *)
NotMountedWhileConverting ==
  pc \in {"convert", "converting"} => data # "fs" /\ mounted = {}

(* The device of a volume has the key userdata was unlocked with.           *)
VolumeHasKey == \A v \in 1..NumVolumes : dm[v] >= NoKey /\ Idle => dm[v] = saved /\ saved # NoKey

(* The wakelock is held from the first change to the last.  Between         *)
(* commands it is held only if an encryption failed half-way and the        *)
(* reboot into recovery failed as well.                                     *)
AwakeWhileEncrypting ==
  /\ Idle /\ wakelock => footer.inProgress /\ TRUE \in WipeOnFail /\ MayFail("reboot")
  /\ pc \in {"convert", "converting", "unmap", "finish"} => wakelock

(* A wrong password leaves the way free for the right one.                  *)
RetryPossible == Idle /\ encrypted /\ saved = NoKey => dm[0] = NoMap

(* Fields "can be retrieved by the CryptKeeper UI to properly configure the *)
(* phone before asking for the password", "only valid if the major and      *)
(* minor version above is set to 1.1 or higher" (cryptfs.h): getfield does  *)
(* not fail on an encrypted device whose footer is readable.                *)
FieldsBeforeDecryption ==
  [][GetField /\ encrypted /\ Readable /\ footer.minor >= PersistMinor => rc' # -2]_vars

\* The password that opens userdata with footer f.
Accepts(f) == IF Complete(f) /\ Opens(f) THEN f.key.pw ELSE NoPassword

(* What the owner may rely on (DiskEncryption).                             *)
Promise == INSTANCE DiskEncryption WITH
             clear <- (content[0] = Clear),
             booted <- encrypted,
             accepted <- Accepts(footer),
             durable <- Accepts(disk),
             unlocked <- (saved # NoKey)
KeepsPromise == Promise!Spec
=============================================================================
