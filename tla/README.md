# A verification project for vold (tcc897x)

`vold` is Android's volume daemon, here in the version Telechips ships for an
automotive platform. It follows the kernel's block uevents, mounts, unmounts,
formats and shares removable media for the framework, keeps applications' ASEC
and OBB containers, and encrypts the user data partition. The code modelled is
the one the platform builds: `FUNCTION_STORAGE_FOR_AUTOMOTIVE`,
`PATCH_STORAGE_REMOVE_PREPARED_STAGE` and the other `NATIVE_PLATFORM` branches
are taken as defined.

## 1. Inventory

### Threads

| Thread | Source | What it does |
|---|---|---|
| command (`cmd`) | `CommandListener.cpp` over `FrameworkListener` | runs one framework command at a time to its end, sleeps and retries included |
| netlink (`net`) | `NetlinkHandler.cpp` | takes block uevents one at a time, in order, and runs the handlers of every volume |
| main | `main.cpp` | `process_config`, then `coldboot`, which makes the kernel repeat the `add` uevents of everything present; then sleeps |
| fstrim workers | `fstrim.c` | one detached thread per `fstrim` command |

`Volume::mLock` is the only lock of a volume. `mountVol` and `unmountVol` hold
it from beginning to end; `setRemoveState` holds it for the assignment of
`mRemoving`. No other reader or writer of a volume takes it: `formatVol`,
`shareVolume`, `unshareVolume` and all of the uevent handlers read and write
`mState` bare.

### Components

| Component | State | Operations | Interacts with |
|---|---|---|---|
| `Volume`, `DirectVolume` | `mState`, `mRetryMount`, `mRemoving`, disk and partition minors, `mPendingPartMap`, `mPartIdx`, `mCurrentlyMountedKdev` | `mountVol`, `unmountVol`, `formatVol`, `handleBlockEvent` and its handlers | called by `VolumeManager`; calls back into it (`unshareVolume`, `cleanupAsec`); mount(2), fsck, the `fuse_*` service |
| `VolumeManager`, volumes | `mUmsSharingCount`, `mSavedDirtyRatio`, `mVolManagerDisabled`, the list of volumes | `mountVolume`, `unmountVolume`, `formatVolume`, `shareVolume`, `unshareVolume`, dispatch of uevents | the volumes; `/proc/sys/vm/dirty_ratio`; the mass storage lun |
| `VolumeManager`, containers | `mActiveContainers` | create, finalize, fix permissions, rename, mount, unmount, destroy ASECs; mount, unmount OBBs; `unmountAllAsecsInDir`, `cleanupAsec` | `Loop`, `Devmapper`, the secure area of the volume |
| `Loop`, `Devmapper` | loop devices with an id in `lo_crypt_name`; dm devices by name | `lookupActive`, `create`, `destroyByDevice` | the kernel |
| `cryptfs.c` | footer (version, flags, failed count, wrapped master key), persistent fields, `saved_master_key`, `master_key_saved`; dm-crypt devices | `cryptfs_enable`, `crypto_complete`, `check_passwd`, `verify_passwd`, `changepw`, `restart`, `setup_volume`, `revert_volume`, get/set field | block devices, properties, the framework, the volumes, `init` at boot |
| `Process.cpp` | - | find and kill the processes that hold a mountpoint | `/proc` |
| `NetworkVolume` | `mState` | its own mount and unmount, without partitions | mount(2) |
| `fstrim.c` | wake lock | trim every file system of fstab | the kernel |
| `main.cpp`, Netlink, CommandListener | - | start, parse, answer | sockets |
| file system wrappers | - | fsck, mkfs, mount | programs, mount(2) |

### What makes each hard, and what makes it correct

* **Volume life cycle.** Two threads run over one state machine with a lock over
  half of it; a mount takes seconds (fsck) and a disk may be pulled out, changed
  or announced again in the meantime. Correct: mounts, unmounts and removals do
  not overlap; nothing is mounted while a removal is handled; a removed disk ends up
  unmounted and the volume in `NoMedia`; `Mounted` means that
  `mCurrentlyMountedKdev` is mounted; partitions are counted once; events and
  commands get to their end.
* **Mass storage sharing.** `mUmsSharingCount` and the dirty ratio are shared by
  the volumes and both threads. Correct: what is shared is not mounted; the
  count is the number of shared volumes; the ratio is restored with the last.
* **Containers.** Each operation builds image, loop, dm, mount and takes them down in
  reverse, and may fail at each; identities are files, hashes and device names that
  must agree. Correct: an error leaves nothing behind; what is in `mActiveContainers`
  is what is mounted.
* **Encryption.** A power loss at any point, a footer written without fsync, and a
  dozen calls in a row that may fail. Correct: the footer tells a half encrypted
  disk from a plain or encrypted one; an encrypted device always has a password
  that opens it once it has booted with one, and only the owner changes which; what is
  overwritten is not mounted; an error that says nothing was encrypted is true (in this
  code, if failed encryptions are wiped and no reboot fails).

`PROJECT.json` lists each hazard at its line, with the properties that cover it
or the reason why none does yet.

## 2. What is modelled

### `DirectVolume.tla`

One volume with both threads, the `VolumeManager` commands on it, and as much of
the kernel as the handlers can see.

*State.* The variables that begin with `m` are the fields of `Volume`, `DirectVolume` and
`VolumeManager` of that name. Device numbers are minors of one major, -1 is none.
`mPendingPartMap` is the counter the automotive build makes of the bit map.
`mounts` is the stack of file systems on the volume's mountpoint, each by the minor
of its device: a stack, because mount(2) puts a second one over the first
and `umount2` takes off the topmost. `fuse` and `asec` are the service and the
bind mounts of the secure area that go with a mount. `plugged`, `kernelParts`
and `filesystems` are the disk the kernel has; `uevents` is the netlink socket's queue.
`pc`, `tries`, `nodes` and `evt` are the local state of the running calls.

*Steps.* A step is what a thread does between two points at which it may be held up:
`mLock`, a call that mounts, unmounts, reads, formats or checks a device, a write
to the lun. Between these points the code only reads and writes memory. Reads and
writes of `mState` on either side of such a point are therefore separate steps, which
is where its races are.

| Code | Actions |
|---|---|
| `VolumeManager::mountVolume`, `Volume::mountVol`, `mountVol_l`, `mountPartition`, `mountAsecExternal` | `StartMount`, `MountRefused`, `MountBegin`, `MountClearsStale`, `MountTryFails`, `MountTryMounts`, `MountAsecFails`, `MountFinish` |
| `unmountVolume`, `Volume::unmountVol`, `unmountVol_l`, `doUnmount` | `StartUnmount`, `UnmountRefused`, `UnmountBegin`, `UnmountSucceeds`, `UnmountFails` |
| `formatVolume`, `Volume::formatVol` | `StartFormat`, `FormatChecksMounts`, `FormatEnds` |
| `shareVolume`, `unshareVolume` | `StartShare`, `ShareWritesLun`, `StartUnshare`, `UnshareWritesLun` |
| `handleBlockEvent` | `EventIgnored`, `NotifyInserted`, the guards `Reading` and `Filtered` |
| `handleDiskAdded`, `handlePartitionAdded`, `initMountpoint` | `DiskAdded`, `PartitionAdded`, `InitMountpoint` |
| `handleDiskChanged` | `DiskChanged` |
| `handleDiskRemoved`, `handlePartitionRemoved`, `UnmountUnshare`, `setRemoveState` | `DiskRemoved`, `PartitionRemoved`, `RemoveBegin`, `RemoveChecksShare`, `UnmountUnshare`, `RemoveEnd`, `RemoveUnlock` |
| the kernel (external), `main.cpp` `coldboot` | `PlugDisk`, `UnplugDisk`, `RepartitionDisk`, `MediaChange`, `Coldboot`, `PlugDuringColdboot` |

`coldboot` runs once. It may find the disk announced long before (`Coldboot`) or run while
the kernel announces it (`PlugDuringColdboot`): then the two sendings of the same
events come merged, each in its own order.

What the kernel may do is chosen per instance (`KernelChanges`): unplug a disk, change its
partitions or its medium. With `"swap"` another disk may come before the last one's removal is
handled; without it the net thread has caught up first.

*Choices the model leaves open.* Whether a file system check or an `initMountpoint` finds
a file system, a size or a volume id; whether a lun can be written; whether an
unmount keeps failing (`UnmountMayFail`); which device a format writes to.

*What it does not have.* Encrypted volumes (`updateDeviceInfo`,
`revertDeviceInfo`), the mounts of sub-partitions next to the primary one (only their
effect on `mState`), the containers that `cleanupAsec` unmounts before a removal,
several volumes, and the wording of broadcasts.

Some definitions stand just before another one they resemble (`LockFreeIgnored`
before `LockFree`, say): each is the same operation with one plausible mistake. No
action uses it; substituted for the real one it must break a property, which
`PROJECT.json` names.

### `MCDirectVolume.tla` and its runs

Minors 0 and 4 with a span of 3 stand for `sda` and `sdb` with their 15
partitions: an unplugged disk may come back under the same name or another.
`MountTries` is 2 instead of 60 (a first attempt and a retry), `MaxStack` is 2 (a stack of two
is what the code can leave by mounting over a mount), `MaxKernelSteps` is 3, enough
for plug, unplug or change, plug again; `hotplug` has 6, since a bound of 3 hides what a
second disk meets (see below). `CHECK_DEADLOCK FALSE` in all of them:
when the kernel has used up its steps and the framework asks for nothing
vold is at rest.

| Run | Instance | Question |
|---|---|---|
| `hotplug` | mount; unplug, six kernel steps; 3 partitions, 3 slots, of which the code never fills the last; secure area | Does every disk that goes away end up unmounted? (`RemovedDiskUnmounted`) |
| `coldboot` | mount; unplug, swap, coldboot, repartition, media change; 2 partitions, 3 slots; the secure area and unmounts may fail | Do repeated additions leave the volume with the right partitions (`ReadyWhenAllSeen`), does a volume with no disk say so (`NoDiskNoMedia`), is the one that says `Mounted` mounted (`MountedIsMounted`)? |
| `progress` | mount, unmount, format, share, unshare; unplug, swap, media change; unmounts may fail; fair | What do `mLock` and `mRemoving` guarantee (`OneAtATime`, `RemovalExcludesMount`, `TypeOK`), is every uevent handled, does every command return (`UeventsHandled`, `CommandsReturn`)? |
| `sharemounted` | mount, share; media change | violated: `SharedIsNotMounted` |
| `earlyinserted` | format; unplug, swap | violated: `InsertedWhenComplete` |
| `badremoval` | mount; unplug, swap, coldboot | violated: `MountedRemovalUnmounts` |

*Fairness* (`FairSpec`). Each thread goes on when it can. Strong fairness is
needed for a thread waiting for `mLock`, which is not always free; the code
justifies it because the holder gives the lock up and then sleeps
(`usleep(VOLD_RETRY_MS)`) or waits on its socket before it asks again, so a waiter gets
in. Nothing is assumed of the kernel or the framework: neither has to do anything.

### What the violated runs show

* **`sharemounted`.** `handleDiskChanged` (`DirectVolume.cpp:594`) sets `Idle` on a
  volume that is mounted when the kernel reports a change with `NPARTS=0`. The next
  `shareVolume` asks only for `Idle` and hands the device to the host while it is still mounted
  here, although `VolumeManager.cpp` asks to unmount before sharing.
* **`earlyinserted`.** `formatVol` ends with `setState(Idle)` (`Volume.cpp:459`) whatever
  came in meanwhile. A disk swapped during a format is `Idle` with partitions
  pending, and `handleBlockEvent` announces it as inserted although "Send
  notification iff disk is ready (ie all partitions found)".
* **`badremoval`.** `handlePartitionAdded` tests `mState`, then reads the device in
  `initMountpoint`, then sets `Idle`. A mount that completes in between has its
  `Mounted` overwritten; when the partition is removed `UnmountUnshare` sees `Idle` and
  does not unmount "our mounted partition".

### Where the passing runs stop

Each of these properties holds for the commands and kernel changes of its run and fails
beyond them; the counterexamples are the hazards listed in `PROJECT.json`.

* `RemovedDiskUnmounted` fails as soon as anything is added to the instance of `hotplug`; two
  partitions and four kernel steps show each case:
  - `coldboot`: as in `badremoval`;
  - `swap`: the new disk is mounted while the removal of the old one is still to be handled, and the
    two are confused;
  - `repartition`, `mediachange`: a change with `NPARTS=0` sets `Idle` on the mounted volume, and the
    removal returns early;
  - `unmount`: an unmount that ends after the removal leaves `Idle` without a disk; the next disk is mounted
    before `initMountpoint` ends, which then sets `Idle` over `Mounted`;
  - `share`, `unshare`: a retried mount mounts while the lun is written, `Shared` and then `Idle` cover it up;
  - `format`: it may put a filesystem on the whole of a partitioned disk, which a removal of the disk does not unmount;
    the same with a disk that came so (`HybridDisks`);
  - `UnmountMayFail`: an unmount that fails for good is not tried again.
  With three kernel steps the cases of `swap` and `unmount` do not show: they need a disk that goes
  and another that comes and goes.
* `NoDiskNoMedia` fails with `unmount` or `format`: a command that outlives the removal
  sets `Idle` last.
* `ReadyWhenAllSeen` fails with `unmount`, `format` or `share` in the same way, when all the slots that are there can be asked for (two
  partitions, two slots, four kernel steps): a volume that such a command left `Idle` without a disk goes to `Checking` with the next mount, and
  `handleDiskAdded` does not count the partitions of a disk that comes then. Each of them is initialised at once.
* `MountedIsMounted` fails with `format`: `mRetryMount` left over from a pending disk
  lets `handlePartitionAdded` mount beside `formatVol`.
* `OneAtATime` and `RemovalExcludesMount` are about `mLock` and `mRemoving` only. The second looks at `mState` under the lock, of
  `mountVol_l` before it says `Mounted` (`Volume.cpp:720`) and of `unmountVol_l` (`Volume.cpp:1053`), are in the model, but no
  invariant of the code needs them: what they keep out comes in elsewhere, through a mount that fails and sets `Idle` over `Pending`
  (`Volume.cpp:736`) and an unmount whose `Idle` comes after the `NoMedia` of a removal (`Volume.cpp:1130`).
* After a change of a shared disk the volume is `Idle` and the sharing count and
  dirty ratio stay as they were.

### `AsecContainers.tla`

The containers of `VolumeManager` with `Loop` and `Devmapper`, over a kernel with
`LOOP_MAX` loop devices. A step is one system call that changes something, with the
code around it; "cmd" runs the commands, "net" the `cleanupAsec` of a bad removal.

*State.* `file` is the image of each ASEC in `SEC_ASECDIR_INT` and `SEC_ASECDIR_EXT`, `content` what
the image holds (blank, raw, a filesystem; encrypted or not), `secureArea` whether the
volume's directory is bound to `SEC_ASECDIR_EXT`. `loops`, `dms` and `mounts` are the devices with the
names they were given and the mount table; `held` the filesystems detached with
`MNT_DETACH` while files were open; `mActiveContainers` the list. An id stands for
the name and its hash, which `VolumeManager` uses for devices. An OBB, a file on the volume, is its own image.
`Failing` names the calls that may fail, each wherever it is made.

| Code | Actions |
|---|---|
| `createAsec`, `createImageFile` | `StartCreate`, `CreateImageFails`, `GetLoop`, `GetDm`, `Format`, `MountDevice`, `ListContainer` |
| `mountAsec`, `mountObb` | `StartMount`, `GetLoop`, `ReadSuperblock`, `GetDm`, `MountDevice`, `ListContainer` |
| their error exits | `TakeDownDm`, `TakeDownLoop`, `TakeDownFile` |
| `unmountAsec`, `unmountObb`, `unmountLoopImage` | `StartUnmount`, `UnmountChecks`, `UnmountDetaches`, `UnmountDestroysDm`, `UnmountDestroysLoop`, `UnmountUnlists` |
| `destroyAsec`, `renameAsec` | `StartDestroy`, `DestroyUnlinks`, `Rename` |
| `finalizeAsec`, `fixupAsecPermissions` | `Finalize`, `StartFixup`, `FixupSeals` |
| `cleanupAsec` (`unmountVolume`; `UnmountUnshare`) | `StartUnmountVolume`, `BadRemoval`, `NextContainer`, `LastContainer` |
| `vold_unmountAllAsecs` | `StartUnmountAll` |
| `findAsec`, `isAsecInDirectory`; `isMountpointMounted`; `Loop::lookupActive` | `Stored`, `Found`; `SeemsFree`; `Active` |
| `Loop::destroyByDevice`, `Devmapper::destroy` | `Clear`, `DestroyDm` |
| external | `BindSecureArea`, `DiskPulled`, `CloseFiles` |

*The kernel, as assumed.* `LOOP_CLR_FD` of a device in use waits until it is released (`LazyClear`,
since Linux 3.7); `DM_DEV_CREATE` refuses a name that is taken and `DM_DEV_REMOVE` a
device in use; `MNT_DETACH` always takes the filesystem off the mountpoint, so the
retries and kills of `unmountLoopImage` never run. What is written to a disk that is gone is lost.
The framework creates external containers only while the volume is mounted.

*Runs* (`MCAsecContainers.tla`).

| Run | Instance | Question |
|---|---|---|
| `asec` | two ASECs, two images, one OBB, two loop devices; image, loop, superblock, dm, format, mount and volume unmount may fail; ids and images symmetric | After any sequence of commands and errors: is every device that of a listed container (`NoLeak`), the list what is mounted (`ListedIsMounted`), the mounted image the container's own (`MountsOwnImage`), behind one loop only (`OneLoopPerImage`), are the names free when a container is created (`FreshDevices`), is nothing of an unmounted volume mounted (`CleanedUp`)? |
| `asecrace` | two ASECs, no errors | violated: `ActiveIsConsistent` |
| `aseclost` | two ASECs, lookups on a disk that is gone may fail | violated: `CleanedUp` |

Two ids, two images and two loops are what it takes to confuse one container with another, and to
rename, destroy and create again; a third container runs out of loop devices.

*Where the passing run stops.* `disturbed` records two events that break the properties. A cleanup on
net that overlaps a command (`asecrace`) ends what TLC looks at. A filesystem detached with
files open is followed until they are closed, and only `ListedIsMounted` is required of it: its dm device cannot be removed, is
not removed later either, and keeps the name; its loop device may be found by the next mount and
go away under it. Containers without a filesystem (`"none"`) are left out: `destroyAsec` finds them not
mounted and leaves their devices and list entry. `DM_TABLE_LOAD` and `LOOP_SET_STATUS64` that fail after the device was
made leave the name, or a loop device without one, which refutes `NoLeak`, and `FreshDevices` or `OneLoopPerImage`:
the run has them go through. What still holds when they fail is proved (section 3).

Five more calls can fail in the model and do not in the run, because vold ignores or misreads the error:

| In `Failing` | What the code makes of it | Refuted by it |
|---|---|---|
| `"opendir"` | `isAsecInDirectory` returns -1, which its callers read as true (`VolumeManager.cpp:1059`) | `ListedIsMounted`, `MountsOwnImage`, `FreshDevices`, `CleanedUp` |
| `"mounts"` | `isMountpointMounted` cannot read `/proc/mounts` and says that nothing is mounted (`VolumeManager.cpp:1828`) | all but `NoLeak`, of which TLC found no violation in the time it had |
| `"lookup"` | `Loop::lookupActive` fails, and the loop device is not destroyed (`VolumeManager.cpp:958`) | `NoLeak`, `MountsOwnImage`, `OneLoopPerImage`, `CleanedUp` |
| `"loopclear"` | `Loop::destroyByDevice` fails, its result is ignored | `NoLeak`, `MountsOwnImage`, `OneLoopPerImage`, `CleanedUp` |
| `"dmremove"` | `Devmapper::destroy` fails on a device that is not in use, its result is ignored | all but `ListedIsMounted` |

* **`asecrace`.** A command and the net thread's `cleanupAsec` unmount the same container:
  `umount2` fails with `EINVAL` for the second, which counts as success, and the second
  does not find the entry the first has freed.
* **`aseclost`.** `cleanupAsec` means to unmount containers whose file is gone ("Couldn't find ASEC %s;
  cleaning up"), but through `unmountAsec`, which refuses what `findAsec` does not find.

### `Cryptfs.tla` and `DiskEncryption.tla`

`Cryptfs` is `cryptfs.c` with the commands that reach it. One command runs at a time, as on
the `CommandListener` thread; a step is what a command does up to the next call that leaves
something on the disk, in the kernel or with init, and between any two steps the power may fail.

*State.* `content` is what each encryptable partition holds (0 is userdata, the others the
volumes `should_encrypt` holds for): `Clear`, a key *k*, or *-k* while it is overwritten with *k*.
`footer` is `crypt_mnt_ftr` as a process reads it, `disk` as a power failure leaves it:
`put_crypt_ftr_and_key` never calls fsync, so the kernel writes it back when it likes (`WriteBack`) or at a
reboot. The master key in it is a record of the key, the password and the derivation
function it was wrapped with; a wrong password or a wrong `kdf_type` yields no key of any partition.
`dm` is the dm-crypt device over each partition, `NoTable` one that was created and never got a
table. `saved` stands for `saved_master_key` and `master_key_saved`. `data`, `mounted`, `framework`, `encrypted` are what
is mounted and which services init runs. `pc`, `mine` (the command's own `crypt_ftr`), `part`, `rc` are its locals.

| Code | Actions |
|---|---|
| `cryptfs_enable` up to the key | `EnableStart`, `EnableDisable`, `EnableDisableFails`, `EnableShutdown`, `EnableMinFramework` |
| the key, the footer, the devices | `EnableMakeKey`, `EnableKeyFails`, `EnableMap` |
| `cryptfs_enable_wipe`, `cryptfs_enable_inplace`, the loop over the volumes | `EnableConvert`, `EnableConverted` |
| the end of `cryptfs_enable`, `cryptfs_reboot` | `EnableUnmap`, `EnableFinish`, `EnableWipesData`, `RecoveryFails`, `EnableFails`, `Reboot`, `RebootFails` |
| `cryptfs_crypto_complete` | `CryptoComplete` |
| `cryptfs_check_passwd`, `test_mount_encrypted_fs` | `CheckPasswd`, `CheckMounts`, `CheckMountFails`, `CheckRewrap` |
| `cryptfs_verify_passwd`, `cryptfs_changepw` | `VerifyPasswd`, `ChangePw` |
| `cryptfs_restart` | `RestartStop`, `RestartUnmountFails`, `RestartMount` |
| `cryptfs_setup_volume` in `Volume::mountVol`, `cryptfs_revert_volume` | `MountVolume`, `UnmountVolume` |
| `cryptfs_getfield`, `cryptfs_setfield`, `load_persistent_data` | `GetField`, `SetField` |
| the kernel, init (external) | `WriteBack`, `PowerLoss`, `Boot` |

*What is assumed of the rest of the system.* The UI asks for a password only after `cryptocomplete` answered 0, and
offers nothing but a reset when an encryption failed half-way; a framework that is up is what mounts volumes;
a footer is written whole or not at all; when a volume is reverted its device can be removed. init mounts `/data` at boot if it
is a plain filesystem and otherwise counts the device as encrypted. A device starts
plain, or encrypted by an earlier release whose footer is version 1.1 with a PBKDF2 key.

*Not in it.* Whether a UI that lacks these habits could unlock a half encrypted device
(it could: `test_mount_encrypted_fs` does not look at the flag, and the superblock is among the
first blocks written); what recovery does with the data when it is reached; ASECs, which `AsecContainers` has; sizes and progress in percent; the format of the two copies of
the persistent fields, which no footer of this version reaches.

*Faults.* `Faults` names the calls that may fail, each at every place it is made, reboots into recovery included. A write of a key
file may fail and still have written, when `ftruncate` does (`cryptfs.c:277`). `Crypt.cfg` leaves out four, since
properties fail with them: `"put"` and `"rewrap"` (footer write, key wrapping: the key can be lost, see `keylost`),
`"dmremove"` and `"table"` (a device without a table, or one that stays, makes every later `checkpw` fail until a
reboot; and a device of a first encryption that stays is what a second one in the same boot writes through, with the wrong key). Which of them each property can do without is what section 3 says.

*Encrypting again.* `cryptfs_enable` asks `ro.crypto.state` only, which init sets at boot. So an `enablecrypto` that follows one
that failed, in the same boot, encrypts again with a new key, over what the first has left: after a reboot that did not happen
(`error_reboot_failed`, or a reboot into recovery that returned), or after a failed encryption that is not to be wiped. `EnableStart`
has no guard that the code lacks, and the properties say what holds all the same: `KeyKept` excepts data that such a second
encryption has overwritten with a newer key, and `AwakeWhileEncrypting` says when a command may end with the wakelock still held:
only when the data is partly encrypted, the footer says so, and the reboot into recovery has failed (`cryptfs.c:1877`, then 1883).
That an error which says nothing was encrypted is true (`ErrorKeepsData`), and that nothing is encrypted twice (`ConvertsOnce`),
is not so in this code; both are proved for a device that wipes failed encryptions and whose reboots do not fail.

`DiskEncryption` is what the owner of the device relies on, in five variables: is the data in
the clear, has the device booted from encrypted data, which password opens it now, which after a power failure, is it unlocked. `Cryptfs`
implements it (`KeepsPromise`): data that is no longer in the clear never is again; once the device has booted from encrypted data
that a password opens, some password always opens it, only an unlocked device changes it, and a power failure undoes no more than that.
Before that boot there is no promise that the data can be opened: while it is encrypted no password opens it, and a power failure just after the
in-progress flag was cleared may bring the flag back.

*Runs* (`MCCryptfs.tla`).

| Run | Instance | Question |
|---|---|---|
| `crypt` | two volumes, two passwords (symmetric), plain and legacy devices, wipe and in place, nine kinds of calls may fail | Does a complete footer hold the key of the data (`KeyKept`), is the last volume done (`LastVolumeDone`), is the saved key the data's (`SavedKeyIsRight`), is nothing written that is mounted (`NotMountedWhileConverting`), do volumes get the right key (`VolumeHasKey`), is the wakelock held and released (`AwakeWhileEncrypting`), can a wrong password be corrected (`RetryPossible`), is the promise kept (`KeepsPromise`)? |
| `keylost` | a legacy device, footer writes may fail | violated: `KeyKept` |
| `fields` | a legacy device, no volumes, nothing fails | violated: `FieldsBeforeDecryption` |

Two volumes are what a loop whose result is overwritten needs; two keys let an encryption start, fail without
having changed anything and start again, or start over what it has left; two passwords tell a right one from a wrong one and let one replace the other.
`MaxFailed` of 2 reaches a count that goes up, is cleared and goes up again: the code only compares it with 0 and its old value.
`CHECK_DEADLOCK FALSE` in `keylost` only.

* **`keylost`.** `checkpw` upgrades the key derivation: it sets `kdf_type` to scrypt in its copy of the footer, wraps the
  key again and writes the footer. If the write fails it answers -1, but `master_key_saved` stays set. A
  `changepw` then reads the old footer, wraps the key with scrypt and writes it back under `kdf_type` PBKDF2
  (`cryptfs.c:1936`): no password opens the data after the next reboot.
* **`fields`.** `cryptfs.h` says that the persistent fields can be read before the password is asked for, and are valid
  from version 1.1 on. `get_crypt_ftr_and_key` upgrades every footer to 1.2, and `load_persistent_data` and
  `save_persistent_data` then ask for exactly 1.1 (`cryptfs.c:499`, 580): no field of an encrypted device is ever read, and
  those that `cryptfs_enable` means to save (`cryptfs.c:2070`) are not.

`LastVolumeDone` says nothing of the volumes before the last: the loop over them overwrites `rc` (`cryptfs.c:1814`), and the
encryption counts as done although one failed. No comment says what should happen then, so no property does.

## 3. What is proved

### `DirectVolumeProofs.tla`

Every invariant that a passing run checks, and `KeepsPromise`, is a theorem, for every value of the
constants that satisfies the assumption of its module; some need a further assumption, which the
tables name. Each is there because the property is false without it on a small instance, which TLC
showed (for the containers, whose theorems share one invariant, because one of them is): the code, not the proof, is the reason. TLC evaluates the modules' assumptions in every run.

Proved for every value of the constants that satisfies
`ParameterAssumption` (any number of disks, partitions, slots, tries and kernel steps):

| Theorem | Statement |
|---|---|
| `TypeCorrectness` | `Spec => []TypeOK`; among others the unsigned `mPendingPartMap` never goes below zero |
| `MutualExclusion` | `Spec => []OneAtATime` |
| `RemovalExclusion` | `Spec => []RemovalExcludesMount` |
| `RemovalMountsNothing` | `Spec => NoMountDuringRemoval`: no step mounts anything while `mRemoving` is set (stated beside the proof; no run checks it, as `RemovalExcludesMount` says nearly the same) |
| `MountedIsOnTop` | `Spec => []MountedIsMounted`, if nothing is formatted |

*Assumption.* Partition minors of a disk lie in its span and the spans of two disks
are disjoint, as the block major's numbering gives; `MAX_MOUNT_PART <= MAX_PARTITIONS`; the
bounds are natural numbers. TLC evaluates the assumption in every run.

*Argument.* None of them is inductive. `OneAtATime` says nothing of who has the lock,
and `RemovalExcludesMount` nothing of the flag that keeps mounts out. `IInv` adds
what the code relies on:

* `LockHeld`: `mLock = t` exactly while `t` is inside `mountVol_l` or `unmountVol_l`;
* `RemovalMarked`: `mRemoving` exactly while the net thread is between its two
  `setRemoveState` calls;
* `AttemptLeft`, `NodeLeft`: the retry and node loops are entered with something left, so
  that the counters stay natural and `Head(nodes)` exists;
* `TypeOK`.

A removal begins only when `mLock` is free, so by `LockHeld` no mount is under way; a mount
begins only when `mRemoving` is clear, so by `RemovalMarked` no removal is. That each step keeps
`IInv` is proved action by action, the control half (`Control...` lemmas) apart from the
types (`Type...` lemmas). `RemovalMountsNothing` follows because only `MountTryMounts`
and `MountAsecFails` lengthen `mounts`, and both are at a point `RemovalExcludesMount` rules out.
TLC checked `IInv` before it was proved.

`MountedIsOnTop` adds `TopInv`: `Mounted` is said only while `mLock` is free, and what
`mountVol_l` and `unmountVol_l` rely on at their last step is on top of the mountpoint. Whatever
the handlers do to `mState` without the lock, they never set `Mounted`.

### `DirectVolumeEventsProofs.tla`

| Theorem | Statement | Assumed |
|---|---|---|
| `EmptyVolumeSaysSo` | `Spec => []NoDiskNoMedia` | the framework only mounts |
| `ReadyIsComplete` | `Spec => []ReadyWhenAllSeen` | the framework only mounts |

The kernel may do all it can: swap, repartition, change the medium, repeat its events. An unmount, a format
or a share breaks both (see section 2), as they set `mState` without asking for the disk.

*Argument.* Neither says anything of the uevents still to be read, and both depend on them. `Trace`
says that the uevents lead, one by one, from the disk the volume has taken to the one that is plugged in; `QueueInv`
that they do so at every moment: the kernel extends a trace, the net thread takes its first event.
With an empty queue the two disks are one. `AbsentInv` says that a volume without a disk is `NoMedia`
with `mLock` free and no call under way that would set another state. `SlotInv` says that
`mPendingPartMap` is at least the number of slots without a minor: then zero, which is what
`handlePartitionAdded` asks for, means that all have been seen, although `getDeviceNodes` may give the chosen
partition its minor before its event comes. It also says that the last slot is never filled: a disk with
`MAX_PARTITIONS` partitions stays pending for ever.

### `DirectVolumeRemovalProofs.tla`

| Theorem | Statement | Assumed |
|---|---|---|
| `RemovedIsUnmounted` | `Spec => []RemovedDiskUnmounted` | `HotplugAssumption` |

`HotplugAssumption` is the instance of `hotplug` without its bounds: the framework only mounts,
disks come and go one at a time, `umount2` succeeds in the end, and the filesystems of a partitioned disk are on its
partitions. Each part is needed; section 2 has what happens without it. Any number of disks, partitions, slots, tries
and kernel steps is left.

*Argument.* Under the assumption all that a disk *d* of *n* partitions will ever send is known when it is plugged in: `LifeEvent(d, n, j)` for
*j* up to 2*n* + 2. `LifeInv` says that the queue is the rest of it after some *k* events, and what the volume
has made of those: until the last partition has come nothing is mounted and nobody holds `mLock`; what is mounted then is
on the disk, and the event that removes it is still in the queue or being handled. `OnceInv` says that a filesystem is mounted once, on a
volume that is `Mounted` unless its call is under way, so that `UnmountUnshare` does not return early. With the
invariants of the two modules above, an empty queue and an idle net thread leave only a volume with nothing
mounted, or with its disk present.

### `SequenceLemmas.tla`, `AsecContainersProofs.tla`, `AsecDevicesProofs.tla`

Proved for any sets of containers, images and loop devices, for a kernel with and without `LazyClear`, with files
held open or not, on both threads:

| Theorem | Statement | Assumed |
|---|---|---|
| `TypeCorrectness` | `Spec => []TypeOK` | |
| `Listed` | `Spec => []ListedIsMounted` | `ListAssumption` |
| `NothingLeaks` | `Spec => []NoLeak` | `ListAssumption`, `ReleaseAssumption`, `LoopAssumption`, `DmAssumption` |
| `OwnImages` | `Spec => []MountsOwnImage` | `ListAssumption`, `ReleaseAssumption` |
| `OneLoop` | `Spec => []OneLoopPerImage` | `ListAssumption`, `ReleaseAssumption`, `LoopAssumption` |
| `FreshNames` | `Spec => []FreshDevices` | `ListAssumption`, `ReleaseAssumption`, `DmAssumption` |
| `Cleaned` | `Spec => []CleanedUp` | `ListAssumption`, `ReleaseAssumption` |

*Assumptions.* `ListAssumption`: looking for the file of a container finds it while it is there (`aseclost` refutes
`CleanedUp` without this), a container has a filesystem (one without is listed and never mounted), and neither `opendir` nor
the reading of `/proc/mounts` fails. `ReleaseAssumption`: a loop device can be looked up, and a loop or dm device that is not in use goes when it is
told to (not in `Failing`: `"lookup"`, `"loopclear"`, `"dmremove"`). `LoopAssumption`: a loop device that was made gets its
name; `DmAssumption`: a dm device gets its table. `Loop.cpp` and `Devmapper.cpp`
leave the device behind when that fails. TLC refutes `NoLeak`
with either failure, `OneLoopPerImage` with a nameless loop device and `FreshDevices` with a table that does not load; each theorem has
the one of these two that it needs. `ListAssumption` and `ReleaseAssumption` are the same for all of the devices' theorems, since `Listed` and `Devices` are
parts of one invariant: not each of their parts is needed for each theorem (section 2 has which failing call refutes which property).
So whichever of the calls that make a container fails, what is mounted is the container's own image and a cleanup finds all there is
(`OwnImages`, `Cleaned`). The constraint of the run, that TLC does not look beyond an overlap, is no assumption here: the
properties themselves speak of undisturbed states, and the invariants hold in every state.

*Argument.* Three layers. `Shapes`: which operation may be at which step with which arguments. `Lists`: while no cleanup has overlapped a command at most one
thread is busy, and the list and the mount table agree but for the container it works on; a cleanup still has on its own list
all it must unmount. `Devices`: every loop device with a name and every dm device with a table is that of a mounted container or of the one being worked on, no two such loops bear one
id or one image, a dm device lies over the loop of its container, and no two containers have the same image. So the
error exits, which take down what their call has built, leave nothing. What a walk
over `mActiveContainers` selects is a recursive function; that it exists is shown by the least length for which it
would not (`LeastNatural`), induction being out of reach. `SequenceLemmas` has what is needed of sequences
without repetition: appending, removing and taking the last. Before they were proved TLC held the three invariants in
`asec` with every call that builds a container failing, with and without open files.

### `CryptfsProofs.tla`

Proved for every value of the constants that satisfies `CryptAssumption`, any number of volumes, passwords and keys:

| Theorem | Statement | Faults |
|---|---|---|
| `TypeCorrectness` | `Spec => []TypeOK` | any |
| `WritesUnmounted` | `Spec => []NotMountedWhileConverting` | any |
| `Awake` | `Spec => []AwakeWhileEncrypting` | no `"put"` |
| `VolumesHaveKey` | `Spec => []VolumeHasKey` | no `"dmremove"` |
| `LastVolume` | `Spec => []LastVolumeDone` | no `"dmremove"` |
| `UnlocksItsData` | `Spec => []SavedKeyIsRight` | no `"dmremove"` |
| `RetryIsPossible` | `Spec => []RetryPossible` | no `"dmremove"`, no `"table"` |
| `KeyIsKept` | `Spec => []KeyKept` | no `"put"`, `"rewrap"`, `"dmremove"` |
| `Implements` | `Spec => KeepsPromise` | no `"put"`, `"rewrap"`, `"dmremove"` |
| `ErrorsKeepData` | `Spec => []ErrorKeepsData` | no `"reboot"`, and every failed encryption is wiped |
| `EncryptsOnce` | `Spec => []ConvertsOnce` | no `"reboot"`, and every failed encryption is wiped |

The last two are stated beside their proofs and not in a run: the code does not keep them when a reboot fails or a failed encryption
is not wiped, and `crypt` has both. They say how far the code goes.

*Argument.* None of them is inductive. `Inv` ties the control to the rest of the state: what each point of `cryptfs_enable`
and `checkpw` has prepared, that a device counts as encrypted or can be encrypted and never both, that the wakelock is held from the first step to
a return, and outlasts it only when recovery was not reached, and that the footer is then in progress.

`VolumeInv` and `UserdataInv` follow the devices: on an encrypted device a volume is mapped with the saved key or
not at all, and userdata is mapped only with the key or while a password is tried; no device of an earlier encryption is left. A removal that fails leaves
a device of an earlier key, which refutes both; a table that is not loaded leaves one without any, which refutes `RetryPossible`.

`SealInv` says what a footer promises of the data: no complete footer, cached or on the disk, holds a key that userdata is only partly encrypted
with, and a complete one that opens userdata opens the last volume. It needs `VolumeInv`: an `EnableMap` that met an old device would encrypt with the old key under
the new footer. That keys are drawn in order makes the footer of an earlier encryption harmless to a later one.
`SavedKeyIsRight` follows, since a password is only accepted for a complete footer.

`KeyInv` adds the other direction: a complete footer opens the data unless a newer key has overwritten it, and its `kdf_type` is the function the key was wrapped
with, so does the copy `checkpw` works on. This is the half that `FootersWritten` (`"put"` and `"rewrap"` not in `Faults`) is for, and that
`keylost` refutes without it. `Implements` maps each action of `Cryptfs` to one of `DiskEncryption` or a stutter, from all of these.

`ClearInv` says which partitions are still in the clear at each point, and that between commands on a device that did not boot encrypted all
are: true only if no command returns after it has begun to write, which is what a reboot that fails, or a failure that is not wiped, does.

There is one lemma per action and conjunct group; TLC checked the invariants before they were proved.

### Only model-checked

`UeventsHandled` and `CommandsReturn`: they are liveness properties under fairness, and need `ENABLED`, which is beyond the
prover. That the recursive function behind `mActiveContainers`' walks computes what the C++ loop does for every list is
seen by reading; the proofs use only its defining equation.

## 4. Not modelled

* File system wrappers, label readers, logging, argument parsing: they run programs or
  do I/O, and the models see calls that succeed or fail.
* In `DirectVolume`: `handleDiskAdded` with a disk without partitions whose major is 240, which `handleBlockEvent` filters
  (`DirectVolume.cpp:254`), and its early return for the device `ndda` without partitions (423); the choice of `mPartIdx`, the reads of the device and
  `setState` of `initMountpoint` are one step (124-220); what `getDeviceNodes` writes to
  `mPartMinors` when `unmountVol` calls it for the sub-partitions (`Volume.cpp:1081`); a `dirty_ratio` file that cannot be opened or read (`VolumeManager.cpp:1573`, 1662).
* In `Cryptfs`: footers of version 1.0 and an upgrade that runs out of memory or cannot seek (`cryptfs.c:320-350`); the conditions of `Volume::mountVol`
  on `vold.decrypt`, `vold.encrypt_progress` and `providesAsec` (`Volume.cpp:523`, 567), for which `framework = "up"` stands: a mount that
  the net thread retries while userdata is being encrypted is not modelled.
* `process_config` and the USB defaults of `main.cpp`: read once at start, before any thread.
* `vdc`, `Xwarp.cpp`, `linux/iso_fs.h`, the hash test.
* Everything of the plan below that is still to come.

## 5. Plan

In order:

1. `DirectVolume` with `DirectVolumeProofs`, `DirectVolumeEventsProofs`, `DirectVolumeRemovalProofs` - done.
2. `AsecContainers` with `SequenceLemmas`, `AsecContainersProofs`, `AsecDevicesProofs` - done.
3. `DiskEncryption` and `Cryptfs` with `CryptfsProofs` - done. Of `cryptfs.c` only the format of the persistent
   fields in two copies is left out (dead for footers of this version).
4. `UmsShare`: several volumes, one sharing count and one dirty ratio, both threads.
5. `Unmount`: the retry and kill escalation of `Volume::doUnmount`, `unmountLoopImage` and
   `wait_and_unmount`; `Fstrim`, the wake lock of overlapping trims; `NetworkVolume`.
6. `MediaLifecycle`: the abstract states a framework sees, with `DirectVolume` shown to
   implement it for the commands that keep it.
7. Operators against reference definitions: `isLegalAsecId`, `pathMatchesMountPoint`, the
   dm name hash, the partition table of `initializeMbr`.
8. Proofs: the safety of 4, and the refinement of 6.
