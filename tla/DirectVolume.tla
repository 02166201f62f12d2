---------------------------- MODULE DirectVolume ----------------------------
(***************************************************************************)
(* One removable volume of vold: Volume.cpp and DirectVolume.cpp, with the *)
(* VolumeManager operations that act on it.                                *)
(*                                                                         *)
(* Two threads drive the volume.  "cmd" is the CommandListener thread: it  *)
(* runs one framework command at a time.  "net" is the NetlinkHandler      *)
(* thread: it takes the block uevents of the kernel in order.  Both read   *)
(* and write mState without a lock; mLock covers only mountVol, unmountVol *)
(* and the writes of mRemoving.  A step of a thread is what it does        *)
(* between two points where it may be held up: an acquisition of mLock, a  *)
(* call that mounts, unmounts, formats or reads a device, a write to the   *)
(* mass storage lun.                                                       *)
(*                                                                         *)
(* The kernel is external: it is modelled by the uevents the handlers      *)
(* parse and by the block devices the calls reach.  Device numbers are     *)
(* minors of a single major; -1 stands for none, as in the code.           *)
(***************************************************************************)
EXTENDS Integers, Sequences, FiniteSets

CONSTANTS
  DiskMinors,       \* minors a disk of this volume may be given by the kernel
  MaxKernelParts,   \* most partitions a disk has
  HybridDisks,      \* a partitioned disk may also carry a filesystem as a whole
  MinorSpan,        \* 15: partition minors lie in mDiskMinor..mDiskMinor+15
  MAX_PARTITIONS,   \* 32: slots of mPartMinors
  MAX_MOUNT_PART,   \* 16: device nodes a mount considers
  MountTries,       \* 60: attempts of VolumeManager::mountVolume
  ProvidesAsec,     \* the volume carries VOL_PROVIDES_ASEC
  UnmountMayFail,   \* umount2 may go on failing until doUnmount gives up
  Commands,         \* framework commands in use
  KernelChanges,    \* what the kernel does, apart from plugging disks in
  MaxKernelSteps,   \* bound on the number of kernel steps of a behaviour
  MaxStack          \* bound on the filesystems stacked on one directory

ASSUME ParameterAssumption ==
  /\ DiskMinors \subseteq Nat
  /\ MaxKernelParts \in Nat
  /\ MinorSpan \in Nat /\ MaxKernelParts <= MinorSpan
  /\ \A d, e \in DiskMinors : d < e => d + MinorSpan < e
  /\ HybridDisks \in BOOLEAN
  /\ MAX_PARTITIONS \in Nat \ {0}
  /\ MAX_MOUNT_PART \in 1..MAX_PARTITIONS
  /\ MountTries \in Nat \ {0}
  /\ ProvidesAsec \in BOOLEAN
  /\ UnmountMayFail \in BOOLEAN
  /\ Commands \subseteq {"mount", "unmount", "format", "share", "unshare"}
  /\ KernelChanges \subseteq {"unplug", "swap", "repartition", "mediachange", "coldboot"}
  /\ MaxKernelSteps \in Nat
  /\ MaxStack \in Nat \ {0}

VARIABLES
  mState,                 \* Volume::mState
  mRetryMount,            \* a mount was refused while partitions were pending
  mDiskMinor,             \* disk the volume has taken, or -1
  mDiskNumParts,          \* NPARTS of that disk
  mPendingPartMap,        \* used as a counter: partitions still to come
  mPartMinors,            \* minor of each partition seen, or -1
  mPartIdx,               \* partition chosen for mounting, -1 for automatic
  mCurrentlyMountedKdev,  \* minor of the mounted filesystem, or -1
  mLock,                  \* holder of Volume::mLock, or "none"
  mRemoving,              \* a removal is being handled
  mUmsSharingCount,       \* VolumeManager: number of shared volumes
  dirtyRatio,             \* /proc/sys/vm/dirty_ratio: "system" or "ums"
  mSavedDirtyRatio,       \* VolumeManager: value to restore, or "none"
  mounts,                 \* filesystems stacked on getMountpoint(), by minor
  fuse,                   \* the fuse_<label> service is running
  asec,                   \* number of bind mounts stacked on SEC_ASECDIR_EXT
  plugged,                \* minor of the disk present, or -1
  kernelParts,            \* its number of partitions
  filesystems,            \* minors that carry a filesystem vold recognises
  uevents,                \* uevents not yet read by the net thread
  coldbooted,             \* main has run coldboot
  kernelSteps,            \* kernel steps so far
  pc,                     \* where each thread is
  tries,                  \* attempts left in mountVolume
  nodes,                  \* deviceNodes[] still to be tried by mountVol_l
  evt                     \* the uevent the net thread is handling

volumeVars == <<mState, mRetryMount, mDiskMinor, mDiskNumParts, mPendingPartMap,
                mPartMinors, mPartIdx, mCurrentlyMountedKdev>>
diskVars   == <<mDiskMinor, mDiskNumParts, mPendingPartMap, mPartMinors, mPartIdx>>
stateVars  == <<mState, mRetryMount>>
lockVars   == <<mLock, mRemoving>>
umsVars    == <<mUmsSharingCount, dirtyRatio, mSavedDirtyRatio>>
mountVars  == <<mounts, fuse, asec>>
kernelVars == <<plugged, kernelParts, filesystems, coldbooted, kernelSteps>>
workVars   == <<tries, nodes, evt>>
vars == <<volumeVars, lockVars, umsVars, mountVars, kernelVars, uevents, pc, workVars>>

Thread == {"cmd", "net"}
State  == {"NoMedia", "Idle", "Pending", "Checking", "Mounted", "Unmounting",
           "Formatting", "Shared"}
Uevent == [action : {"add", "remove", "change"}, type : {"disk", "partition"},
           minor : Nat, num : Nat]
NoUevent == [action |-> "change", type |-> "partition", minor |-> 0, num |-> 0]

\* Program points inside mountVol_l and unmountVol_l: mLock is held there.
MountPoints   == {"mount_stale", "mount_try", "mount_finish"}
UnmountPoints == {"unmount_run"}
\* Program points between setRemoveState(1) and setRemoveState(0).
RemovalPoints == {"rm_share", "rm_unshare", "rm_unmount", "uu_unshare", "rm_end",
                  "rm_unlock"}
CmdPoints == {"idle", "mount_lock", "unmount_lock", "format_check", "format_run",
              "share_lun", "unshare_lun"} \cup MountPoints \cup UnmountPoints
NetPoints == {"idle", "init", "notify", "rm_lock", "mount_lock", "unmount_lock"}
               \cup RemovalPoints \cup MountPoints \cup UnmountPoints

Goto(t, l) == pc' = [pc EXCEPT ![t] = l]

\* pthread_mutex_lock(&mLock) by thread t returns.  Here and below, a definition
\* that stands just before the one it resembles is that one with a plausible
\* mistake; no action uses it.
LockFreeIgnored(t) == TRUE
LockFree(t) == mLock = "none"

Smaller(a, b) == IF a <= b THEN a ELSE b

-----------------------------------------------------------------------------
(* Volume::setState, on a pair of mState and mRetryMount so that two calls  *)
(* of one step can be chained.                                              *)
Moved(s, new) ==
  IF s.state = new THEN s
  ELSE [state |-> new,
        retry |-> s.retry /\ (s.state = "Pending" => new = "Idle")]

Current == [state |-> mState, retry |-> mRetryMount]
Becomes(s) == mState' = s.state /\ mRetryMount' = s.retry
SetState(new) == Becomes(Moved(Current, new))

(* VolumeManager::handleVolumeUnshared side of unshareVolume, and its       *)
(* counterpart: the sharing count and the dirty ratio it governs.           *)
CountShare ==
  /\ mUmsSharingCount' = mUmsSharingCount + 1
  /\ IF mUmsSharingCount = 0
     THEN mSavedDirtyRatio' = dirtyRatio /\ dirtyRatio' = "ums"
     ELSE UNCHANGED <<mSavedDirtyRatio, dirtyRatio>>

CountUnshare ==
  /\ mUmsSharingCount' = mUmsSharingCount - 1
  /\ IF mUmsSharingCount = 1 /\ mSavedDirtyRatio # "none"
     THEN dirtyRatio' = mSavedDirtyRatio /\ mSavedDirtyRatio' = "none"
     ELSE UNCHANGED <<mSavedDirtyRatio, dirtyRatio>>

(* Block devices present: reading any other minor fails.  Of these, the     *)
(* partitions, or the disk if it has none, may carry a filesystem.          *)
DevicesOf(d, n) == {d + p : p \in 0..n}
CarriersOf(d, n) == IF n = 0 \/ HybridDisks THEN DevicesOf(d, n) ELSE DevicesOf(d, n) \ {d}
Present == IF plugged = -1 THEN {} ELSE DevicesOf(plugged, kernelParts)

(* umount2 of the mountpoint takes the topmost filesystem off.              *)
Popped == IF mounts = <<>> THEN <<>> ELSE SubSeq(mounts, 1, Len(mounts) - 1)
AsecReleased == IF ProvidesAsec /\ asec > 0 THEN asec - 1 ELSE asec

-----------------------------------------------------------------------------
(* DirectVolume::getDeviceNodes.  An mPartIdx of 0 reads mPartMinors[-1],   *)
(* which the class layout makes mDiskMinor.  A chosen partition that has    *)
(* no minor is given mPartIdx as its minor.                                 *)
PartMinor(minors, i) == IF i = 0 THEN mDiskMinor ELSE minors[i]

RepairedMinors ==
  IF mPartIdx > 0 /\ mPartMinors[mPartIdx] = -1
  THEN [mPartMinors EXCEPT ![mPartIdx] = mPartIdx]
  ELSE mPartMinors

DeviceNodes ==
  IF mPartIdx # -1 THEN <<PartMinor(RepairedMinors, mPartIdx)>>
  ELSE IF mDiskNumParts = 0 THEN <<mDiskMinor>>
  ELSE [i \in 1..Smaller(mDiskNumParts, MAX_MOUNT_PART) |-> mPartMinors[i]]

-----------------------------------------------------------------------------
(* Volume::mountVol and mountVol_l, run by either thread t: the cmd thread  *)
(* from mountVolume, the net thread from handlePartitionAdded.              *)

\* What mountVol and mountVol_l ask for once they hold mLock.
MayMountAtRemoval == mState = "Idle"
MayMount == ~mRemoving /\ mState = "Idle"

\* The call returns: mountVolume sleeps and tries again after a failure; the
\* net thread goes on to the end of handleBlockEvent.
TriesUncounted == tries
TriesLeft == tries - 1

MountReturns(t, ok) ==
  IF t = "net" THEN Goto(t, "notify") /\ UNCHANGED tries
  ELSE IF ok \/ TriesLeft = 0 THEN Goto(t, "idle") /\ tries' = 0
  ELSE Goto(t, "mount_lock") /\ tries' = TriesLeft

StartMount ==
  /\ pc["cmd"] = "idle" /\ "mount" \in Commands
  /\ tries' = MountTries
  /\ Goto("cmd", "mount_lock")
  /\ UNCHANGED <<volumeVars, lockVars, umsVars, mountVars, kernelVars, uevents, nodes, evt>>

\* mLock is taken and released in one step: a removal is being handled, there
\* is no medium, or the volume is busy.
MountRefused(t) ==
  /\ pc[t] = "mount_lock" /\ LockFree(t)
  /\ ~MayMount
  /\ mRetryMount' = (mRetryMount \/ (~mRemoving /\ mState = "Pending"))
  /\ MountReturns(t, FALSE)
  /\ UNCHANGED <<mState, diskVars, mCurrentlyMountedKdev, lockVars, umsVars,
                 mountVars, kernelVars, uevents, nodes, evt>>

\* The device nodes are collected and the first one is considered.
ConsiderNodes(t) ==
  /\ mPartMinors' = RepairedMinors
  /\ nodes' = DeviceNodes
  /\ SetState("Checking")
  /\ Goto(t, "mount_try")

MountBegin(t) ==
  /\ pc[t] = "mount_lock" /\ LockFree(t)
  /\ MayMount
  /\ mLock' = t
  /\ IF mounts = <<>> THEN ConsiderNodes(t)
     ELSE Goto(t, "mount_stale") /\ UNCHANGED <<mPartMinors, nodes, stateVars>>
  /\ UNCHANGED <<mRemoving, mDiskMinor, mDiskNumParts, mPendingPartMap, mPartIdx,
                 mCurrentlyMountedKdev, umsVars, mountVars, kernelVars, uevents, tries, evt>>

\* "Idle but appears to be mounted": doUnmount is called, its result ignored.
MountClearsStale(t) ==
  /\ pc[t] = "mount_stale"
  /\ \/ mounts' = Popped
     \/ UnmountMayFail /\ mounts' = mounts
  /\ ConsiderNodes(t)
  /\ UNCHANGED <<lockVars, mDiskMinor, mDiskNumParts, mPendingPartMap, mPartIdx,
                 mCurrentlyMountedKdev, umsVars, fuse, asec, kernelVars, uevents, tries, evt>>

\* mountPartition fails on a node; a failed filesystem check also sets Idle.
MountTryFails(t) ==
  /\ pc[t] = "mount_try"
  /\ nodes' = Tail(nodes)
  /\ \E checkFailed \in BOOLEAN :
       LET s == IF checkFailed THEN Moved(Current, "Idle") ELSE Current
       IN IF Len(nodes) > 1
          THEN /\ Becomes(Moved(s, "Checking"))
               /\ UNCHANGED <<mLock, pc, tries>>
          ELSE /\ Becomes(IF s.state # "NoMedia" THEN Moved(s, "Idle") ELSE s)
               /\ mLock' = "none"
               /\ MountReturns(t, FALSE)
  /\ UNCHANGED <<diskVars, mCurrentlyMountedKdev, mRemoving, umsVars, mountVars,
                 kernelVars, uevents, evt>>

\* The device mCurrentlyMountedKdev is set to.
MountedDisk == mDiskMinor
MountedNode == Head(nodes)

\* mountPartition mounts a node; mountAsecExternal follows, then fuse starts.
MountTryMounts(t) ==
  /\ pc[t] = "mount_try" /\ Head(nodes) \in filesystems
  /\ Len(mounts) < MaxStack /\ asec < MaxStack
  /\ mounts' = Append(mounts, Head(nodes))
  /\ asec' = IF ProvidesAsec THEN asec + 1 ELSE asec
  /\ fuse' = TRUE
  /\ mCurrentlyMountedKdev' = MountedNode
  /\ nodes' = Tail(nodes)
  /\ Goto(t, "mount_finish")
  /\ UNCHANGED <<stateVars, diskVars, lockVars, umsVars, kernelVars, uevents, tries, evt>>

\* mountAsecExternal fails: the filesystem is unmounted again.
MountAsecFails(t) ==
  /\ pc[t] = "mount_try" /\ ProvidesAsec /\ Head(nodes) \in filesystems
  /\ \/ UNCHANGED mounts
     \/ UnmountMayFail /\ Len(mounts) < MaxStack /\ mounts' = Append(mounts, Head(nodes))
  /\ SetState("Idle")
  /\ nodes' = <<>>
  /\ mLock' = "none"
  /\ MountReturns(t, FALSE)
  /\ UNCHANGED <<diskVars, mCurrentlyMountedKdev, mRemoving, umsVars, fuse, asec,
                 kernelVars, uevents, evt>>

\* The sub-partitions are tried (one may fail its check, which sets Idle), then
\* mState is read again: unless it still is Checking the mount is aborted.
MountFinish(t) ==
  /\ pc[t] = "mount_finish"
  /\ \E checkFailed \in {b \in BOOLEAN : b => nodes # <<>>} :
       LET s == IF checkFailed THEN Moved(Current, "Idle") ELSE Current
       IN IF s.state = "Checking"
          THEN /\ Becomes(Moved(s, "Mounted"))
               /\ MountReturns(t, TRUE)
               /\ UNCHANGED mounts
          ELSE /\ Becomes(s)
               /\ MountReturns(t, FALSE)
               /\ \/ mounts' = Popped
                  \/ UnmountMayFail /\ UNCHANGED mounts
  /\ mLock' = "none"
  /\ nodes' = <<>>
  /\ UNCHANGED <<diskVars, mCurrentlyMountedKdev, mRemoving, umsVars, fuse, asec,
                 kernelVars, uevents, evt>>

-----------------------------------------------------------------------------
(* VolumeManager::unmountVolume, Volume::unmountVol and unmountVol_l.  The  *)
(* net thread calls unmountVol from UnmountUnshare.  The containers that    *)
(* cleanupAsec unmounts first are another component's state.                *)

UnmountReturns(t) == Goto(t, IF t = "net" THEN "rm_end" ELSE "idle")

StartUnmount ==
  /\ pc["cmd"] = "idle" /\ "unmount" \in Commands
  /\ mState = "Mounted"
  /\ Goto("cmd", "unmount_lock")
  /\ UNCHANGED <<volumeVars, lockVars, umsVars, mountVars, kernelVars, uevents, workVars>>

UnmountRefused(t) ==
  /\ pc[t] = "unmount_lock" /\ LockFree(t)
  /\ mState # "Mounted"
  /\ UnmountReturns(t)
  /\ UNCHANGED <<volumeVars, lockVars, umsVars, mountVars, kernelVars, uevents, workVars>>

UnmountBegin(t) ==
  /\ pc[t] = "unmount_lock" /\ LockFree(t)
  /\ mState = "Mounted"
  /\ mLock' = t
  /\ SetState("Unmounting")
  /\ fuse' = FALSE
  /\ Goto(t, "unmount_run")
  /\ UNCHANGED <<diskVars, mCurrentlyMountedKdev, mRemoving, umsVars, mounts, asec,
                 kernelVars, uevents, workVars>>

UnmountSucceeds(t) ==
  /\ pc[t] = "unmount_run"
  /\ mounts' = Popped
  /\ asec' = AsecReleased
  /\ SetState("Idle")
  /\ mCurrentlyMountedKdev' = -1
  /\ mLock' = "none"
  /\ UnmountReturns(t)
  /\ UNCHANGED <<diskVars, mRemoving, umsVars, fuse, kernelVars, uevents, workVars>>

\* A sub-partition, the secure area, the fuse mountpoint or the medium cannot
\* be unmounted.  The secure area is bound again if it had been released; when
\* that fails too the volume is given up as NoMedia.
UnmountFails(t) ==
  /\ pc[t] = "unmount_run" /\ UnmountMayFail
  /\ \/ SetState("Mounted") /\ UNCHANGED asec
     \/ SetState("Mounted") /\ ProvidesAsec /\ asec' = AsecReleased + 1
     \/ SetState("NoMedia") /\ ProvidesAsec /\ asec' = AsecReleased
  /\ mLock' = "none"
  /\ UnmountReturns(t)
  /\ UNCHANGED <<diskVars, mCurrentlyMountedKdev, mRemoving, umsVars, mounts, fuse,
                 kernelVars, uevents, workVars>>

-----------------------------------------------------------------------------
(* VolumeManager::formatVolume and Volume::formatVol, which take no lock.   *)

StartFormat ==
  /\ pc["cmd"] = "idle" /\ "format" \in Commands
  /\ mState = "Idle"
  /\ Goto("cmd", "format_check")
  /\ UNCHANGED <<volumeVars, lockVars, umsVars, mountVars, kernelVars, uevents, workVars>>

\* isMountpointMounted: "Volume is idle but appears to be mounted - fixing".
FormatChecksMounts ==
  /\ pc["cmd"] = "format_check"
  /\ IF mounts # <<>>
     THEN SetState("Mounted") /\ Goto("cmd", "idle")
     ELSE SetState("Formatting") /\ Goto("cmd", "format_run")
  /\ UNCHANGED <<diskVars, mCurrentlyMountedKdev, lockVars, umsVars, mountVars,
                 kernelVars, uevents, workVars>>

\* Which device mDevicePath names is not modelled: any may get a filesystem.
FormatEnds ==
  /\ pc["cmd"] = "format_run"
  /\ \/ UNCHANGED filesystems
     \/ \E d \in Present : filesystems' = filesystems \cup {d}
  /\ SetState("Idle")
  /\ Goto("cmd", "idle")
  /\ UNCHANGED <<diskVars, mCurrentlyMountedKdev, lockVars, umsVars, mountVars,
                 plugged, kernelParts, coldbooted, kernelSteps, uevents, workVars>>

-----------------------------------------------------------------------------
(* VolumeManager::shareVolume and unshareVolume, which take no lock either. *)

StartShare ==
  /\ pc["cmd"] = "idle" /\ "share" \in Commands
  /\ mState = "Idle"
  /\ Goto("cmd", "share_lun")
  /\ UNCHANGED <<volumeVars, lockVars, umsVars, mountVars, kernelVars, uevents, workVars>>

ShareWritesLun ==
  /\ pc["cmd"] = "share_lun"
  /\ \/ SetState("Shared") /\ CountShare
     \/ UNCHANGED <<stateVars, umsVars>>              \* the lun cannot be written
  /\ Goto("cmd", "idle")
  /\ UNCHANGED <<diskVars, mCurrentlyMountedKdev, lockVars, mountVars, kernelVars,
                 uevents, workVars>>

StartUnshare ==
  /\ pc["cmd"] = "idle" /\ "unshare" \in Commands
  /\ mState = "Shared"
  /\ Goto("cmd", "unshare_lun")
  /\ UNCHANGED <<volumeVars, lockVars, umsVars, mountVars, kernelVars, uevents, workVars>>

\* Where each caller of unshareVolume goes on: the command, handleDiskRemoved
\* (which then unmounts only a disk without partitions), UnmountUnshare.
AfterUnshare(l) ==
  IF l = "unshare_lun" THEN "idle"
  ELSE IF l = "rm_unshare" /\ mDiskNumParts = 0 THEN "rm_unmount" ELSE "rm_end"

UnshareWritesLun(t) ==
  /\ pc[t] \in {"unshare_lun", "rm_unshare", "uu_unshare"}
  /\ \/ SetState("Idle") /\ CountUnshare
     \/ UNCHANGED <<stateVars, umsVars>>              \* the lun cannot be written
  /\ Goto(t, AfterUnshare(pc[t]))
  /\ UNCHANGED <<diskVars, mCurrentlyMountedKdev, lockVars, mountVars, kernelVars,
                 uevents, workVars>>

-----------------------------------------------------------------------------
(* DirectVolume::handleBlockEvent on the net thread: additions.             *)

Reading(action, type) ==
  /\ pc["net"] = "idle" /\ uevents # <<>>
  /\ Head(uevents).action = action /\ Head(uevents).type = type
  /\ uevents' = Tail(uevents)

InRange(minor) == mDiskMinor # -1 /\ minor \in mDiskMinor..(mDiskMinor + MinorSpan)

\* The event is for another disk, for a partition out of reach, or the volume
\* has a disk already: no handler runs.
Filtered(e) ==
  IF e.type = "disk"
  THEN IF e.action = "add" THEN mDiskMinor # -1 ELSE e.minor # mDiskMinor
  ELSE ~InRange(e.minor)

EventIgnored ==
  /\ pc["net"] = "idle" /\ uevents # <<>>
  /\ Filtered(Head(uevents))
  /\ uevents' = Tail(uevents)
  /\ UNCHANGED <<volumeVars, lockVars, umsVars, mountVars, kernelVars, pc, workVars>>

\* mPendingPartMap after an event that carries NPARTS.
PartsToCome(nparts) == Smaller(nparts, MAX_PARTITIONS)

DiskAdded ==
  /\ Reading("add", "disk") /\ ~Filtered(Head(uevents))
  /\ LET e == Head(uevents)
     IN /\ evt' = e
        /\ mDiskMinor' = e.minor
        /\ IF mState \in {"Mounted", "Checking"}
           THEN /\ Goto("net", "notify")
                /\ UNCHANGED <<mDiskNumParts, mPendingPartMap, stateVars>>
           ELSE /\ mDiskNumParts' = e.num
                /\ mPendingPartMap' = PartsToCome(e.num)
                /\ IF e.num = 0
                   THEN Goto("net", "init") /\ UNCHANGED stateVars
                   ELSE Goto("net", "notify") /\ SetState("Pending")
  /\ UNCHANGED <<mPartMinors, mPartIdx, mCurrentlyMountedKdev, lockVars, umsVars,
                 mountVars, kernelVars, tries, nodes>>

\* A partition not seen before counts down mPendingPartMap; at zero the volume
\* is initialised, unless it is being formatted or is mounted.
PartitionRecounted(p, minor) ==
  /\ mPartMinors' = IF p < MAX_PARTITIONS THEN [mPartMinors EXCEPT ![p] = minor] ELSE mPartMinors
  /\ mPendingPartMap' = IF mPendingPartMap = 0 THEN 0 ELSE mPendingPartMap - 1

PartitionUnderflows(p, minor) ==
  IF p < MAX_PARTITIONS /\ mPartMinors[p] < 0
  THEN mPartMinors' = [mPartMinors EXCEPT ![p] = minor] /\ mPendingPartMap' = mPendingPartMap - 1
  ELSE UNCHANGED <<mPartMinors, mPendingPartMap>>

PartitionCounted(p, minor) ==
  IF p < MAX_PARTITIONS /\ mPartMinors[p] < 0
  THEN /\ mPartMinors' = [mPartMinors EXCEPT ![p] = minor]
       /\ mPendingPartMap' = IF mPendingPartMap = 0 THEN 0 ELSE mPendingPartMap - 1
  ELSE UNCHANGED <<mPartMinors, mPendingPartMap>>

PartitionAdded ==
  /\ Reading("add", "partition") /\ ~Filtered(Head(uevents))
  /\ LET e == Head(uevents)
     IN /\ evt' = e
        /\ IF e.num \notin 1..MAX_PARTITIONS
           THEN /\ Goto("net", "notify")
                /\ UNCHANGED <<mDiskNumParts, mPartMinors, mPendingPartMap>>
           ELSE /\ mDiskNumParts' = IF e.num > mDiskNumParts THEN e.num ELSE mDiskNumParts
                /\ PartitionCounted(e.num, e.minor)
                /\ Goto("net", IF mPendingPartMap' = 0 /\ mState \notin {"Formatting", "Mounted"}
                               THEN "init" ELSE "notify")
  /\ UNCHANGED <<stateVars, mDiskMinor, mPartIdx, mCurrentlyMountedKdev, lockVars,
                 umsVars, mountVars, kernelVars, tries, nodes>>

\* getPrimaryPartitionIndex() + 1, when the filesystems in sized have a size:
\* the first partition that has one, or 0.
PrimaryPartition(sized) ==
  LET first == {i \in 1..MAX_PARTITIONS : /\ mPartMinors[i] \in sized
                                          /\ \A j \in 1..(i - 1) : mPartMinors[j] \notin sized}
  IN IF first = {} THEN {0} ELSE first

\* initMountpoint reads the node: the volume becomes Idle, becomes NoMedia
\* because the node cannot be read, or keeps its state because there is no such
\* node or no filesystem on it.
Initialised(node, readable, hasVolumeId) ==
  IF node \in readable THEN IF hasVolumeId THEN Moved(Current, "Idle") ELSE Current
  ELSE IF InRange(node) THEN Moved(Current, "NoMedia") ELSE Current

\* initMountpoint chooses the partition first.  A mount refused meanwhile is
\* retried by handlePartitionAdded afterwards.
InitMountpoint ==
  /\ pc["net"] = "init"
  /\ \E sized \in SUBSET filesystems, readable \in {Present, {}}, hasVolumeId \in BOOLEAN :
     \E idx \in IF mPartIdx = -1 /\ mDiskNumParts # 0
               THEN PrimaryPartition(sized) ELSE {mPartIdx} :
       LET node == IF mDiskNumParts = 0 THEN mDiskMinor ELSE PartMinor(mPartMinors, idx)
           s    == Initialised(node, readable, hasVolumeId)
           retry == evt.type = "partition" /\ s.retry
       IN /\ mPartIdx' = idx
          /\ Becomes([state |-> s.state, retry |-> s.retry /\ ~retry])
          /\ Goto("net", IF retry THEN "mount_lock"
                         ELSE IF evt.action = "add" THEN "notify" ELSE "idle")
  /\ UNCHANGED <<mDiskMinor, mDiskNumParts, mPendingPartMap, mPartMinors,
                 mCurrentlyMountedKdev, lockVars, umsVars, mountVars, kernelVars,
                 uevents, workVars>>

\* handleBlockEvent broadcasts VolumeDiskInserted if the volume is Idle now.
NotifyInserted ==
  /\ pc["net"] = "notify"
  /\ Goto("net", "idle")
  /\ UNCHANGED <<volumeVars, lockVars, umsVars, mountVars, kernelVars, uevents, workVars>>

-----------------------------------------------------------------------------
(* Changes.  handleDiskChanged takes no lock and looks only for Formatting. *)

DiskChanged ==
  /\ Reading("change", "disk") /\ ~Filtered(Head(uevents))
  /\ LET e == Head(uevents)
     IN /\ evt' = e
        /\ mDiskNumParts' = e.num
        /\ mPendingPartMap' = PartsToCome(e.num)
        /\ mPartMinors' = [i \in 1..MAX_PARTITIONS |-> -1]
        /\ IF e.num = 0 /\ mState = "NoMedia"
           THEN Goto("net", "init") /\ UNCHANGED stateVars
           ELSE /\ UNCHANGED pc
                /\ IF mState = "Formatting" THEN UNCHANGED stateVars
                   ELSE SetState(IF e.num = 0 THEN "Idle" ELSE "Pending")
  /\ UNCHANGED <<mDiskMinor, mPartIdx, mCurrentlyMountedKdev, lockVars, umsVars,
                 mountVars, kernelVars, tries, nodes>>

-----------------------------------------------------------------------------
(* Removals: handleDiskRemoved, handlePartitionRemoved, UnmountUnshare.     *)

Removed(type) ==
  /\ Reading("remove", type) /\ ~Filtered(Head(uevents))
  /\ evt' = Head(uevents)
  /\ Goto("net", "rm_lock")
  /\ UNCHANGED <<volumeVars, lockVars, umsVars, mountVars, kernelVars, tries, nodes>>

DiskRemoved      == Removed("disk")
PartitionRemoved == Removed("partition")

\* setRemoveState(1) waits for a mount or an unmount in progress; mLock is not
\* kept, for unmountVol takes it again.
RemoveBeginKeepsLock ==
  /\ pc["net"] = "rm_lock" /\ LockFree("net")
  /\ mRemoving' = TRUE /\ mLock' = "net"
  /\ Goto("net", IF evt.type = "disk" THEN "rm_share" ELSE "rm_unmount")
  /\ UNCHANGED <<volumeVars, umsVars, mountVars, kernelVars, uevents, workVars>>

RemoveBegin ==
  /\ pc["net"] = "rm_lock" /\ LockFree("net")
  /\ mRemoving' = TRUE
  /\ Goto("net", IF evt.type = "disk" THEN "rm_share" ELSE "rm_unmount")
  /\ UNCHANGED <<volumeVars, mLock, umsVars, mountVars, kernelVars, uevents, workVars>>

\* handleDiskRemoved unshares a shared volume first.
RemoveChecksShare ==
  /\ pc["net"] = "rm_share"
  /\ Goto("net", IF mState = "Shared" THEN "rm_unshare" ELSE AfterUnshare("rm_unshare"))
  /\ UNCHANGED <<volumeVars, lockVars, umsVars, mountVars, kernelVars, uevents, workVars>>

UnmountUnshare ==
  /\ pc["net"] = "rm_unmount"
  /\ Goto("net",
          IF mState \notin {"Mounted", "Shared", "Checking"} THEN "rm_end"
          ELSE IF evt.minor = mCurrentlyMountedKdev THEN "unmount_lock"
          ELSE IF mState = "Shared" THEN "uu_unshare" ELSE "rm_end")
  /\ UNCHANGED <<volumeVars, lockVars, umsVars, mountVars, kernelVars, uevents, workVars>>

\* handleDiskRemoved forgets the disk; mPendingPartMap keeps its value.
RemoveEnd ==
  /\ pc["net"] = "rm_end"
  /\ IF evt.type = "disk"
     THEN /\ SetState("NoMedia")
          /\ mPartMinors' = [i \in 1..MAX_PARTITIONS |-> -1]
          /\ mPartIdx' = -1
          /\ mDiskMinor' = -1
          /\ mDiskNumParts' = 0
     ELSE UNCHANGED <<stateVars, mPartMinors, mPartIdx, mDiskMinor, mDiskNumParts>>
  /\ Goto("net", "rm_unlock")
  /\ UNCHANGED <<mPendingPartMap, mCurrentlyMountedKdev, lockVars, umsVars, mountVars,
                 kernelVars, uevents, workVars>>

RemoveUnlock ==
  /\ pc["net"] = "rm_unlock" /\ LockFree("net")
  /\ mRemoving' = FALSE
  /\ Goto("net", "idle")
  /\ UNCHANGED <<volumeVars, mLock, umsVars, mountVars, kernelVars, uevents, workVars>>

-----------------------------------------------------------------------------
(* The kernel.  Uevents come as the handlers expect them: NPARTS with every *)
(* disk event, partitions added after their disk and removed before it.     *)

DiskEvent(action, d, n) ==
  [action |-> action, type |-> "disk", minor |-> d, num |-> n]
PartEvents(action, d, n) ==
  [p \in 1..n |-> [action |-> action, type |-> "partition", minor |-> d + p, num |-> p]]
AddEvents(d, n) == <<DiskEvent("add", d, n)>> \o PartEvents("add", d, n)

KernelStep ==
  /\ kernelSteps < MaxKernelSteps
  /\ kernelSteps' = kernelSteps + 1
  /\ UNCHANGED <<volumeVars, lockVars, umsVars, mountVars, pc, workVars>>

\* "swap": another disk may come before the removal of the last is handled.
DiskAppears(d, n) ==
  /\ plugged = -1
  /\ "swap" \in KernelChanges \/ (uevents = <<>> /\ pc["net"] = "idle")
  /\ plugged' = d /\ kernelParts' = n
  /\ filesystems' \in SUBSET CarriersOf(d, n)

PlugDisk ==
  /\ KernelStep
  /\ \E d \in DiskMinors, n \in 0..MaxKernelParts :
       DiskAppears(d, n) /\ uevents' = uevents \o AddEvents(d, n)
  /\ UNCHANGED coldbooted

UnplugDisk ==
  /\ KernelStep
  /\ "unplug" \in KernelChanges /\ plugged # -1
  /\ plugged' = -1 /\ kernelParts' = 0 /\ filesystems' = {}
  /\ uevents' = uevents \o PartEvents("remove", plugged, kernelParts)
                        \o <<DiskEvent("remove", plugged, 0)>>
  /\ UNCHANGED coldbooted

\* The partition table is read again, which needs that no partition is in use.
RepartitionDisk ==
  /\ KernelStep
  /\ "repartition" \in KernelChanges /\ plugged # -1
  /\ \A i \in DOMAIN mounts : mounts[i] \notin Present \ {plugged}
  /\ \E n \in 0..MaxKernelParts :
       /\ kernelParts' = n
       /\ filesystems' \in SUBSET CarriersOf(plugged, n)
       /\ uevents' = uevents \o PartEvents("remove", plugged, kernelParts)
                             \o <<DiskEvent("change", plugged, n)>>
                             \o PartEvents("add", plugged, n)
  /\ UNCHANGED <<plugged, coldbooted>>

\* A change event that only reports the disk.
MediaChange ==
  /\ KernelStep
  /\ "mediachange" \in KernelChanges /\ plugged # -1
  /\ uevents' = Append(uevents, DiskEvent("change", plugged, kernelParts))
  /\ UNCHANGED <<plugged, kernelParts, filesystems, coldbooted>>

\* main's coldboot, once, has the kernel repeat the additions of what is plugged in.
RunColdboot == "coldboot" \in KernelChanges /\ ~coldbooted /\ coldbooted' = TRUE

Coldboot ==
  /\ KernelStep /\ RunColdboot
  /\ plugged # -1
  /\ uevents' = uevents \o AddEvents(plugged, kernelParts)
  /\ UNCHANGED <<plugged, kernelParts, filesystems>>

\* The orders in which the events 1..k come when they are sent twice at once:
\* an event never comes before the one ahead of it, of the same sending.
Merges(k) ==
  {f \in [1..(2 * k) -> 1..k] :
     /\ \A j \in 1..k : Cardinality({i \in DOMAIN f : f[i] = j}) = 2
     /\ \A i \in DOMAIN f : f[i] > 1 =>
          Cardinality({h \in 1..i : f[h] = f[i] - 1}) >= Cardinality({h \in 1..i : f[h] = f[i]})}
MergesOf == [k \in 1..(MaxKernelParts + 1) |-> Merges(k)]

\* It runs while the kernel announces a disk by itself.
AnnouncedTwice(d, n, f) == [i \in 1..(2 * (n + 1)) |-> AddEvents(d, n)[f[i]]]

PlugDuringColdboot ==
  /\ KernelStep /\ RunColdboot
  /\ \E d \in DiskMinors, n \in 0..MaxKernelParts :
       /\ DiskAppears(d, n)
       /\ \E f \in MergesOf[n + 1] :
            uevents' = uevents \o AnnouncedTwice(d, n, f)

-----------------------------------------------------------------------------
Init ==
  /\ mState = "NoMedia" /\ mRetryMount = FALSE
  /\ mDiskMinor = -1 /\ mDiskNumParts = 0 /\ mPendingPartMap = 0
  /\ mPartMinors = [i \in 1..MAX_PARTITIONS |-> -1] /\ mPartIdx = -1
  /\ mCurrentlyMountedKdev = -1
  /\ mLock = "none" /\ mRemoving = FALSE
  /\ mUmsSharingCount = 0 /\ dirtyRatio = "system" /\ mSavedDirtyRatio = "none"
  /\ mounts = <<>> /\ fuse = FALSE /\ asec = 0
  /\ plugged = -1 /\ kernelParts = 0 /\ filesystems = {}
  /\ coldbooted = FALSE /\ kernelSteps = 0
  /\ uevents = <<>>
  /\ pc = [t \in Thread |-> "idle"]
  /\ tries = 0 /\ nodes = <<>> /\ evt = NoUevent

\* mountVol and unmountVol, by either thread.
MountOrUnmount(t) ==
  \/ MountRefused(t) \/ MountBegin(t) \/ MountClearsStale(t) \/ MountTryFails(t)
  \/ MountTryMounts(t) \/ MountAsecFails(t) \/ MountFinish(t)
  \/ UnmountRefused(t) \/ UnmountBegin(t) \/ UnmountSucceeds(t) \/ UnmountFails(t)
  \/ UnshareWritesLun(t)

StartCommand == StartMount \/ StartUnmount \/ StartFormat \/ StartShare \/ StartUnshare

CmdStep == MountOrUnmount("cmd") \/ FormatChecksMounts \/ FormatEnds \/ ShareWritesLun

NetStep ==
  \/ MountOrUnmount("net")
  \/ EventIgnored \/ DiskAdded \/ PartitionAdded \/ InitMountpoint \/ NotifyInserted
  \/ DiskChanged \/ DiskRemoved \/ PartitionRemoved
  \/ RemoveBegin \/ RemoveChecksShare \/ UnmountUnshare \/ RemoveEnd \/ RemoveUnlock

Kernel == PlugDisk \/ UnplugDisk \/ RepartitionDisk \/ MediaChange \/ Coldboot
            \/ PlugDuringColdboot

Next == StartCommand \/ CmdStep \/ NetStep \/ Kernel

Spec == Init /\ [][Next]_vars

\* Each thread runs on.  Waiting for mLock is strongly fair: the holder of the
\* lock releases it and then sleeps (usleep(VOLD_RETRY_MS)) or waits for its
\* socket before it can ask for it again.
FairSpec == Spec /\ SF_vars(NetStep) /\ SF_vars(CmdStep)

-----------------------------------------------------------------------------
(* Properties.                                                              *)

(* The variables keep their types.                                          *)
TypeOK ==
  /\ mState \in State
  /\ mRetryMount \in BOOLEAN
  /\ mDiskMinor \in Nat \cup {-1}
  /\ mDiskNumParts \in Nat
  /\ mPendingPartMap \in 0..MAX_PARTITIONS
  /\ mPartMinors \in [1..MAX_PARTITIONS -> Nat \cup {-1}]
  /\ mPartIdx \in -1..MAX_PARTITIONS
  /\ mCurrentlyMountedKdev \in Nat \cup {-1}
  /\ mLock \in Thread \cup {"none"}
  /\ mRemoving \in BOOLEAN
  /\ mUmsSharingCount \in Int
  /\ dirtyRatio \in {"system", "ums"}
  /\ mSavedDirtyRatio \in {"system", "ums", "none"}
  /\ mounts \in Seq(Nat)
  /\ fuse \in BOOLEAN
  /\ asec \in Nat
  /\ plugged \in DiskMinors \cup {-1}
  /\ kernelParts \in 0..MaxKernelParts
  /\ filesystems \subseteq Nat
  /\ coldbooted \in BOOLEAN
  /\ kernelSteps \in 0..MaxKernelSteps
  /\ uevents \in Seq(Uevent)
  /\ pc \in [Thread -> CmdPoints \cup NetPoints]
  /\ pc["cmd"] \in CmdPoints /\ pc["net"] \in NetPoints
  /\ tries \in 0..MountTries
  /\ nodes \in Seq(Nat \cup {-1})
  /\ evt \in Uevent

(* At most one thread is inside mountVol_l or unmountVol_l.                 *)
OneAtATime ==
  ~(pc["cmd"] \in MountPoints \cup UnmountPoints
      /\ pc["net"] \in MountPoints \cup UnmountPoints)

(* While the net thread handles a removal, between setRemoveState(1) and    *)
(* setRemoveState(0), no thread is inside mountVol_l: neither one that had  *)
(* begun before the removal nor one that began since.                       *)
RemovalExcludesMount ==
  pc["net"] \in RemovalPoints \cup {"unmount_lock", "unmount_run"}
    => \A t \in Thread : pc[t] \notin MountPoints

(* A volume reported as Mounted has mCurrentlyMountedKdev mounted topmost: the *)
(* device whose removal UnmountUnshare looks for is the one that is mounted *)
(* (Volume.h, mCurrentlyMountedKdev).                                       *)
MountedIsMounted ==
  mState = "Mounted" => mounts # <<>> /\ mounts[Len(mounts)] = mCurrentlyMountedKdev

Quiescent == uevents = <<>> /\ pc = [t \in Thread |-> "idle"]

(* Once the net thread has handled every removal and no command is left, no *)
(* filesystem of a disk that is gone stays mounted.                         *)
RemovedDiskUnmounted == Quiescent /\ plugged = -1 => mounts = <<>>

(* Once everything is handled, a volume without a disk says so: no step of  *)
(* a command that was under way overwrites the NoMedia of the removal.      *)
NoDiskNoMedia == Quiescent /\ plugged = -1 => mState = "NoMedia"

(* Partition events announced twice do not make a volume ready early: it is *)
(* initialised only once every partition of the disk has been seen.         *)
ReadyWhenAllSeen ==
  pc["net"] = "init" => \A p \in 1..mDiskNumParts : mPartMinors[p] # -1

(* A volume handed to the host as mass storage is not mounted as well:      *)
(* shareVolume says "You need to unmount manually befoe sharing".           *)
SharedIsNotMounted == mState = "Shared" => mounts = <<>>

(* handleBlockEvent: "Send notification iff disk is ready (ie all           *)
(* partitions found)".  VolumeDiskInserted is sent when the volume is Idle. *)
InsertedWhenComplete ==
  pc["net"] = "notify" /\ mState = "Idle" => mPendingPartMap = 0

(* UnmountUnshare: "Yikes, our mounted partition is going away!"  A removal *)
(* of the device that is mounted on top goes on to unmount it.              *)
MountedRemovalUnmounts ==
  [][pc["net"] = "rm_unmount" /\ pc'["net"] # "rm_unmount"
       /\ mounts # <<>> /\ mounts[Len(mounts)] = evt.minor
     => pc'["net"] = "unmount_lock"]_vars

(* Every uevent is handled in the end, whatever the framework asks for.     *)
UeventsHandled == uevents # <<>> ~> (uevents = <<>> /\ pc["net"] = "idle")

(* Every framework command returns.                                         *)
CommandsReturn == pc["cmd"] # "idle" ~> pc["cmd"] = "idle"

=============================================================================
