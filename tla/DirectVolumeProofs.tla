------------------------- MODULE DirectVolumeProofs -------------------------
(***************************************************************************)
(* Theorems about DirectVolume, for every value of its constants.          *)
(*                                                                         *)
(* The inductive invariant IInv says which thread holds mLock and when     *)
(* mRemoving is set, in terms of where the threads are.  From it follow    *)
(* type correctness, mutual exclusion of mountVol_l and unmountVol_l, and  *)
(* that nothing is mounted while a removal is being handled.               *)
(***************************************************************************)
EXTENDS DirectVolume, SequenceTheorems, TLAPS

Handling == RemovalPoints \cup {"unmount_lock", "unmount_run"}

\* The holder of mLock is the thread inside mountVol_l or unmountVol_l.
LockHeld ==
  \A t \in Thread : mLock = t <=> pc[t] \in MountPoints \cup UnmountPoints

\* mRemoving is set exactly while the net thread handles a removal.
RemovalMarked == mRemoving <=> pc["net"] \in Handling

\* An attempt is counted for every mount of the command thread.
AttemptLeft == pc["cmd"] \in {"mount_lock"} \cup MountPoints => tries # 0

\* mountPartition is called with a device node to try.
NodeLeft == \A t \in Thread : pc[t] = "mount_try" => nodes # <<>>

Control == LockHeld /\ RemovalMarked /\ RemovalExcludesMount /\ AttemptLeft /\ NodeLeft
IInv == TypeOK /\ Control

-----------------------------------------------------------------------------
(* Facts about the helpers.                                                 *)

(* Volume::setState keeps the pair of state and retry flag typed.           *)
LEMMA MovedTyped ==
  ASSUME NEW s \in [state : State, retry : BOOLEAN], NEW new \in State
  PROVE  Moved(s, new) \in [state : State, retry : BOOLEAN]
  BY DEF Moved

(* Reading an event or giving up a node leaves a sequence of the same kind. *)
LEMMA TailTyped ==
  ASSUME NEW S, NEW q \in Seq(S), q # <<>>
  PROVE  Tail(q) \in Seq(S) /\ Head(q) \in S /\ Len(Tail(q)) = Len(q) - 1
  OBVIOUS

(* One more filesystem on the stack.                                        *)
LEMMA AppendTyped ==
  ASSUME NEW S, NEW q \in Seq(S), NEW x \in S
  PROVE  Append(q, x) \in Seq(S) /\ Len(Append(q, x)) = Len(q) + 1
  OBVIOUS

(* A sequence that has a length has an element.                             *)
LEMMA PositiveLength ==
  ASSUME NEW q, Len(q) \in Nat \ {0}
  PROVE  q # <<>>
<1>1. Len(<<>>) = 0
  OBVIOUS
<1>. QED
  BY <1>1

(* Of several device nodes one is left when one is given up.                *)
LEMMA OneFewerLeft ==
  ASSUME NEW q, NEW n \in Nat \ {0}, n > 1, Len(q) = n - 1
  PROVE  q # <<>>
<1>1. n - 1 \in Nat \ {0}
  OBVIOUS
<1>. QED
  BY <1>1, PositiveLength

(* umount2 leaves a stack of mounts that is not longer.                     *)
LEMMA PoppedTyped ==
  ASSUME mounts \in Seq(Nat)
  PROVE  Popped \in Seq(Nat) /\ Len(Popped) <= Len(mounts)
<1>1. CASE mounts = <<>>
  BY <1>1 DEF Popped
<1>2. CASE mounts # <<>>
  <2>1. Len(mounts) \in Nat \ {0}
    BY <1>2, EmptySeq
  <2>2. \A i \in 1..(Len(mounts) - 1) : mounts[i] \in Nat
    BY <2>1, ElementOfSeq
  <2>. QED
    BY <1>2, <2>1, <2>2, SubSeqProperties DEF Popped
<1>. QED
  BY <1>1, <1>2

(* getDeviceNodes names at least one device, and only devices or -1; the    *)
(* repair of a missing minor keeps mPartMinors typed.                       *)
LEMMA DeviceNodesTyped ==
  ASSUME TypeOK
  PROVE  /\ DeviceNodes \in Seq(Nat \cup {-1}) /\ DeviceNodes # <<>>
         /\ RepairedMinors \in [1..MAX_PARTITIONS -> Nat \cup {-1}]
<1>. USE ParameterAssumption
<1>1. RepairedMinors \in [1..MAX_PARTITIONS -> Nat \cup {-1}]
  BY DEF TypeOK, RepairedMinors
<1>2. CASE mPartIdx # -1
  <2>1. PartMinor(RepairedMinors, mPartIdx) \in Nat \cup {-1}
    BY <1>1, <1>2 DEF TypeOK, PartMinor
  <2>. QED
    BY <1>1, <1>2, <2>1 DEF DeviceNodes
<1>3. CASE mPartIdx = -1 /\ mDiskNumParts = 0
  BY <1>1, <1>3 DEF DeviceNodes, TypeOK
<1>4. CASE mPartIdx = -1 /\ mDiskNumParts # 0
  <2>. DEFINE n == Smaller(mDiskNumParts, MAX_MOUNT_PART)
  <2>1. n \in 1..MAX_PARTITIONS
    BY <1>4 DEF TypeOK, Smaller
  <2>2. \A i \in 1..n : mPartMinors[i] \in Nat \cup {-1}
    BY <2>1 DEF TypeOK
  <2>3. DeviceNodes = [i \in 1..n |-> mPartMinors[i]]
    BY <1>4 DEF DeviceNodes
  <2>. HIDE DEF n
  <2>4. DeviceNodes \in Seq(Nat \cup {-1}) /\ Len(DeviceNodes) = n
    BY <2>1, <2>2, <2>3
  <2>. QED
    BY <1>1, <2>1, <2>4, EmptySeq
<1>. QED
  BY <1>2, <1>3, <1>4 DEF TypeOK

(* The minors of the disk present are natural numbers.                      *)
LEMMA DevicesTyped ==
  ASSUME NEW d \in Nat, NEW n \in Nat
  PROVE  DevicesOf(d, n) \subseteq Nat /\ CarriersOf(d, n) \subseteq Nat
  BY DEF DevicesOf, CarriersOf

(* So are the minors of the disk plugged in, of which there may be none.    *)
LEMMA PresentTyped ==
  ASSUME TypeOK
  PROVE  Present \subseteq Nat /\ (plugged # -1 => plugged \in Nat) /\ kernelParts \in Nat
<1>1. (plugged # -1 => plugged \in Nat) /\ kernelParts \in Nat
  BY ParameterAssumption DEF TypeOK
<1>. QED
  BY <1>1, DevicesTyped DEF Present

(* handleBlockEvent takes the first uevent, and leaves uevents.             *)
LEMMA ReadingTyped ==
  ASSUME TypeOK, NEW action, NEW type, Reading(action, type)
  PROVE  /\ Head(uevents) \in Uevent
         /\ Head(uevents).minor \in Nat /\ Head(uevents).num \in Nat
         /\ uevents' \in Seq(Uevent)
<1>1. Head(uevents) \in Uevent /\ uevents' \in Seq(Uevent)
  BY TailTyped DEF TypeOK, Reading
<1>. QED
  BY <1>1 DEF Uevent

(* No more than MAX_PARTITIONS partitions are awaited.                      *)
LEMMA PartsToComeTyped ==
  ASSUME NEW n \in Nat
  PROVE  PartsToCome(n) \in 0..MAX_PARTITIONS
  BY ParameterAssumption DEF PartsToCome, Smaller

(* Counting a partition down keeps the slots and the count typed.           *)
LEMMA CountedTyped ==
  ASSUME TypeOK, NEW p \in 1..MAX_PARTITIONS, NEW minor \in Nat, PartitionCounted(p, minor)
  PROVE  /\ mPartMinors' \in [1..MAX_PARTITIONS -> Nat \cup {-1}]
         /\ mPendingPartMap' \in 0..MAX_PARTITIONS
  BY ParameterAssumption DEF TypeOK, PartitionCounted

(* The partition chosen is a slot of mPartMinors, or 0 for none.            *)
LEMMA PrimaryTyped ==
  ASSUME NEW sized, NEW idx \in PrimaryPartition(sized)
  PROVE  idx \in 0..MAX_PARTITIONS
  BY ParameterAssumption DEF PrimaryPartition

(* The uevents of a disk are a sequence of uevents.                         *)
LEMMA DiskEventTyped ==
  ASSUME NEW d \in Nat, NEW n \in Nat, NEW action \in {"add", "remove", "change"}
  PROVE  /\ DiskEvent(action, d, n) \in Uevent
         /\ <<DiskEvent(action, d, n)>> \in Seq(Uevent)
  BY DEF DiskEvent, Uevent

(* The uevents of the partitions of a disk.                                 *)
LEMMA PartEventsTyped ==
  ASSUME NEW d \in Nat, NEW n \in Nat, NEW action \in {"add", "remove", "change"}
  PROVE  PartEvents(action, d, n) \in Seq(Uevent)
<1>1. \A p \in 1..n : [action |-> action, type |-> "partition", minor |-> d + p, num |-> p] \in Uevent
  BY DEF Uevent
<1>. QED
  BY <1>1 DEF PartEvents

(* The uevents of a disk that is added with its partitions.                 *)
LEMMA AddEventsTyped ==
  ASSUME NEW d \in Nat, NEW n \in Nat
  PROVE  AddEvents(d, n) \in Seq(Uevent)
  BY DiskEventTyped, PartEventsTyped, ConcatProperties DEF AddEvents

(* The uevents of a disk that is announced twice at once.                   *)
LEMMA AnnouncedTwiceTyped ==
  ASSUME NEW d \in Nat, NEW n \in Nat, NEW f \in [1..(2 * (n + 1)) -> 1..(n + 1)]
  PROVE  AnnouncedTwice(d, n, f) \in Seq(Uevent)
<1>1. AddEvents(d, n) \in Seq(Uevent) /\ Len(AddEvents(d, n)) = n + 1
  <2>1. /\ <<DiskEvent("add", d, n)>> \in Seq(Uevent)
        /\ PartEvents("add", d, n) \in Seq(Uevent)
    BY DiskEventTyped, PartEventsTyped
  <2>2. Len(<<DiskEvent("add", d, n)>>) = 1 /\ Len(PartEvents("add", d, n)) = n
    BY DEF PartEvents
  <2>3. ASSUME NEW s1 \in Seq(Uevent), NEW s2 \in Seq(Uevent)
        PROVE  Len(s1 \o s2) = Len(s1) + Len(s2)
    BY ConcatProperties
  <2>4. Len(AddEvents(d, n)) = Len(<<DiskEvent("add", d, n)>>) + Len(PartEvents("add", d, n))
    BY <2>1, <2>3, Zenon DEF AddEvents
  <2>5. Len(AddEvents(d, n)) = 1 + n
    BY <2>2, <2>4, Zenon
  <2>. QED
    BY <2>5, AddEventsTyped
<1>2. \A i \in 1..(2 * (n + 1)) : AddEvents(d, n)[f[i]] \in Uevent
  BY <1>1, ElementOfSeq
<1>. QED
  BY <1>2 DEF AnnouncedTwice

-----------------------------------------------------------------------------
(* Every step keeps the control invariants.                                 *)

(* A step of mountVol, of unmountVol or of an unshare by either thread.     *)
LEMMA ControlCall ==
  ASSUME IInv, NEW t \in Thread, MountOrUnmount(t)
  PROVE  Control'
<1>. USE ParameterAssumption
     DEF IInv, Control, LockHeld, RemovalMarked, RemovalExcludesMount, AttemptLeft, NodeLeft,
         Handling, RemovalPoints, MountPoints, UnmountPoints, Thread, TypeOK, Goto, LockFree,
         mountVars, kernelVars, volumeVars, lockVars, umsVars, stateVars, diskVars, workVars
<1>1. CASE MountRefused(t)
  BY <1>1 DEF MountRefused, MountReturns, MayMount, TriesLeft
<1>2. CASE MountBegin(t)
  BY <1>2, DeviceNodesTyped DEF MountBegin, ConsiderNodes, MayMount
<1>3. CASE MountClearsStale(t)
  BY <1>3, DeviceNodesTyped DEF MountClearsStale, ConsiderNodes
<1>4. CASE MountTryFails(t)
  <2>1. nodes # <<>> /\ Len(nodes) \in Nat \ {0}
    BY <1>4, EmptySeq DEF MountTryFails
  <2>2. nodes' = Tail(nodes) /\ Len(nodes') = Len(nodes) - 1
    BY <1>4, <2>1, TailTyped DEF MountTryFails
  <2>3. PICK checkFailed \in BOOLEAN :
          \/ Len(nodes) > 1 /\ UNCHANGED <<mLock, pc, tries>>
          \/ ~(Len(nodes) > 1) /\ mLock' = "none" /\ MountReturns(t, FALSE)
    BY <1>4, Zenon DEF MountTryFails
  <2>4. CASE Len(nodes) > 1 /\ UNCHANGED <<mLock, pc, tries>>
    <3>1. nodes' # <<>>
      BY <2>1, <2>2, <2>4, OneFewerLeft, Zenon
    <3>. QED
      BY <1>4, <2>4, <3>1 DEF MountTryFails
  <2>5. CASE mLock' = "none" /\ MountReturns(t, FALSE)
    BY <1>4, <2>5 DEF MountTryFails, MountReturns, TriesLeft
  <2>. QED
    BY <2>3, <2>4, <2>5
<1>5. CASE MountTryMounts(t)
  BY <1>5 DEF MountTryMounts
<1>6. CASE MountAsecFails(t)
  BY <1>6 DEF MountAsecFails, MountReturns, TriesLeft
<1>7. CASE MountFinish(t)
  BY <1>7 DEF MountFinish, MountReturns, TriesLeft
<1>8. CASE UnmountRefused(t)
  BY <1>8 DEF UnmountRefused, UnmountReturns
<1>9. CASE UnmountBegin(t)
  BY <1>9 DEF UnmountBegin
<1>10. CASE UnmountSucceeds(t)
  BY <1>10 DEF UnmountSucceeds, UnmountReturns
<1>11. CASE UnmountFails(t)
  BY <1>11 DEF UnmountFails, UnmountReturns
<1>12. CASE UnshareWritesLun(t)
  BY <1>12 DEF UnshareWritesLun, AfterUnshare
<1>. QED
  BY <1>1, <1>2, <1>3, <1>4, <1>5, <1>6, <1>7, <1>8, <1>9, <1>10, <1>11, <1>12 DEF MountOrUnmount

(* A framework command is taken up.                                         *)
LEMMA ControlCommand ==
  ASSUME IInv, StartCommand
  PROVE  Control'
<1>. USE ParameterAssumption
     DEF IInv, Control, LockHeld, RemovalMarked, RemovalExcludesMount, AttemptLeft, NodeLeft,
         Handling, RemovalPoints, MountPoints, UnmountPoints, Thread, TypeOK, Goto, LockFree,
         mountVars, kernelVars, volumeVars, lockVars, umsVars, stateVars, diskVars, workVars
<1>1. CASE StartMount
  BY <1>1 DEF StartMount
<1>2. CASE StartUnmount
  BY <1>2 DEF StartUnmount
<1>3. CASE StartFormat
  BY <1>3 DEF StartFormat
<1>4. CASE StartShare
  BY <1>4 DEF StartShare
<1>5. CASE StartUnshare
  BY <1>5 DEF StartUnshare
<1>. QED
  BY <1>1, <1>2, <1>3, <1>4, <1>5 DEF StartCommand

(* A step of the command thread outside mLock.                              *)
LEMMA ControlCmdStep ==
  ASSUME IInv, FormatChecksMounts \/ FormatEnds \/ ShareWritesLun
  PROVE  Control'
<1>. USE ParameterAssumption
     DEF IInv, Control, LockHeld, RemovalMarked, RemovalExcludesMount, AttemptLeft, NodeLeft,
         Handling, RemovalPoints, MountPoints, UnmountPoints, Thread, TypeOK, Goto, LockFree,
         mountVars, kernelVars, volumeVars, lockVars, umsVars, stateVars, diskVars, workVars
<1>1. CASE FormatChecksMounts
  BY <1>1 DEF FormatChecksMounts
<1>2. CASE FormatEnds
  BY <1>2 DEF FormatEnds
<1>3. CASE ShareWritesLun
  BY <1>3 DEF ShareWritesLun
<1>. QED
  BY <1>1, <1>2, <1>3

(* A step of the net thread between two calls.                              *)
LEMMA ControlNet ==
  ASSUME IInv, NetStep
  PROVE  Control'
<1>. USE ParameterAssumption
     DEF IInv, Control, LockHeld, RemovalMarked, RemovalExcludesMount, AttemptLeft, NodeLeft,
         Handling, RemovalPoints, MountPoints, UnmountPoints, Thread, TypeOK, Goto, LockFree,
         mountVars, kernelVars, volumeVars, lockVars, umsVars, stateVars, diskVars, workVars
<1>1. CASE EventIgnored
  BY <1>1 DEF EventIgnored
<1>2. CASE DiskAdded
  BY <1>2 DEF DiskAdded, Reading
<1>3. CASE PartitionAdded
  BY <1>3 DEF PartitionAdded, Reading
<1>4. CASE InitMountpoint
  BY <1>4 DEF InitMountpoint
<1>5. CASE NotifyInserted
  BY <1>5 DEF NotifyInserted
<1>6. CASE DiskChanged
  BY <1>6 DEF DiskChanged, Reading
<1>7. CASE DiskRemoved
  BY <1>7 DEF DiskRemoved, Removed, Reading
<1>8. CASE PartitionRemoved
  BY <1>8 DEF PartitionRemoved, Removed, Reading
<1>9. CASE RemoveBegin
  BY <1>9 DEF RemoveBegin
<1>10. CASE RemoveChecksShare
  BY <1>10 DEF RemoveChecksShare, AfterUnshare
<1>11. CASE UnmountUnshare
  BY <1>11 DEF UnmountUnshare
<1>12. CASE RemoveEnd
  BY <1>12 DEF RemoveEnd
<1>13. CASE RemoveUnlock
  BY <1>13 DEF RemoveUnlock
<1>. QED
  BY <1>1, <1>2, <1>3, <1>4, <1>5, <1>6, <1>7, <1>8, <1>9, <1>10, <1>11, <1>12, <1>13, ControlCall DEF NetStep, Thread

(* A step of the kernel.                                                    *)
LEMMA ControlKernel ==
  ASSUME IInv, Kernel
  PROVE  Control'
<1>. USE ParameterAssumption
     DEF IInv, Control, LockHeld, RemovalMarked, RemovalExcludesMount, AttemptLeft, NodeLeft,
         Handling, RemovalPoints, MountPoints, UnmountPoints, Thread, TypeOK, Goto, LockFree,
         mountVars, kernelVars, volumeVars, lockVars, umsVars, stateVars, diskVars, workVars
<1>1. CASE PlugDisk
  BY <1>1 DEF PlugDisk, KernelStep
<1>2. CASE UnplugDisk
  BY <1>2 DEF UnplugDisk, KernelStep
<1>3. CASE RepartitionDisk
  BY <1>3 DEF RepartitionDisk, KernelStep
<1>4. CASE MediaChange
  BY <1>4 DEF MediaChange, KernelStep
<1>5. CASE Coldboot
  BY <1>5 DEF Coldboot, KernelStep
<1>6. CASE PlugDuringColdboot
  BY <1>6 DEF PlugDuringColdboot, KernelStep
<1>. QED
  BY <1>1, <1>2, <1>3, <1>4, <1>5, <1>6 DEF Kernel

(* Every step of the specification keeps the control invariants.            *)
LEMMA ControlNext ==
  ASSUME IInv, [Next]_vars
  PROVE  Control'
<1>1. CASE StartCommand
  BY <1>1, ControlCommand
<1>2. CASE CmdStep
  BY <1>2, ControlCall, ControlCmdStep DEF CmdStep, Thread
<1>3. CASE NetStep
  BY <1>3, ControlNet
<1>4. CASE Kernel
  BY <1>4, ControlKernel
<1>5. CASE UNCHANGED vars
  BY <1>5 DEF IInv, Control, LockHeld, RemovalMarked, RemovalExcludesMount, AttemptLeft,
              NodeLeft, vars, lockVars, workVars
<1>. QED
  BY <1>1, <1>2, <1>3, <1>4, <1>5 DEF Next

-----------------------------------------------------------------------------
(* Every step keeps the types.                                              *)

(* mState and mRetryMount form a typed pair, and taking on another typed    *)
(* pair keeps them typed.                                                   *)
LEMMA SetTyped ==
  ASSUME TypeOK
  PROVE  /\ Current \in [state : State, retry : BOOLEAN]
         /\ \A s \in [state : State, retry : BOOLEAN] :
              Becomes(s) => mState' \in State /\ mRetryMount' \in BOOLEAN
         /\ \A new \in State :
              SetState(new) => mState' \in State /\ mRetryMount' \in BOOLEAN
<1>1. Current \in [state : State, retry : BOOLEAN]
  BY DEF TypeOK, Current
<1>2. ASSUME NEW s \in [state : State, retry : BOOLEAN], Becomes(s)
      PROVE  mState' \in State /\ mRetryMount' \in BOOLEAN
  BY <1>2 DEF Becomes
<1>3. ASSUME NEW new \in State, SetState(new)
      PROVE  mState' \in State /\ mRetryMount' \in BOOLEAN
  BY <1>1, <1>2, <1>3, MovedTyped DEF SetState
<1>. QED
  BY <1>1, <1>2, <1>3

(* What initMountpoint makes of the state is a typed pair.                 *)
LEMMA InitialisedTyped ==
  ASSUME TypeOK, NEW node, NEW readable, NEW hasVolumeId
  PROVE  Initialised(node, readable, hasVolumeId) \in [state : State, retry : BOOLEAN]
  BY SetTyped, MovedTyped DEF Initialised, State

(* A step of mountVol, of unmountVol or of an unshare by either thread.     *)
LEMMA TypeCall ==
  ASSUME IInv, NEW t \in Thread, MountOrUnmount(t)
  PROVE  TypeOK'
<1>. USE ParameterAssumption
     DEF TypeOK, IInv, Control, Thread, State, CmdPoints, NetPoints, RemovalPoints,
         MountPoints, UnmountPoints, Goto, mountVars, kernelVars, volumeVars, lockVars,
         umsVars, stateVars, diskVars, workVars
<1>1. CASE MountRefused(t)
  BY <1>1 DEF MountRefused, MountReturns, TriesLeft, NodeLeft, AttemptLeft
<1>2. CASE MountBegin(t)
  <2>1. mState' \in State /\ mRetryMount' \in BOOLEAN
    BY <1>2, SetTyped DEF MountBegin, ConsiderNodes
  <2>2. /\ mPartMinors' \in [1..MAX_PARTITIONS -> Nat \cup {-1}]
        /\ nodes' \in Seq(Nat \cup {-1})
    BY <1>2, DeviceNodesTyped DEF MountBegin, ConsiderNodes
  <2>3. /\ pc' \in [Thread -> CmdPoints \cup NetPoints]
        /\ pc'["cmd"] \in CmdPoints /\ pc'["net"] \in NetPoints
    BY <1>2 DEF MountBegin, ConsiderNodes
  <2>. QED
    BY <1>2, <2>1, <2>2, <2>3 DEF MountBegin
<1>3. CASE MountClearsStale(t)
  BY <1>3, DeviceNodesTyped, PoppedTyped, SetTyped DEF MountClearsStale, ConsiderNodes
<1>4. CASE MountTryFails(t)
  <2>1. nodes' \in Seq(Nat \cup {-1})
    BY <1>4, TailTyped DEF MountTryFails, NodeLeft
  <2>2. PICK checkFailed \in BOOLEAN, s \in [state : State, retry : BOOLEAN] :
          \/ Becomes(Moved(s, "Checking")) /\ UNCHANGED <<mLock, pc, tries>>
          \/ /\ Becomes(IF s.state # "NoMedia" THEN Moved(s, "Idle") ELSE s)
             /\ mLock' = "none" /\ MountReturns(t, FALSE)
    BY <1>4, SetTyped, MovedTyped DEF MountTryFails
  <2>3. mState' \in State /\ mRetryMount' \in BOOLEAN
    BY <2>2, SetTyped, MovedTyped
  <2>4. CASE UNCHANGED <<mLock, pc, tries>>
    BY <1>4, <2>1, <2>3, <2>4 DEF MountTryFails
  <2>5. CASE mLock' = "none" /\ MountReturns(t, FALSE)
    BY <1>4, <2>1, <2>3, <2>5 DEF MountTryFails, MountReturns, TriesLeft, AttemptLeft
  <2>. QED
    BY <2>2, <2>4, <2>5
<1>5. CASE MountTryMounts(t)
  BY <1>5, TailTyped DEF MountTryMounts, MountedNode, NodeLeft
<1>6. CASE MountAsecFails(t)
  <2>1. mState' \in State /\ mRetryMount' \in BOOLEAN
    BY <1>6, SetTyped DEF MountAsecFails
  <2>2. mounts' \in Seq(Nat)
    <3>1. Head(nodes) \in Nat
      BY <1>6 DEF MountAsecFails
    <3>2. Append(mounts, Head(nodes)) \in Seq(Nat)
      BY <3>1, AppendTyped
    <3>. QED
      BY <1>6, <3>1, <3>2 DEF MountAsecFails
  <2>3. pc' \in [Thread -> CmdPoints \cup NetPoints] /\ tries' \in 0..MountTries
        /\ pc'["cmd"] \in CmdPoints /\ pc'["net"] \in NetPoints
    BY <1>6 DEF MountAsecFails, MountReturns, TriesLeft, AttemptLeft
  <2>. QED
    BY <1>6, <2>1, <2>2, <2>3 DEF MountAsecFails
<1>7. CASE MountFinish(t)
  <2>1. mState' \in State /\ mRetryMount' \in BOOLEAN
    <3>1. PICK s \in [state : State, retry : BOOLEAN] :
            Becomes(Moved(s, "Mounted")) \/ Becomes(s)
      BY <1>7, SetTyped, MovedTyped DEF MountFinish
    <3>. QED
      BY <3>1, SetTyped, MovedTyped
  <2>2. mounts' \in Seq(Nat)
    BY <1>7, PoppedTyped DEF MountFinish
  <2>3. MountReturns(t, TRUE) \/ MountReturns(t, FALSE)
    BY <1>7, Zenon DEF MountFinish
  <2>4. /\ pc' \in [Thread -> CmdPoints \cup NetPoints] /\ tries' \in 0..MountTries
        /\ pc'["cmd"] \in CmdPoints /\ pc'["net"] \in NetPoints
    BY <1>7, <2>3 DEF MountFinish, MountReturns, TriesLeft, AttemptLeft
  <2>. QED
    BY <1>7, <2>1, <2>2, <2>4 DEF MountFinish
<1>8. CASE UnmountRefused(t)
  BY <1>8 DEF UnmountRefused, UnmountReturns
<1>9. CASE UnmountBegin(t)
  <2>1. mState' \in State /\ mRetryMount' \in BOOLEAN
    BY <1>9, SetTyped DEF UnmountBegin
  <2>. QED
    BY <1>9, <2>1 DEF UnmountBegin
<1>10. CASE UnmountSucceeds(t)
  BY <1>10, PoppedTyped, SetTyped DEF UnmountSucceeds, UnmountReturns, AsecReleased
<1>11. CASE UnmountFails(t)
  <2>1. mState' \in State /\ mRetryMount' \in BOOLEAN
    BY <1>11, SetTyped DEF UnmountFails
  <2>2. asec' \in Nat
    BY <1>11 DEF UnmountFails, AsecReleased
  <2>. QED
    BY <1>11, <2>1, <2>2 DEF UnmountFails, UnmountReturns
<1>12. CASE UnshareWritesLun(t)
  <2>1. mState' \in State /\ mRetryMount' \in BOOLEAN
    BY <1>12, SetTyped DEF UnshareWritesLun
  <2>2. /\ mUmsSharingCount' \in Int /\ dirtyRatio' \in {"system", "ums"}
        /\ mSavedDirtyRatio' \in {"system", "ums", "none"}
    BY <1>12 DEF UnshareWritesLun, CountUnshare
  <2>. QED
    BY <1>12, <2>1, <2>2 DEF UnshareWritesLun, AfterUnshare
<1>. QED
  BY <1>1, <1>2, <1>3, <1>4, <1>5, <1>6, <1>7, <1>8, <1>9, <1>10, <1>11, <1>12 DEF MountOrUnmount

(* A framework command is taken up.                                         *)
LEMMA TypeCommand ==
  ASSUME IInv, StartCommand
  PROVE  TypeOK'
<1>. USE ParameterAssumption
     DEF TypeOK, IInv, Control, Thread, State, CmdPoints, NetPoints, RemovalPoints,
         MountPoints, UnmountPoints, Goto, mountVars, kernelVars, volumeVars, lockVars,
         umsVars, stateVars, diskVars, workVars
<1>1. CASE StartMount
  BY <1>1 DEF StartMount
<1>2. CASE StartUnmount
  BY <1>2 DEF StartUnmount
<1>3. CASE StartFormat
  BY <1>3 DEF StartFormat
<1>4. CASE StartShare
  BY <1>4 DEF StartShare
<1>5. CASE StartUnshare
  BY <1>5 DEF StartUnshare
<1>. QED
  BY <1>1, <1>2, <1>3, <1>4, <1>5 DEF StartCommand

(* A step of the command thread outside mLock.                              *)
LEMMA TypeCmdStep ==
  ASSUME IInv, FormatChecksMounts \/ FormatEnds \/ ShareWritesLun
  PROVE  TypeOK'
<1>. USE ParameterAssumption
     DEF TypeOK, IInv, Control, Thread, State, CmdPoints, NetPoints, RemovalPoints,
         MountPoints, UnmountPoints, Goto, mountVars, kernelVars, volumeVars, lockVars,
         umsVars, stateVars, diskVars, workVars
<1>1. CASE FormatChecksMounts
  BY <1>1, SetTyped DEF FormatChecksMounts
<1>2. CASE FormatEnds
  <2>1. mState' \in State /\ mRetryMount' \in BOOLEAN
    BY <1>2, SetTyped DEF FormatEnds
  <2>2. filesystems' \subseteq Nat
    BY <1>2, PresentTyped DEF FormatEnds
  <2>. QED
    BY <1>2, <2>1, <2>2 DEF FormatEnds
<1>3. CASE ShareWritesLun
  <2>1. mState' \in State /\ mRetryMount' \in BOOLEAN
    BY <1>3, SetTyped DEF ShareWritesLun
  <2>2. /\ mUmsSharingCount' \in Int /\ dirtyRatio' \in {"system", "ums"}
        /\ mSavedDirtyRatio' \in {"system", "ums", "none"}
    BY <1>3 DEF ShareWritesLun, CountShare
  <2>. QED
    BY <1>3, <2>1, <2>2 DEF ShareWritesLun
<1>. QED
  BY <1>1, <1>2, <1>3

(* A step of the net thread between two calls.                              *)
LEMMA TypeNet ==
  ASSUME IInv, NetStep
  PROVE  TypeOK'
<1>. USE ParameterAssumption
     DEF TypeOK, IInv, Control, Thread, State, CmdPoints, NetPoints, RemovalPoints,
         MountPoints, UnmountPoints, Goto, mountVars, kernelVars, volumeVars, lockVars,
         umsVars, stateVars, diskVars, workVars
<1>1. CASE EventIgnored
  BY <1>1, TailTyped DEF EventIgnored
<1>2. CASE DiskAdded
  <2>. DEFINE e == Head(uevents)
  <2>1. e \in Uevent /\ e.minor \in Nat /\ e.num \in Nat /\ uevents' \in Seq(Uevent)
    BY <1>2, ReadingTyped DEF DiskAdded
  <2>2. PartsToCome(e.num) \in 0..MAX_PARTITIONS
    BY <2>1, PartsToComeTyped
  <2>3. mState' \in State /\ mRetryMount' \in BOOLEAN
    BY <1>2, SetTyped DEF DiskAdded
  <2>4. /\ pc' \in [Thread -> CmdPoints \cup NetPoints]
        /\ pc'["cmd"] \in CmdPoints /\ pc'["net"] \in NetPoints
    BY <1>2 DEF DiskAdded
  <2>5. /\ mDiskMinor' \in Nat
        /\ mDiskNumParts' \in Nat
        /\ mPendingPartMap' \in 0..MAX_PARTITIONS
        /\ evt' \in Uevent
    BY <1>2, <2>1, <2>2 DEF DiskAdded
  <2>6. UNCHANGED <<mPartMinors, mPartIdx, mCurrentlyMountedKdev, lockVars, umsVars,
                    mountVars, kernelVars, tries, nodes>>
    BY <1>2 DEF DiskAdded
  <2>. QED
    BY <2>1, <2>3, <2>4, <2>5, <2>6
<1>3. CASE PartitionAdded
  <2>. DEFINE e == Head(uevents)
  <2>1. e \in Uevent /\ e.minor \in Nat /\ e.num \in Nat /\ uevents' \in Seq(Uevent)
    BY <1>3, ReadingTyped DEF PartitionAdded
  <2>2. /\ mPartMinors' \in [1..MAX_PARTITIONS -> Nat \cup {-1}]
        /\ mPendingPartMap' \in 0..MAX_PARTITIONS
        /\ mDiskNumParts' \in Nat
    <3>1. CASE e.num \notin 1..MAX_PARTITIONS
      BY <1>3, <3>1 DEF PartitionAdded
    <3>2. CASE e.num \in 1..MAX_PARTITIONS
      <4>1. /\ mDiskNumParts' = IF e.num > mDiskNumParts THEN e.num ELSE mDiskNumParts
            /\ PartitionCounted(e.num, e.minor)
        BY <1>3, <3>2, Zenon DEF PartitionAdded
      <4>. QED
        BY <2>1, <3>2, <4>1, CountedTyped
    <3>. QED
      BY <3>1, <3>2
  <2>3. /\ pc' \in [Thread -> CmdPoints \cup NetPoints]
        /\ pc'["cmd"] \in CmdPoints /\ pc'["net"] \in NetPoints
    BY <1>3 DEF PartitionAdded, Reading
  <2>. QED
    BY <1>3, <2>1, <2>2, <2>3 DEF PartitionAdded
<1>4. CASE InitMountpoint
  <2>1. mPartIdx' \in -1..MAX_PARTITIONS
    BY <1>4, PrimaryTyped DEF InitMountpoint
  <2>2. mState' \in State /\ mRetryMount' \in BOOLEAN
    BY <1>4, InitialisedTyped DEF InitMountpoint, Becomes
  <2>3. /\ pc' \in [Thread -> CmdPoints \cup NetPoints]
        /\ pc'["cmd"] \in CmdPoints /\ pc'["net"] \in NetPoints
    BY <1>4 DEF InitMountpoint
  <2>. QED
    BY <1>4, <2>1, <2>2, <2>3 DEF InitMountpoint
<1>5. CASE NotifyInserted
  BY <1>5 DEF NotifyInserted
<1>6. CASE DiskChanged
  <2>. DEFINE e == Head(uevents)
  <2>1. e \in Uevent /\ e.minor \in Nat /\ e.num \in Nat /\ uevents' \in Seq(Uevent)
    BY <1>6, ReadingTyped DEF DiskChanged
  <2>2. PartsToCome(e.num) \in 0..MAX_PARTITIONS
    BY <2>1, PartsToComeTyped
  <2>3. mState' \in State /\ mRetryMount' \in BOOLEAN
    BY <1>6, SetTyped DEF DiskChanged
  <2>4. pc["net"] = "idle"
    BY <1>6 DEF DiskChanged, Reading
  <2>. QED
    BY <1>6, <2>1, <2>2, <2>3, <2>4 DEF DiskChanged
<1>7. CASE DiskRemoved
  BY <1>7, TailTyped DEF DiskRemoved, Removed, Reading
<1>8. CASE PartitionRemoved
  BY <1>8, TailTyped DEF PartitionRemoved, Removed, Reading
<1>9. CASE RemoveBegin
  BY <1>9 DEF RemoveBegin
<1>10. CASE RemoveChecksShare
  BY <1>10 DEF RemoveChecksShare, AfterUnshare
<1>11. CASE UnmountUnshare
  BY <1>11 DEF UnmountUnshare
<1>12. CASE RemoveEnd
  <2>1. mState' \in State /\ mRetryMount' \in BOOLEAN
    BY <1>12, SetTyped DEF RemoveEnd, State
  <2>2. /\ mPartMinors' \in [1..MAX_PARTITIONS -> Nat \cup {-1}]
        /\ mPartIdx' \in -1..MAX_PARTITIONS
        /\ mDiskMinor' \in Nat \cup {-1}
        /\ mDiskNumParts' \in Nat
    BY <1>12 DEF RemoveEnd
  <2>3. /\ pc' \in [Thread -> CmdPoints \cup NetPoints]
        /\ pc'["cmd"] \in CmdPoints /\ pc'["net"] \in NetPoints
    BY <1>12 DEF RemoveEnd
  <2>4. UNCHANGED <<mPendingPartMap, mCurrentlyMountedKdev, lockVars, umsVars, mountVars,
                    kernelVars, uevents, workVars>>
    BY <1>12 DEF RemoveEnd
  <2>. QED
    BY <2>1, <2>2, <2>3, <2>4
<1>13. CASE RemoveUnlock
  <2>1. /\ pc' \in [Thread -> CmdPoints \cup NetPoints]
        /\ pc'["cmd"] \in CmdPoints /\ pc'["net"] \in NetPoints
    BY <1>13 DEF RemoveUnlock
  <2>2. mRemoving' \in BOOLEAN /\ mLock' = mLock
    BY <1>13 DEF RemoveUnlock
  <2>3. UNCHANGED <<volumeVars, umsVars, mountVars, kernelVars, uevents, workVars>>
    BY <1>13 DEF RemoveUnlock
  <2>. QED
    BY <2>1, <2>2, <2>3
<1>. QED
  BY <1>1, <1>2, <1>3, <1>4, <1>5, <1>6, <1>7, <1>8, <1>9, <1>10, <1>11, <1>12, <1>13, TypeCall DEF NetStep, Thread

(* A step of the kernel.                                                    *)
LEMMA TypeKernel ==
  ASSUME IInv, Kernel
  PROVE  TypeOK'
<1>. USE ParameterAssumption
     DEF TypeOK, IInv, Control, Thread, State, CmdPoints, NetPoints, RemovalPoints,
         MountPoints, UnmountPoints, Goto, mountVars, kernelVars, volumeVars, lockVars,
         umsVars, stateVars, diskVars, workVars
<1>1. CASE PlugDisk
  <2>1. PICK d \in DiskMinors, n \in 0..MaxKernelParts :
          DiskAppears(d, n) /\ uevents' = uevents \o AddEvents(d, n)
    BY <1>1 DEF PlugDisk
  <2>2. d \in Nat /\ n \in Nat
    OBVIOUS
  <2>3. filesystems' \subseteq Nat
    BY <2>1, <2>2, DevicesTyped DEF DiskAppears
  <2>4. uevents' \in Seq(Uevent)
    BY <2>1, <2>2, AddEventsTyped, ConcatProperties
  <2>. QED
    BY <1>1, <2>1, <2>3, <2>4 DEF PlugDisk, DiskAppears, KernelStep
<1>2. CASE UnplugDisk
  <2>1. plugged \in Nat /\ kernelParts \in Nat
    BY <1>2, PresentTyped DEF UnplugDisk
  <2>2. /\ PartEvents("remove", plugged, kernelParts) \in Seq(Uevent)
        /\ <<DiskEvent("remove", plugged, 0)>> \in Seq(Uevent)
    BY <2>1, PartEventsTyped, DiskEventTyped
  <2>3. uevents' \in Seq(Uevent)
    BY <1>2, <2>2, ConcatProperties DEF UnplugDisk
  <2>. QED
    BY <1>2, <2>3 DEF UnplugDisk, KernelStep
<1>3. CASE RepartitionDisk
  <2>1. PICK n \in 0..MaxKernelParts :
          /\ kernelParts' = n
          /\ filesystems' \in SUBSET CarriersOf(plugged, n)
          /\ uevents' = uevents \o PartEvents("remove", plugged, kernelParts)
                                \o <<DiskEvent("change", plugged, n)>>
                                \o PartEvents("add", plugged, n)
    BY <1>3 DEF RepartitionDisk
  <2>2. plugged \in Nat /\ kernelParts \in Nat /\ n \in Nat
    BY <1>3, PresentTyped DEF RepartitionDisk
  <2>3. filesystems' \subseteq Nat
    BY <2>1, <2>2, DevicesTyped
  <2>4. /\ PartEvents("remove", plugged, kernelParts) \in Seq(Uevent)
        /\ <<DiskEvent("change", plugged, n)>> \in Seq(Uevent)
        /\ PartEvents("add", plugged, n) \in Seq(Uevent)
    BY <2>2, PartEventsTyped, DiskEventTyped
  <2>5. uevents' \in Seq(Uevent)
    BY <2>1, <2>4, ConcatProperties
  <2>. QED
    BY <1>3, <2>1, <2>3, <2>5 DEF RepartitionDisk, KernelStep
<1>4. CASE MediaChange
  BY <1>4, DiskEventTyped DEF MediaChange, KernelStep
<1>5. CASE Coldboot
  <2>1. AddEvents(plugged, kernelParts) \in Seq(Uevent)
    BY <1>5, PresentTyped, AddEventsTyped DEF Coldboot
  <2>2. uevents' \in Seq(Uevent)
    BY <1>5, <2>1, ConcatProperties DEF Coldboot
  <2>. QED
    BY <1>5, <2>2 DEF Coldboot, RunColdboot, KernelStep
<1>6. CASE PlugDuringColdboot
  <2>1. PICK d \in DiskMinors, n \in 0..MaxKernelParts :
          /\ DiskAppears(d, n)
          /\ \E f \in MergesOf[n + 1] :
               uevents' = uevents \o AnnouncedTwice(d, n, f)
    BY <1>6 DEF PlugDuringColdboot
  <2>2. PICK f \in MergesOf[n + 1] :
          uevents' = uevents \o AnnouncedTwice(d, n, f)
    BY <2>1
  <2>3. d \in Nat /\ n \in Nat /\ n + 1 \in 1..(MaxKernelParts + 1)
    OBVIOUS
  <2>4. filesystems' \subseteq Nat
    BY <2>1, <2>3, DevicesTyped DEF DiskAppears
  <2>5. f \in [1..(2 * (n + 1)) -> 1..(n + 1)]
    BY <2>2, <2>3 DEF MergesOf, Merges
  <2>6. AnnouncedTwice(d, n, f) \in Seq(Uevent)
    BY <2>3, <2>5, AnnouncedTwiceTyped
  <2>7. uevents \in Seq(Uevent)
    OBVIOUS
  <2>8. uevents' \in Seq(Uevent)
    BY <2>2, <2>6, <2>7, ConcatProperties, Zenon
  <2>. QED
    BY <1>6, <2>1, <2>4, <2>8 DEF PlugDuringColdboot, RunColdboot, DiskAppears, KernelStep
<1>. QED
  BY <1>1, <1>2, <1>3, <1>4, <1>5, <1>6 DEF Kernel

(* Every step of the specification keeps the types.                         *)
LEMMA TypeNext ==
  ASSUME IInv, [Next]_vars
  PROVE  TypeOK'
<1>1. CASE StartCommand
  BY <1>1, TypeCommand
<1>2. CASE CmdStep
  BY <1>2, TypeCall, TypeCmdStep DEF CmdStep, Thread
<1>3. CASE NetStep
  BY <1>3, TypeNet
<1>4. CASE Kernel
  BY <1>4, TypeKernel
<1>5. CASE UNCHANGED vars
  BY <1>5 DEF IInv, TypeOK, vars, volumeVars, lockVars, umsVars, mountVars, kernelVars,
              workVars
<1>. QED
  BY <1>1, <1>2, <1>3, <1>4, <1>5 DEF Next

-----------------------------------------------------------------------------
(* The theorems.                                                            *)

(* The inductive invariant holds initially and is kept by every step.       *)
LEMMA IInvInit == Init => IInv
<1>. SUFFICES ASSUME Init PROVE IInv
  OBVIOUS
<1>. USE ParameterAssumption DEF Init, Thread
<1>1. TypeOK
  <2>1. /\ mState \in State /\ mRetryMount \in BOOLEAN /\ mRemoving \in BOOLEAN
        /\ fuse \in BOOLEAN /\ coldbooted \in BOOLEAN
    BY DEF State
  <2>2. /\ pc \in [Thread -> CmdPoints \cup NetPoints]
        /\ pc["cmd"] \in CmdPoints /\ pc["net"] \in NetPoints
    BY DEF CmdPoints, NetPoints
  <2>3. /\ mounts \in Seq(Nat) /\ uevents \in Seq(Uevent)
        /\ nodes \in Seq(Nat \cup {-1}) /\ evt \in Uevent
    BY DEF Uevent, NoUevent
  <2>4. /\ mDiskMinor \in Nat \cup {-1} /\ mDiskNumParts \in Nat
        /\ mPendingPartMap \in 0..MAX_PARTITIONS
        /\ mPartMinors \in [1..MAX_PARTITIONS -> Nat \cup {-1}]
        /\ mPartIdx \in -1..MAX_PARTITIONS
        /\ mCurrentlyMountedKdev \in Nat \cup {-1}
    OBVIOUS
  <2>. QED
    BY <2>1, <2>2, <2>3, <2>4 DEF TypeOK
<1>2. Control
  BY DEF Control, LockHeld, RemovalMarked, RemovalExcludesMount, AttemptLeft, NodeLeft,
         Handling, RemovalPoints, MountPoints, UnmountPoints
<1>. QED
  BY <1>1, <1>2 DEF IInv

(* Every step of Next, and every stutter, keeps both parts of IInv.         *)
LEMMA IInvNext == IInv /\ [Next]_vars => IInv'
  BY ControlNext, TypeNext DEF IInv

(* The inductive invariant is an invariant of the specification.            *)
THEOREM Invariance == Spec => []IInv
  BY IInvInit, IInvNext, PTL DEF Spec

(* Type correctness: mPendingPartMap, for one, never leaves                 *)
(* 0..MAX_PARTITIONS, however many partitions a disk announces.             *)
THEOREM TypeCorrectness == Spec => []TypeOK
<1>1. IInv => TypeOK
  BY DEF IInv
<1>. QED
  BY <1>1, Invariance, PTL

(* mLock makes mountVol_l and unmountVol_l mutually exclusive between the   *)
(* command thread and the net thread.                                       *)
THEOREM MutualExclusion == Spec => []OneAtATime
<1>1. IInv => OneAtATime
  BY DEF IInv, TypeOK, Control, LockHeld, OneAtATime, Thread
<1>. QED
  BY <1>1, Invariance, PTL

(* A removal that has begun has no mount beside it: setRemoveState(1) waits *)
(* for the one under way, and mRemoving turns the later ones away.          *)
THEOREM RemovalExclusion == Spec => []RemovalExcludesMount
<1>1. IInv => RemovalExcludesMount
  BY DEF IInv, Control
<1>. QED
  BY <1>1, Invariance, PTL

(* Nothing is mounted while a removal is being handled: no step made while  *)
(* mRemoving is set lengthens the stack of mounts.                          *)
LEMMA RemovalStep ==
  ASSUME IInv, [Next]_vars, mRemoving
  PROVE  Len(mounts') <= Len(mounts)
<1>1. Len(mounts) \in Nat
  BY DEF IInv, TypeOK
<1>2. \A t \in Thread : pc[t] \notin MountPoints
  BY DEF IInv, Control, RemovalMarked, RemovalExcludesMount, Handling
<1>3. ASSUME NEW t \in Thread, MountOrUnmount(t)
      PROVE  Len(mounts') <= Len(mounts)
  <2>1. pc[t] \notin {"mount_stale", "mount_try", "mount_finish"}
    BY <1>2 DEF MountPoints
  <2>2. \/ mounts' = mounts
        \/ UnmountSucceeds(t)
    BY <1>3, <2>1
       DEF MountOrUnmount, MountRefused, MountBegin, MountClearsStale, MountTryFails,
           MountTryMounts, MountAsecFails, MountFinish, UnmountRefused, UnmountBegin,
           UnmountFails, UnshareWritesLun, mountVars
  <2>3. CASE UnmountSucceeds(t)
    BY <2>3, PoppedTyped DEF UnmountSucceeds, IInv, TypeOK
  <2>. QED
    BY <1>1, <2>2, <2>3
<1>4. CASE StartCommand
  BY <1>1, <1>4
     DEF StartCommand, StartMount, StartUnmount, StartFormat, StartShare, StartUnshare, mountVars
<1>5. CASE CmdStep
  BY <1>1, <1>3, <1>5
     DEF CmdStep, FormatChecksMounts, FormatEnds, ShareWritesLun, mountVars, Thread
<1>6. CASE NetStep
  BY <1>1, <1>3, <1>6
     DEF NetStep, EventIgnored, DiskAdded, PartitionAdded, InitMountpoint, NotifyInserted,
         DiskChanged, DiskRemoved, PartitionRemoved, Removed, RemoveBegin, RemoveChecksShare,
         UnmountUnshare, RemoveEnd, RemoveUnlock, mountVars, Thread
<1>7. CASE Kernel
  BY <1>1, <1>7
     DEF Kernel, PlugDisk, UnplugDisk, RepartitionDisk, MediaChange, Coldboot,
         PlugDuringColdboot, KernelStep, mountVars
<1>8. CASE UNCHANGED vars
  BY <1>1, <1>8 DEF vars, mountVars
<1>. QED
  BY <1>4, <1>5, <1>6, <1>7, <1>8 DEF Next

(* No filesystem is mounted while a removal is being handled.               *)
NoMountDuringRemoval == [][mRemoving => Len(mounts') <= Len(mounts)]_vars

(* While a removal is being handled no step of any thread mounts anything.  *)
THEOREM RemovalMountsNothing == Spec => NoMountDuringRemoval
<1>1. IInv /\ [Next]_vars => [mRemoving => Len(mounts') <= Len(mounts)]_vars
  BY RemovalStep
<1>. QED
  BY <1>1, Invariance, PTL DEF Spec, NoMountDuringRemoval

-----------------------------------------------------------------------------
(* What a volume that is Mounted has mounted, when nothing is formatted.    *)

\* The topmost filesystem is the one mCurrentlyMountedKdev names.
OnTop == mounts # <<>> /\ mounts[Len(mounts)] = mCurrentlyMountedKdev

\* The points of mountVol_l and unmountVol_l that rely on it.
TopPoints == {"mount_finish", "unmount_run"}

(* mState says Mounted only while mLock is free: whoever holds mLock has    *)
(* moved it on, and nobody else moves it back.                              *)
TopInv ==
  /\ mState = "Mounted" => OnTop /\ mLock = "none"
  /\ \A t \in Thread : pc[t] \in TopPoints => OnTop
  /\ pc["cmd"] \notin {"format_check", "format_run"}

(* setState moves to the state it is given.                                 *)
LEMMA MovedState ==
  /\ \A s, new : Moved(s, new).state = new
  /\ \A new : SetState(new) => mState' = new
<1>1. \A s, new : Moved(s, new).state = new
  BY DEF Moved
<1>. QED
  BY <1>1 DEF SetState, Becomes

\* A step that leaves mLock and the mounts alone, and reports nothing Mounted.
Aside ==
  /\ UNCHANGED <<mounts, mCurrentlyMountedKdev, mLock>>
  /\ mState' = "Mounted" => mState = "Mounted"
  /\ \A t \in Thread : pc'[t] \in TopPoints => pc[t] \in TopPoints
  /\ pc'["cmd"] \notin {"format_check", "format_run"}

(* Such a step keeps TopInv.                                                *)
LEMMA AsideTop ==
  ASSUME TopInv, Aside
  PROVE  TopInv'
  BY DEF TopInv, Aside, OnTop

(* A step of mountVol, of unmountVol or of an unshare by either thread.     *)
LEMMA TopCall ==
  ASSUME IInv, TopInv, NEW t \in Thread, MountOrUnmount(t)
  PROVE  TopInv'
<1>. USE DEF Thread, TopPoints, Goto
<1>1. pc \in [Thread -> CmdPoints \cup NetPoints] /\ mounts \in Seq(Nat)
  BY DEF IInv, TypeOK
<1>2. \A u \in Thread : mLock = u <=> pc[u] \in MountPoints \cup UnmountPoints
  BY DEF IInv, Control, LockHeld
<1>3. "Idle" # "Mounted" /\ \A s, new : Moved(s, new).state = new
  BY MovedState
<1>4. CASE MountRefused(t)
  <2>1. Aside
    BY <1>1, <1>4, <1>2 DEF MountRefused, MountReturns, Aside, TopInv, lockVars, mountVars
  <2>. QED
    BY <2>1, AsideTop
<1>5. CASE MountBegin(t)
  <2>1. mState' \in {"Idle", "Checking"}
    BY <1>5, MovedState DEF MountBegin, MayMount, ConsiderNodes, stateVars
  <2>2. /\ \A u \in Thread : pc[u] \notin MountPoints \cup UnmountPoints
        /\ pc'[t] \in {"mount_stale", "mount_try"} /\ \A u \in Thread : u # t => pc'[u] = pc[u]
    BY <1>1, <1>2, <1>5 DEF MountBegin, ConsiderNodes, LockFree
  <2>. QED
    BY <2>1, <2>2 DEF TopInv, MountPoints, UnmountPoints
<1>6. CASE MountClearsStale(t)
  <2>1. mState' = "Checking"
    BY <1>6, MovedState DEF MountClearsStale, ConsiderNodes
  <2>2. /\ \A u \in Thread : u # t => pc[u] \notin MountPoints \cup UnmountPoints
        /\ pc'[t] = "mount_try" /\ \A u \in Thread : u # t => pc'[u] = pc[u]
    BY <1>1, <1>2, <1>6 DEF MountClearsStale, ConsiderNodes, MountPoints
  <2>. QED
    BY <2>1, <2>2 DEF TopInv, MountPoints, UnmountPoints
<1>7. CASE MountTryFails(t)
  <2>1. mState' # "Mounted"
    <3>1. mState # "Mounted"
      BY <1>2, <1>7 DEF MountTryFails, TopInv, MountPoints
    <3>. QED
      BY <1>3, <1>7, <3>1 DEF MountTryFails, Becomes, Current
  <2>2. \A u \in Thread : pc'[u] \in TopPoints => pc[u] \in TopPoints
    BY <1>1, <1>7 DEF MountTryFails, MountReturns
  <2>3. UNCHANGED <<mounts, mCurrentlyMountedKdev>>
    BY <1>7 DEF MountTryFails, mountVars
  <2>4. pc'["cmd"] \notin {"format_check", "format_run"}
    BY <1>1, <1>7 DEF MountTryFails, MountReturns, TopInv
  <2>. QED
    BY <2>1, <2>2, <2>3, <2>4 DEF TopInv, OnTop
<1>8. CASE MountTryMounts(t)
  <2>1. mState' = mState /\ mState # "Mounted"
    BY <1>2, <1>8 DEF MountTryMounts, TopInv, MountPoints, stateVars
  <2>2. OnTop'
    <3>1. Head(nodes) \in Nat
      BY <1>8 DEF MountTryMounts, IInv, TypeOK
    <3>2. mounts' = Append(mounts, Head(nodes)) /\ mCurrentlyMountedKdev' = Head(nodes)
      BY <1>8 DEF MountTryMounts, MountedNode
    <3>. QED
      BY <1>1, <3>1, <3>2 DEF OnTop
  <2>3. pc'["cmd"] \notin {"format_check", "format_run"}
    BY <1>1, <1>8 DEF MountTryMounts, TopInv
  <2>. QED
    BY <2>1, <2>2, <2>3 DEF TopInv
<1>9. CASE MountAsecFails(t)
  <2>1. mState' = "Idle"
    BY <1>9, MovedState DEF MountAsecFails
  <2>2. \A u \in Thread : pc'[u] \notin TopPoints
    BY <1>1, <1>2, <1>9 DEF MountAsecFails, MountReturns, MountPoints, UnmountPoints
  <2>3. pc'["cmd"] \notin {"format_check", "format_run"}
    BY <1>1, <1>9 DEF MountAsecFails, MountReturns, TopInv
  <2>. QED
    BY <2>1, <2>2, <2>3 DEF TopInv
<1>10. CASE MountFinish(t)
  <2>1. mState # "Mounted" /\ OnTop
    BY <1>2, <1>10 DEF MountFinish, TopInv, MountPoints
  <2>2. mState' = "Mounted" => UNCHANGED mounts
    BY <1>3, <1>10, <2>1 DEF MountFinish, Becomes, Current
  <2>3. \A u \in Thread : pc'[u] \notin TopPoints
    BY <1>1, <1>2, <1>10 DEF MountFinish, MountReturns, MountPoints, UnmountPoints
  <2>4. mLock' = "none" /\ UNCHANGED mCurrentlyMountedKdev
    BY <1>10 DEF MountFinish
  <2>5. pc'["cmd"] \notin {"format_check", "format_run"}
    BY <1>1, <1>10 DEF MountFinish, MountReturns, TopInv
  <2>. QED
    BY <2>1, <2>2, <2>3, <2>4, <2>5 DEF TopInv, OnTop
<1>11. CASE UnmountRefused(t)
  <2>1. Aside
    BY <1>1, <1>11
       DEF UnmountRefused, UnmountReturns, Aside, TopInv, lockVars, mountVars, volumeVars
  <2>. QED
    BY <2>1, AsideTop
<1>12. CASE UnmountBegin(t)
  <2>1. mState' = "Unmounting" /\ OnTop /\ UNCHANGED <<mounts, mCurrentlyMountedKdev>>
    BY <1>12, MovedState DEF UnmountBegin, TopInv
  <2>2. pc'["cmd"] \notin {"format_check", "format_run"}
    BY <1>1, <1>12 DEF UnmountBegin, TopInv
  <2>. QED
    BY <2>1, <2>2 DEF TopInv, OnTop
<1>13. CASE UnmountSucceeds(t)
  <2>1. mState' = "Idle"
    BY <1>13, MovedState DEF UnmountSucceeds
  <2>2. \A u \in Thread : pc'[u] \notin TopPoints
    BY <1>1, <1>2, <1>13 DEF UnmountSucceeds, UnmountReturns, MountPoints, UnmountPoints
  <2>3. pc'["cmd"] \notin {"format_check", "format_run"}
    BY <1>1, <1>13 DEF UnmountSucceeds, UnmountReturns, TopInv
  <2>. QED
    BY <2>1, <2>2, <2>3 DEF TopInv
<1>14. CASE UnmountFails(t)
  <2>1. OnTop /\ UNCHANGED <<mounts, mCurrentlyMountedKdev>> /\ mLock' = "none"
    BY <1>14 DEF UnmountFails, TopInv
  <2>2. pc'["cmd"] \notin {"format_check", "format_run"}
    BY <1>1, <1>14 DEF UnmountFails, UnmountReturns, TopInv
  <2>. QED
    BY <2>1, <2>2 DEF TopInv, OnTop
<1>15. CASE UnshareWritesLun(t)
  <2>1. Aside
    <3>1. mState' = "Mounted" => mState = "Mounted"
      BY <1>15, MovedState DEF UnshareWritesLun, stateVars
    <3>2. \A u \in Thread : pc'[u] \in TopPoints => pc[u] \in TopPoints
      BY <1>1, <1>15 DEF UnshareWritesLun, AfterUnshare
    <3>3. pc'["cmd"] \notin {"format_check", "format_run"}
      BY <1>1, <1>15 DEF UnshareWritesLun, AfterUnshare, TopInv
    <3>. QED
      BY <1>15, <3>1, <3>2, <3>3 DEF UnshareWritesLun, Aside, lockVars, mountVars
  <2>. QED
    BY <2>1, AsideTop
<1>. QED
  BY <1>4, <1>5, <1>6, <1>7, <1>8, <1>9, <1>10, <1>11, <1>12, <1>13, <1>14, <1>15
     DEF MountOrUnmount

(* No other step mounts, unmounts or reports a volume as Mounted, when no   *)
(* command formats.                                                         *)
LEMMA OthersAside ==
  ASSUME IInv, TopInv, "format" \notin Commands, [Next]_vars,
         \A t \in Thread : ~MountOrUnmount(t)
  PROVE  Aside
<1>. USE DEF Thread, TopPoints, Goto, Aside, TopInv, lockVars, mountVars, stateVars, volumeVars
<1>1. pc \in [Thread -> CmdPoints \cup NetPoints]
  BY DEF IInv, TypeOK
<1>2. CASE StartCommand
  BY <1>1, <1>2
     DEF StartCommand, StartMount, StartUnmount, StartFormat, StartShare, StartUnshare
<1>3. CASE CmdStep
  <2>1. ShareWritesLun
    BY <1>3 DEF CmdStep, FormatChecksMounts, FormatEnds
  <2>. QED
    BY <1>1, <2>1, MovedState DEF ShareWritesLun
<1>4. CASE NetStep
  <2>1. CASE EventIgnored
    BY <1>1, <2>1 DEF EventIgnored
  <2>2. CASE DiskAdded
    BY <1>1, <2>2, MovedState DEF DiskAdded, Reading
  <2>3. CASE PartitionAdded
    BY <1>1, <2>3 DEF PartitionAdded, Reading
  <2>4. CASE InitMountpoint
    BY <1>1, <2>4, MovedState DEF InitMountpoint, Initialised, Becomes, Current
  <2>5. CASE NotifyInserted
    BY <1>1, <2>5 DEF NotifyInserted
  <2>6. CASE DiskChanged
    BY <1>1, <2>6, MovedState DEF DiskChanged, Reading
  <2>7. CASE DiskRemoved \/ PartitionRemoved
    BY <1>1, <2>7 DEF DiskRemoved, PartitionRemoved, Removed, Reading
  <2>8. CASE RemoveBegin
    BY <1>1, <2>8 DEF RemoveBegin
  <2>9. CASE RemoveChecksShare
    BY <1>1, <2>9 DEF RemoveChecksShare, AfterUnshare
  <2>10. CASE UnmountUnshare
    BY <1>1, <2>10 DEF UnmountUnshare
  <2>11. CASE RemoveEnd
    BY <1>1, <2>11, MovedState DEF RemoveEnd
  <2>12. CASE RemoveUnlock
    BY <1>1, <2>12 DEF RemoveUnlock
  <2>. QED
    BY <1>4, <2>1, <2>2, <2>3, <2>4, <2>5, <2>6, <2>7, <2>8, <2>9, <2>10, <2>11, <2>12
       DEF NetStep
<1>5. CASE Kernel
  BY <1>1, <1>5
     DEF Kernel, PlugDisk, UnplugDisk, RepartitionDisk, MediaChange, Coldboot,
         PlugDuringColdboot, KernelStep
<1>6. CASE UNCHANGED vars
  BY <1>1, <1>6 DEF vars
<1>. QED
  BY <1>2, <1>3, <1>4, <1>5, <1>6 DEF Next

(* A volume that is reported as Mounted has the device mounted on top whose *)
(* removal UnmountUnshare looks for, although mState is read and written by *)
(* both threads without a lock.  With a format command this is false: it    *)
(* calls a volume Mounted because something is mounted on its directory.    *)
THEOREM MountedIsOnTop ==
  ASSUME "format" \notin Commands
  PROVE  Spec => []MountedIsMounted
<1>1. Init => TopInv
  BY DEF Init, TopInv, Thread, TopPoints
<1>2. IInv /\ TopInv /\ [Next]_vars => TopInv'
  BY TopCall, OthersAside, AsideTop
<1>3. TopInv => MountedIsMounted
  BY DEF TopInv, OnTop, MountedIsMounted
<1>. QED
  BY <1>1, <1>2, <1>3, Invariance, PTL DEF Spec

=============================================================================
