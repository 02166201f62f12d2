--------------------- MODULE DirectVolumeRemovalProofs ---------------------
(***************************************************************************)
(* The theorem about DirectVolume that every disk which goes away ends up  *)
(* unmounted, while the framework mounts and the kernel plugs disks in and *)
(* out.                                                                    *)
(*                                                                         *)
(* The uevents of a disk follow one another in an order that is known from *)
(* the start: the life of the disk.  LifeInv says how much of it has been  *)
(* read, and what the volume may be doing then: until the last partition   *)
(* is there nothing is mounted, and what is mounted from then on is still  *)
(* to be removed.                                                          *)
(***************************************************************************)
EXTENDS DirectVolumeEventsProofs

\* The framework mounts, disks come and go, umount2 succeeds in the end and
\* filesystems are on the partitions of a disk that has any.
HotplugAssumption ==
  /\ Commands \subseteq {"mount"} /\ KernelChanges \subseteq {"unplug"}
  /\ ~UnmountMayFail /\ ~HybridDisks

\* The j-th uevent of a disk d of n partitions, from its plugging to the end.
LifeEvent(d, n, j) ==
  IF j = 1 THEN DiskEvent("add", d, n)
  ELSE IF j <= n + 1
       THEN [action |-> "add", type |-> "partition", minor |-> d + (j - 1), num |-> j - 1]
  ELSE IF j <= 2 * n + 1
       THEN [action |-> "remove", type |-> "partition", minor |-> d + (j - n - 1), num |-> j - n - 1]
  ELSE DiskEvent("remove", d, 0)

\* How many of them the kernel has sent.
Sent(n) == IF plugged = -1 THEN 2 * n + 2 ELSE n + 1

\* The one that removes the device m.
RemovalAt(d, n, m) == n + 1 + (IF n = 0 THEN 1 ELSE m - d)

\* Points of a removal from which the mounted device is still unmounted.
UnmountingPoints == {"rm_lock", "rm_share", "rm_unmount", "unmount_lock", "unmount_run"}

\* k events of the disk have been read and the others wait.
Queued(d, n, k) ==
  /\ k <= Sent(n)
  /\ plugged # -1 => plugged = d /\ kernelParts = n
  /\ Len(uevents) = Sent(n) - k
  /\ \A i \in 1..Len(uevents) : uevents[i] = LifeEvent(d, n, k + i)

\* What the volume has made of the k events.
Early(n, k) == k < n + 1 \/ pc["net"] = "init"
Taken(d, n, k) ==
  /\ k = 0 => mDiskMinor = -1
  /\ k > 0 => mDiskMinor = d /\ mDiskNumParts = n /\ evt = LifeEvent(d, n, k)
  /\ k < n + 1 => pc["net"] \in {"idle", "notify"}
  /\ k <= n + 1 => pc["net"] \notin Handling \cup {"rm_lock"}
  /\ k > n + 1 => pc["net"] # "init"
  /\ Early(n, k) => mState \in {"NoMedia", "Pending"} /\ mLock = "none" /\ mounts = <<>>
  /\ \A p \in 1..MAX_PARTITIONS : p >= k => mPartMinors[p] = -1
  /\ mounts # <<>> =>
       /\ mCurrentlyMountedKdev \in CarriersOf(d, n)
       /\ \/ k < RemovalAt(d, n, mCurrentlyMountedKdev)
          \/ /\ k = RemovalAt(d, n, mCurrentlyMountedKdev)
             /\ pc["net"] \in UnmountingPoints /\ (pc["net"] = "rm_share" => n = 0)

\* There is no disk, and nothing is left of the last one.
Rest ==
  /\ plugged = -1 /\ uevents = <<>> /\ mDiskMinor = -1 /\ mounts = <<>>
  /\ \A p \in 1..MAX_PARTITIONS : mPartMinors[p] = -1

LifeInv ==
  \/ Rest
  \/ \E d \in Nat, n \in 0..MinorSpan, k \in Nat : Queued(d, n, k) /\ Taken(d, n, k)

\* A filesystem is mounted once, on a volume that is Mounted unless the call
\* that mounts or unmounts it is under way; what can be mounted is on the disk.
OnceInv ==
  /\ mState \notin {"Shared", "Formatting"} /\ pc["net"] \notin {"rm_unshare", "uu_unshare"}
  /\ mPartIdx > 0 => mPartMinors[mPartIdx] # -1
  /\ IF plugged = -1 THEN filesystems = {}
     ELSE filesystems \subseteq CarriersOf(plugged, kernelParts)
  /\ mounts # <<>> =>
       Len(mounts) = 1 /\ (mState = "Mounted" \/ \E t \in Thread : pc[t] \in TopPoints)
  /\ \A t \in Thread : pc[t] # "mount_stale" /\ (pc[t] = "mount_try" => mounts = <<>>)

\* The invariants of the other modules.
Known == IInv /\ TopInv /\ EventInv /\ SlotInv

-----------------------------------------------------------------------------
(* The life of a disk.                                                      *)

(* The kernel has sent some events, and what it sends is a uevent.          *)
LEMMA SentTyped ==
  ASSUME NEW n \in Nat
  PROVE  Sent(n) \in Nat /\ Sent(n) <= 2 * n + 2 /\ Sent(n) >= n + 1
         /\ (plugged # -1 => Sent(n) = n + 1) /\ (plugged = -1 => Sent(n) = 2 * n + 2)
  BY DEF Sent

(* What each event of the life of a disk is.                                *)
LEMMA LifeEvents ==
  ASSUME NEW d \in Nat, NEW n \in 0..MinorSpan, NEW j \in 1..(2 * n + 2)
  PROVE  /\ LifeEvent(d, n, j).action = IF j <= n + 1 THEN "add" ELSE "remove"
         /\ LifeEvent(d, n, j).type = IF j = 1 \/ j = 2 * n + 2 THEN "disk" ELSE "partition"
         /\ j = 1 => LifeEvent(d, n, j).minor = d /\ LifeEvent(d, n, j).num = n
         /\ j = 2 * n + 2 => LifeEvent(d, n, j).minor = d
         /\ 1 < j /\ j <= n + 1 =>
              LifeEvent(d, n, j).minor = d + (j - 1) /\ LifeEvent(d, n, j).num = j - 1
         /\ n + 1 < j /\ j <= 2 * n + 1 => LifeEvent(d, n, j).minor = d + (j - n - 1)
<1>1. n \in Nat
  BY ParameterAssumption
<1>2. CASE j = 1
  BY <1>1, <1>2 DEF LifeEvent, DiskEvent
<1>3. CASE 1 < j /\ j <= n + 1
  <2>1. LifeEvent(d, n, j) =
          [action |-> "add", type |-> "partition", minor |-> d + (j - 1), num |-> j - 1]
    BY <1>1, <1>3 DEF LifeEvent
  <2>. QED
    BY <1>1, <1>3, <2>1
<1>4. CASE n + 1 < j /\ j <= 2 * n + 1
  <2>1. LifeEvent(d, n, j) =
          [action |-> "remove", type |-> "partition", minor |-> d + (j - n - 1), num |-> j - n - 1]
    BY <1>1, <1>4 DEF LifeEvent
  <2>. QED
    BY <1>1, <1>4, <2>1
<1>5. CASE j = 2 * n + 2
  <2>1. LifeEvent(d, n, j) = DiskEvent("remove", d, 0)
    BY <1>1, <1>5 DEF LifeEvent
  <2>. QED
    BY <1>1, <1>5, <2>1 DEF DiskEvent
<1>. QED
  BY <1>1, <1>2, <1>3, <1>4, <1>5

(* The removal of a device is among them, after all additions.              *)
LEMMA RemovalEvent ==
  ASSUME NEW d \in Nat, NEW n \in 0..MinorSpan, NEW m \in CarriersOf(d, n), ~HybridDisks
  PROVE  /\ RemovalAt(d, n, m) \in (n + 2)..(2 * n + 2)
         /\ n # 0 => RemovalAt(d, n, m) <= 2 * n + 1
         /\ LifeEvent(d, n, RemovalAt(d, n, m)).minor = m
<1>1. n \in Nat
  BY ParameterAssumption
<1>2. CASE n = 0
  <2>1. m = d /\ RemovalAt(d, n, m) = 2 /\ 2 * n + 2 = 2 /\ n + 2 = 2
    BY <1>1, <1>2 DEF CarriersOf, DevicesOf, RemovalAt
  <2>2. 2 \in 1..(2 * n + 2)
    BY <2>1
  <2>3. LifeEvent(d, n, 2).minor = d
    BY <2>1, <2>2, LifeEvents
  <2>. QED
    BY <1>2, <2>1, <2>3
<1>3. CASE n # 0
  <2>1. m - d \in 1..n /\ m \in Nat
    BY <1>1, <1>3 DEF CarriersOf, DevicesOf
  <2>2. RemovalAt(d, n, m) = n + 1 + (m - d)
    BY <1>3 DEF RemovalAt
  <2>. DEFINE j == n + 1 + (m - d)
  <2>3. j \in 1..(2 * n + 2) /\ n + 1 < j /\ j <= 2 * n + 1 /\ j - n - 1 = m - d
        /\ d + (m - d) = m
    BY <1>1, <2>1
  <2>. HIDE DEF j
  <2>4. LifeEvent(d, n, j).minor = d + (j - n - 1)
    BY <2>3, LifeEvents
  <2>. QED
    BY <1>1, <2>1, <2>2, <2>3, <2>4 DEF j
<1>. QED
  BY <1>2, <1>3

(* The next event is the next of the life of the disk, and it has a handler.*)
LEMMA NextEvent ==
  ASSUME TypeOK, NEW d \in Nat, NEW n \in 0..MinorSpan, NEW k \in Nat,
         Queued(d, n, k), Taken(d, n, k), uevents # <<>>
  PROVE  /\ k + 1 <= Sent(n) /\ k + 1 \in 1..(2 * n + 2)
         /\ Head(uevents) = LifeEvent(d, n, k + 1)
         /\ ~Filtered(Head(uevents))
<1>1. n \in Nat /\ MinorSpan \in Nat
  BY ParameterAssumption
<1>2. Len(uevents) \in Nat \ {0} /\ Head(uevents) = uevents[1]
  BY EmptySeq DEF TypeOK
<1>3. k + 1 <= Sent(n) /\ k + 1 \in 1..(2 * n + 2)
  <2>1. Sent(n) \in Nat /\ Sent(n) <= 2 * n + 2
    BY <1>1, SentTyped
  <2>2. Len(uevents) = Sent(n) - k
    BY DEF Queued
  <2>. QED
    BY <1>1, <1>2, <2>1, <2>2
<1>4. Head(uevents) = LifeEvent(d, n, k + 1)
  <2>1. 1 \in 1..Len(uevents)
    BY <1>2
  <2>. QED
    BY <1>2, <2>1 DEF Queued
<1>5. ~Filtered(LifeEvent(d, n, k + 1))
  <2>. DEFINE e == LifeEvent(d, n, k + 1)
  <2>1. CASE k = 0
    <3>1. e.type = "disk" /\ e.action = "add" /\ mDiskMinor = -1
      BY <1>1, <1>3, <2>1, LifeEvents DEF Taken
    <3>. QED
      BY <3>1 DEF Filtered
  <2>2. CASE k > 0
    <3>1. mDiskMinor = d
      BY <2>2 DEF Taken
    <3>2. CASE k + 1 = 2 * n + 2
      <4>1. e.type = "disk" /\ e.action = "remove" /\ e.minor = d
        BY <1>1, <1>3, <2>2, <3>2, LifeEvents
      <4>. QED
        BY <3>1, <4>1 DEF Filtered
    <3>3. CASE k + 1 # 2 * n + 2
      <4>1. e.type = "partition"
        BY <1>1, <1>3, <2>2, <3>3, LifeEvents
      <4>2. e.minor \in d..(d + MinorSpan)
        <5>1. CASE k + 1 <= n + 1
          <6>1. e.minor = d + (k + 1 - 1)
            BY <1>1, <1>3, <2>2, <5>1, LifeEvents
          <6>. QED
            BY <1>1, <5>1, <6>1
        <5>2. CASE n + 1 < k + 1
          <6>1. k + 1 <= 2 * n + 1
            BY <1>1, <1>3, <3>3
          <6>2. e.minor = d + (k + 1 - n - 1)
            BY <1>1, <1>3, <2>2, <5>2, <6>1, LifeEvents
          <6>. QED
            BY <1>1, <5>2, <6>1, <6>2
        <5>. QED
          BY <1>1, <5>1, <5>2
      <4>3. InRange(e.minor)
        BY <3>1, <4>2 DEF InRange
      <4>. QED
        BY <4>1, <4>3 DEF Filtered
    <3>. QED
      BY <3>2, <3>3
  <2>. QED
    BY <2>1, <2>2
<1>. QED
  BY <1>3, <1>4, <1>5

(* Reading it leaves the events behind it.                                  *)
LEMMA QueuedTail ==
  ASSUME TypeOK, NEW d \in Nat, NEW n \in 0..MinorSpan, NEW k \in Nat,
         Queued(d, n, k), uevents # <<>>, uevents' = Tail(uevents),
         UNCHANGED <<plugged, kernelParts>>
  PROVE  Queued(d, n, k + 1)'
<1>1. n \in Nat /\ Sent(n) \in Nat /\ Sent(n)' = Sent(n)
  BY ParameterAssumption, SentTyped DEF Sent
<1>2. /\ Len(uevents) \in Nat \ {0} /\ Len(uevents') = Len(uevents) - 1
      /\ \A i \in 1..Len(uevents') : uevents'[i] = uevents[i + 1]
  BY EmptySeq, HeadTailProperties DEF TypeOK
<1>3. k + 1 <= Sent(n)' /\ Len(uevents') = Sent(n)' - (k + 1)
  BY <1>1, <1>2 DEF Queued
<1>4. \A i \in 1..Len(uevents') : uevents'[i] = LifeEvent(d, n, (k + 1) + i)
  <2>. SUFFICES ASSUME NEW i \in 1..Len(uevents')
                PROVE  uevents'[i] = LifeEvent(d, n, (k + 1) + i)
    OBVIOUS
  <2>1. i + 1 \in 1..Len(uevents) /\ k + (i + 1) = (k + 1) + i
    BY <1>2
  <2>2. uevents[i + 1] = LifeEvent(d, n, k + (i + 1))
    BY <2>1 DEF Queued
  <2>. QED
    BY <1>2, <2>1, <2>2
<1>5. plugged' # -1 => plugged' = d /\ kernelParts' = n
  BY DEF Queued
<1>. QED
  BY <1>3, <1>4, <1>5 DEF Queued

(* A step that leaves the queue and the kernel alone.                       *)
LEMMA QueuedSame ==
  ASSUME NEW d, NEW n, NEW k, Queued(d, n, k), UNCHANGED <<uevents, plugged, kernelParts>>
  PROVE  Queued(d, n, k)'
  BY DEF Queued, Sent

(* A disk is plugged in: all its additions wait.                            *)
LEMMA QueuedPlug ==
  ASSUME NEW d \in Nat, NEW n \in 0..MinorSpan, plugged' = d, kernelParts' = n,
         uevents = <<>>, uevents' = uevents \o AddEvents(d, n)
  PROVE  Queued(d, n, 0)'
<1>1. n \in Nat
  BY ParameterAssumption
<1>2. AddEvents(d, n) \in Seq(Uevent) /\ uevents' = AddEvents(d, n)
  BY <1>1, AddEventsTyped
<1>3. Len(AddEvents(d, n)) = n + 1
  <2>1. <<DiskEvent("add", d, n)>> \in Seq(Uevent) /\ PartEvents("add", d, n) \in Seq(Uevent)
    BY <1>1, DiskEventTyped, PartEventsTyped
  <2>2. Len(<<DiskEvent("add", d, n)>>) = 1 /\ Len(PartEvents("add", d, n)) = n
    BY <1>1 DEF PartEvents
  <2>3. ASSUME NEW s1 \in Seq(Uevent), NEW s2 \in Seq(Uevent)
        PROVE  Len(s1 \o s2) = Len(s1) + Len(s2)
    BY ConcatProperties
  <2>4. Len(AddEvents(d, n)) = 1 + n
    BY <2>1, <2>2, <2>3, Zenon DEF AddEvents
  <2>. QED
    BY <1>1, <2>4
<1>4. Sent(n)' = n + 1
  BY DEF Sent
<1>5. \A i \in 1..(n + 1) : AddEvents(d, n)[i] = LifeEvent(d, n, 0 + i)
  <2>. SUFFICES ASSUME NEW i \in 1..(n + 1)
                PROVE  AddEvents(d, n)[i] = LifeEvent(d, n, 0 + i)
    OBVIOUS
  <2>1. 0 + i = i
    OBVIOUS
  <2>2. LifeEvent(d, n, i) =
          IF i = 1 THEN DiskEvent("add", d, n)
          ELSE [action |-> "add", type |-> "partition", minor |-> d + (i - 1), num |-> i - 1]
    BY DEF LifeEvent
  <2>3. AddEvents(d, n)[i] =
          IF i = 1 THEN DiskEvent("add", d, n)
          ELSE [action |-> "add", type |-> "partition", minor |-> d + (i - 1), num |-> i - 1]
    BY <1>1, AddEventsAt
  <2>. QED
    BY <2>1, <2>2, <2>3
<1>. QED
  BY <1>1, <1>2, <1>3, <1>4, <1>5 DEF Queued

(* The disk is unplugged: its removals follow.                              *)
LEMMA QueuedUnplug ==
  ASSUME TypeOK, NEW d \in Nat, NEW n \in 0..MinorSpan, NEW k \in Nat, Queued(d, n, k),
         plugged # -1, UnplugDisk
  PROVE  Queued(d, n, k)' /\ k <= n + 1
<1>1. n \in Nat /\ plugged = d /\ kernelParts = n /\ plugged' = -1 /\ kernelParts' = 0
  BY ParameterAssumption DEF Queued, UnplugDisk
<1>2. Sent(n) = n + 1 /\ Sent(n)' = 2 * n + 2
  BY <1>1 DEF Sent
<1>. DEFINE p == PartEvents("remove", d, n)
            e == DiskEvent("remove", d, 0)
            q == uevents \o p
<1>3. /\ p \in Seq(Uevent) /\ Len(p) = n
      /\ \A i \in 1..n : p[i] = [action |-> "remove", type |-> "partition", minor |-> d + i, num |-> i]
  BY <1>1, PartEventsTyped DEF PartEvents
<1>4. <<e>> \in Seq(Uevent) /\ Len(<<e>>) = 1 /\ <<e>>[1] = e
  BY DiskEventTyped
<1>5. uevents' = q \o <<e>>
  BY <1>1 DEF UnplugDisk
<1>6. uevents \in Seq(Uevent) /\ Len(uevents) \in Nat
  BY DEF TypeOK
<1>. HIDE DEF p, e
<1>7. /\ q \in Seq(Uevent) /\ Len(q) = Len(uevents) + n
      /\ \A i \in 1..Len(q) : q[i] = IF i <= Len(uevents) THEN uevents[i] ELSE p[i - Len(uevents)]
  <2>1. /\ q \in Seq(Uevent) /\ Len(q) = Len(uevents) + Len(p)
        /\ \A i \in 1..(Len(uevents) + Len(p)) :
             q[i] = IF i <= Len(uevents) THEN uevents[i] ELSE p[i - Len(uevents)]
    BY <1>3, <1>6, ConcatProperties, Zenon
  <2>. QED
    BY <1>3, <2>1
<1>. HIDE DEF q
<1>8. /\ Len(uevents') = Len(uevents) + n + 1
      /\ \A i \in 1..Len(uevents') :
           uevents'[i] = IF i <= Len(q) THEN q[i] ELSE <<e>>[i - Len(q)]
  <2>1. /\ Len(q \o <<e>>) = Len(q) + Len(<<e>>)
        /\ \A i \in 1..(Len(q) + Len(<<e>>)) :
             (q \o <<e>>)[i] = IF i <= Len(q) THEN q[i] ELSE <<e>>[i - Len(q)]
    BY <1>4, <1>7, ConcatProperties
  <2>. QED
    BY <1>4, <1>5, <1>7, <2>1
<1>9. Len(uevents) = n + 1 - k /\ k <= n + 1
  BY <1>2 DEF Queued
<1>10. \A i \in 1..Len(uevents') : uevents'[i] = LifeEvent(d, n, k + i)
  <2>. SUFFICES ASSUME NEW i \in 1..Len(uevents')
                PROVE  uevents'[i] = LifeEvent(d, n, k + i)
    OBVIOUS
  <2>1. CASE i <= Len(uevents)
    <3>1. uevents'[i] = uevents[i] /\ i \in 1..Len(uevents)
      BY <1>1, <1>6, <1>7, <1>8, <2>1
    <3>. QED
      BY <3>1 DEF Queued
  <2>2. CASE Len(uevents) < i /\ i <= Len(uevents) + n
    <3>. DEFINE h == i - Len(uevents)
    <3>1. uevents'[i] = p[h] /\ h \in 1..n /\ h = k + i - n - 1
          /\ k + i # 1 /\ ~(k + i <= n + 1) /\ k + i <= 2 * n + 1
      BY <1>1, <1>6, <1>7, <1>8, <1>9, <2>2
    <3>2. LifeEvent(d, n, k + i) =
            [action |-> "remove", type |-> "partition", minor |-> d + (k + i - n - 1),
             num |-> k + i - n - 1]
      BY <3>1 DEF LifeEvent
    <3>. HIDE DEF h
    <3>3. p[h] = [action |-> "remove", type |-> "partition", minor |-> d + h, num |-> h]
      BY <1>3, <3>1
    <3>. QED
      BY <3>1, <3>2, <3>3
  <2>3. CASE i = Len(uevents) + n + 1
    <3>1. uevents'[i] = e
      <4>1. ~(i <= Len(q)) /\ i - Len(q) = 1
        BY <1>1, <1>6, <1>7, <2>3
      <4>. QED
        BY <1>4, <1>8, <4>1
    <3>2. LifeEvent(d, n, k + i) = DiskEvent("remove", d, 0)
      <4>1. k + i = 2 * n + 2
        BY <1>1, <1>6, <1>9, <2>3
      <4>2. k + i # 1 /\ ~(k + i <= n + 1) /\ ~(k + i <= 2 * n + 1)
        BY <1>1, <4>1
      <4>. QED
        BY <4>2 DEF LifeEvent
    <3>. QED
      BY <3>1, <3>2 DEF e
  <2>4. \/ i <= Len(uevents)
        \/ Len(uevents) < i /\ i <= Len(uevents) + n
        \/ i = Len(uevents) + n + 1
    <3>1. i \in 1..(Len(uevents) + n + 1)
      BY <1>8
    <3>. QED
      BY <1>1, <1>6, <3>1
  <2>. QED
    BY <2>1, <2>2, <2>3, <2>4
<1>11. k <= Sent(n)' /\ Len(uevents') = Sent(n)' - k
  BY <1>1, <1>2, <1>6, <1>8, <1>9
<1>. QED
  BY <1>1, <1>9, <1>10, <1>11 DEF Queued

-----------------------------------------------------------------------------
(* What a call does to what is mounted.                                     *)

(* Nothing is mounted on a volume without a disk, on one that is being      *)
(* initialised, and at the end of the removal of its disk.                  *)
LEMMA NothingMounted ==
  ASSUME HotplugAssumption, Known, LifeInv
  PROVE  /\ mDiskMinor = -1 \/ pc["net"] = "init"
              => mounts = <<>> /\ mState \in {"NoMedia", "Pending"}
         /\ pc["net"] = "rm_end" /\ evt.type = "disk" => mounts = <<>>
<1>1. CASE Rest
  BY <1>1 DEF Rest, Known, EventInv, AbsentInv
<1>2. CASE ~Rest
  <2>1. PICK d \in Nat, n \in 0..MinorSpan, k \in Nat : Queued(d, n, k) /\ Taken(d, n, k)
    BY <1>2, Zenon DEF LifeInv
  <2>2. n \in Nat /\ k <= 2 * n + 2
    <3>1. n \in Nat
      BY ParameterAssumption
    <3>2. k <= Sent(n) /\ Sent(n) \in Nat /\ Sent(n) <= 2 * n + 2
      BY <2>1, <3>1, SentTyped DEF Queued
    <3>. QED
      BY <3>1, <3>2
  <2>3. ASSUME mDiskMinor = -1 \/ pc["net"] = "init"
        PROVE  Early(n, k)
    <3>1. mDiskMinor = -1 => k = 0
      BY <2>1 DEF Taken
    <3>. QED
      BY <2>2, <2>3, <3>1 DEF Early
  <2>4. ASSUME pc["net"] = "rm_end", evt.type = "disk", mounts # <<>>
        PROVE  FALSE
    <3>1. k > n + 1 /\ evt = LifeEvent(d, n, k)
      BY <2>1, <2>2, <2>4 DEF Taken, Handling, RemovalPoints
    <3>2. k = 2 * n + 2
      <4>1. k \in 1..(2 * n + 2) /\ k # 1
        BY <2>2, <3>1
      <4>2. LifeEvent(d, n, k).type = IF k = 1 \/ k = 2 * n + 2 THEN "disk" ELSE "partition"
        BY <4>1, LifeEvents
      <4>. QED
        BY <2>4, <3>1, <4>1, <4>2
    <3>3. mCurrentlyMountedKdev \in CarriersOf(d, n) /\ pc["net"] \notin UnmountingPoints
          /\ k < RemovalAt(d, n, mCurrentlyMountedKdev)
      BY <2>1, <2>4 DEF Taken, UnmountingPoints
    <3>4. RemovalAt(d, n, mCurrentlyMountedKdev) \in (n + 2)..(2 * n + 2)
      BY <3>3, RemovalEvent DEF HotplugAssumption
    <3>. QED
      BY <2>2, <3>2, <3>3, <3>4
  <2>. QED
    BY <2>1, <2>3, <2>4 DEF Taken
<1>. QED
  BY <1>1, <1>2

(* umount2 takes off a filesystem that is mounted alone.                    *)
LEMMA PoppedAlone ==
  ASSUME OnceInv
  PROVE  Popped = <<>>
<1>1. CASE mounts = <<>>
  BY <1>1 DEF Popped
<1>2. CASE mounts # <<>>
  <2>1. Popped = SubSeq(mounts, 1, 0)
    <3>1. Len(mounts) - 1 = 0
      BY <1>2 DEF OnceInv
    <3>. QED
      BY <1>2, <3>1, Zenon DEF Popped
  <2>2. \A i \in 1..0 : mounts[i] \in {}
    OBVIOUS
  <2>3. SubSeq(mounts, 1, 0) = <<>>
    BY <2>2, SubSeqProperties, EmptySeq
  <2>. QED
    BY <2>1, <2>3
<1>. QED
  BY <1>1, <1>2

\* It unmounts, keeps what is mounted, or mounts what is on the disk.
Keeps(t) ==
  /\ UNCHANGED <<mounts, mCurrentlyMountedKdev>>
  /\ mounts # <<>> /\ t = "net" /\ pc[t] \in UnmountingPoints
       => pc'[t] \in UnmountingPoints \ {"rm_share"}
Mounts ==
  /\ Len(mounts') = 1 /\ mCurrentlyMountedKdev' \in filesystems
  /\ \E u \in Thread : pc'[u] \in TopPoints
Effect(t) ==
  /\ UNCHANGED <<mPartMinors, mPartIdx, filesystems, plugged, kernelParts>>
  /\ mounts' = <<>> \/ Keeps(t) \/ Mounts

\* What the invariant asks of the calls under way.
Clean == \A t \in Thread : pc[t] # "mount_stale" /\ (pc[t] = "mount_try" => mounts = <<>>)

(* The steps of mountVol.                                                   *)
LEMMA MountEffect ==
  ASSUME HotplugAssumption, Known, OnceInv, NEW t \in Thread,
         \/ MountRefused(t) \/ MountBegin(t) \/ MountClearsStale(t) \/ MountTryFails(t)
         \/ MountTryMounts(t) \/ MountAsecFails(t) \/ MountFinish(t)
  PROVE  /\ Effect(t) /\ Clean' /\ mState' \notin {"Shared", "Formatting"}
         /\ mounts' # <<>> =>
              Len(mounts') = 1 /\ (mState' = "Mounted" \/ \E u \in Thread : pc'[u] \in TopPoints)
<1>. USE DEF Thread, Goto, diskVars, lockVars, mountVars, kernelVars, umsVars, stateVars
<1>1. /\ pc \in [Thread -> CmdPoints \cup NetPoints] /\ mounts \in Seq(Nat)
      /\ nodes \in Seq(Nat \cup {-1})
  BY DEF Known, IInv, TypeOK
<1>2. \A u \in Thread : mLock = u <=> pc[u] \in MountPoints \cup UnmountPoints
  BY DEF Known, IInv, Control, LockHeld
<1>3. \A s, new : Moved(s, new).state = new
  BY MovedState
<1>4. mState \notin {"Shared", "Formatting"} /\ ~UnmountMayFail /\ Clean
  BY DEF OnceInv, HotplugAssumption, Clean
<1>5. CASE MountRefused(t)
  <2>1. UNCHANGED <<mounts, mCurrentlyMountedKdev, mState, mPartMinors, mPartIdx, filesystems,
                    plugged, kernelParts>>
    BY <1>5 DEF MountRefused
  <2>2. /\ \A u \in Thread : pc[u] \in TopPoints => pc'[u] \in TopPoints
        /\ \A u \in Thread : pc'[u] # pc[u] => pc'[u] \notin MountPoints
        /\ pc[t] \notin UnmountingPoints
    BY <1>1, <1>5 DEF MountRefused, MountReturns, TopPoints, MountPoints, UnmountingPoints
  <2>3. Keeps(t) /\ Clean'
    BY <1>4, <2>1, <2>2 DEF Keeps, Clean, MountPoints
  <2>. QED
    BY <1>4, <2>1, <2>2, <2>3 DEF Effect, OnceInv
<1>6. CASE MountBegin(t)
  <2>1. mState = "Idle" /\ \A u \in Thread : pc[u] \notin MountPoints \cup UnmountPoints
    BY <1>2, <1>6 DEF MountBegin, MayMount, LockFree
  <2>2. mounts = <<>>
    BY <2>1 DEF OnceInv, TopPoints, MountPoints, UnmountPoints
  <2>3. /\ mounts' = <<>> /\ ConsiderNodes(t) /\ UNCHANGED <<mPartIdx, filesystems, plugged, kernelParts>>
    BY <1>6, <2>2 DEF MountBegin
  <2>4. mPartMinors' = mPartMinors
    BY <2>3 DEF ConsiderNodes, RepairedMinors, OnceInv
  <2>5. mState' = "Checking"
    BY <2>3, MovedState DEF ConsiderNodes
  <2>6. Clean'
    BY <1>1, <1>4, <2>3 DEF Clean, ConsiderNodes
  <2>. QED
    BY <2>3, <2>4, <2>5, <2>6 DEF Effect
<1>7. CASE MountClearsStale(t)
  BY <1>4, <1>7 DEF MountClearsStale, Clean
<1>8. CASE MountTryFails(t)
  <2>1. mounts = <<>> /\ mounts' = mounts
        /\ UNCHANGED <<mPartMinors, mPartIdx, filesystems, plugged, kernelParts>>
    BY <1>4, <1>8 DEF MountTryFails, Clean
  <2>2. mState' \notin {"Shared", "Formatting"}
    <3>1. PICK checkFailed \in BOOLEAN :
            LET s == IF checkFailed THEN Moved(Current, "Idle") ELSE Current
            IN \/ Becomes(Moved(s, "Checking"))
               \/ Becomes(IF s.state # "NoMedia" THEN Moved(s, "Idle") ELSE s)
      BY <1>8, Zenon DEF MountTryFails
    <3>. QED
      BY <1>3, <1>4, <3>1 DEF Becomes, Current
  <2>3. \A u \in Thread : pc'[u] # "mount_stale"
    BY <1>1, <1>4, <1>8 DEF MountTryFails, MountReturns, Clean
  <2>. QED
    BY <2>1, <2>2, <2>3 DEF Effect, Clean
<1>9. CASE MountTryMounts(t)
  <2>1. mounts = <<>> /\ mounts' = Append(mounts, Head(nodes)) /\ mState' = mState
        /\ Head(nodes) \in filesystems /\ mCurrentlyMountedKdev' = Head(nodes)
        /\ UNCHANGED <<mPartMinors, mPartIdx, filesystems, plugged, kernelParts>>
    BY <1>4, <1>9 DEF MountTryMounts, MountedNode, Clean
  <2>2. Len(mounts') = 1
    BY <2>1
  <2>3. pc'[t] = "mount_finish" /\ \A u \in Thread : u # t => pc'[u] = pc[u]
    BY <1>1, <1>9 DEF MountTryMounts
  <2>4. \A u \in Thread : u # t => pc[u] \notin MountPoints
    BY <1>2, <1>9 DEF MountTryMounts, MountPoints
  <2>5. Clean'
    BY <1>4, <2>3, <2>4 DEF Clean, MountPoints
  <2>6. \E u \in Thread : pc'[u] \in TopPoints
    BY <2>3, Zenon DEF TopPoints
  <2>7. Mounts
    BY <2>1, <2>2, <2>6 DEF Mounts
  <2>. QED
    BY <1>4, <2>1, <2>2, <2>5, <2>6, <2>7 DEF Effect
<1>10. CASE MountAsecFails(t)
  <2>1. mounts = <<>> /\ mounts' = mounts
        /\ UNCHANGED <<mPartMinors, mPartIdx, filesystems, plugged, kernelParts>>
    BY <1>4, <1>10 DEF MountAsecFails, Clean
  <2>2. mState' = "Idle"
    BY <1>10, MovedState DEF MountAsecFails
  <2>3. \A u \in Thread : pc'[u] # "mount_stale"
    BY <1>1, <1>4, <1>10 DEF MountAsecFails, MountReturns, Clean
  <2>. QED
    BY <2>1, <2>2, <2>3 DEF Effect, Clean
<1>11. CASE MountFinish(t)
  <2>1. UNCHANGED <<mPartMinors, mPartIdx, filesystems, plugged, kernelParts, mCurrentlyMountedKdev>>
        /\ pc[t] = "mount_finish"
    BY <1>11 DEF MountFinish
  <2>2. /\ mState' \notin {"Shared", "Formatting"}
        /\ (mounts' = mounts /\ mState' = "Mounted") \/ mounts' = <<>>
    <3>1. PICK checkFailed \in {b \in BOOLEAN : b => nodes # <<>>} :
            LET s == IF checkFailed THEN Moved(Current, "Idle") ELSE Current
            IN IF s.state = "Checking"
               THEN Becomes(Moved(s, "Mounted")) /\ UNCHANGED mounts
               ELSE Becomes(s) /\ (mounts' = Popped \/ (UnmountMayFail /\ UNCHANGED mounts))
      BY <1>11 DEF MountFinish
    <3>. QED
      BY <1>3, <1>4, <3>1, PoppedAlone DEF Becomes, Current
  <2>3. \A u \in Thread : pc'[u] # pc[u] => pc'[u] \notin MountPoints
    BY <1>1, <1>11 DEF MountFinish, MountReturns, MountPoints
  <2>4. \A u \in Thread : u # t => pc[u] \notin MountPoints
    BY <1>2, <2>1 DEF MountPoints
  <2>5. Clean'
    BY <1>1, <1>4, <1>11, <2>3, <2>4 DEF Clean, MountPoints, MountFinish, MountReturns
  <2>6. pc[t] \notin UnmountingPoints
    BY <2>1 DEF UnmountingPoints
  <2>. QED
    BY <2>1, <2>2, <2>5, <2>6 DEF Effect, Keeps, OnceInv
<1>. QED
  BY <1>5, <1>6, <1>7, <1>8, <1>9, <1>10, <1>11

(* The steps of unmountVol; nothing is shared.                              *)
LEMMA UnmountEffect ==
  ASSUME HotplugAssumption, Known, OnceInv, NEW t \in Thread,
         \/ UnmountRefused(t) \/ UnmountBegin(t) \/ UnmountSucceeds(t) \/ UnmountFails(t)
         \/ UnshareWritesLun(t)
  PROVE  /\ Effect(t) /\ Clean' /\ mState' \notin {"Shared", "Formatting"}
         /\ mounts' # <<>> =>
              Len(mounts') = 1 /\ (mState' = "Mounted" \/ \E u \in Thread : pc'[u] \in TopPoints)
<1>. USE DEF Thread, Goto, diskVars, lockVars, mountVars, kernelVars, umsVars, stateVars, volumeVars
<1>1. /\ pc \in [Thread -> CmdPoints \cup NetPoints] /\ pc["net"] \in NetPoints
      /\ \A u \in Thread : mLock = u <=> pc[u] \in MountPoints \cup UnmountPoints
  BY DEF Known, IInv, TypeOK, Control, LockHeld
<1>2. mState \notin {"Shared", "Formatting"} /\ ~UnmountMayFail /\ Clean
  BY DEF OnceInv, HotplugAssumption, Clean
<1>3. CASE UnmountRefused(t)
  <2>1. UNCHANGED <<mounts, mCurrentlyMountedKdev, mState, mPartMinors, mPartIdx, filesystems,
                    plugged, kernelParts>>
    BY <1>3 DEF UnmountRefused
  <2>2. mounts = <<>>
    <3>1. mState # "Mounted" /\ \A u \in Thread : pc[u] \notin MountPoints \cup UnmountPoints
      BY <1>1, <1>3 DEF UnmountRefused, LockFree
    <3>. QED
      BY <3>1 DEF OnceInv, TopPoints, MountPoints, UnmountPoints
  <2>3. Clean'
    BY <1>1, <1>2, <1>3 DEF UnmountRefused, UnmountReturns, Clean
  <2>. QED
    BY <1>2, <2>1, <2>2, <2>3 DEF Effect
<1>4. CASE UnmountBegin(t)
  <2>1. UNCHANGED <<mounts, mCurrentlyMountedKdev, mPartMinors, mPartIdx, filesystems,
                    plugged, kernelParts>>
    BY <1>4 DEF UnmountBegin
  <2>2. mState' = "Unmounting"
    BY <1>4, MovedState DEF UnmountBegin
  <2>3. pc'[t] = "unmount_run" /\ \A u \in Thread : u # t => pc'[u] = pc[u]
    BY <1>1, <1>4 DEF UnmountBegin
  <2>4. Clean'
    BY <1>2, <2>1, <2>3 DEF Clean
  <2>5. Keeps(t)
    BY <2>1, <2>3 DEF Keeps, UnmountingPoints
  <2>6. \E u \in Thread : pc'[u] \in TopPoints
    BY <2>3, Zenon DEF TopPoints
  <2>. QED
    BY <2>1, <2>2, <2>4, <2>5, <2>6 DEF Effect, OnceInv
<1>5. CASE UnmountSucceeds(t)
  <2>1. mounts' = <<>> /\ UNCHANGED <<mPartMinors, mPartIdx, filesystems, plugged, kernelParts>>
    BY <1>5, PoppedAlone DEF UnmountSucceeds
  <2>2. mState' = "Idle"
    BY <1>5, MovedState DEF UnmountSucceeds
  <2>3. Clean'
    BY <1>1, <1>2, <1>5, <2>1 DEF UnmountSucceeds, UnmountReturns, Clean
  <2>. QED
    BY <2>1, <2>2, <2>3 DEF Effect
<1>6. CASE UnmountFails(t)
  BY <1>2, <1>6 DEF UnmountFails
<1>7. CASE UnshareWritesLun(t)
  <2>1. pc["cmd"] # "unshare_lun"
    BY DEF Known, EventInv, Calls, MountPoints
  <2>2. pc["cmd"] \notin {"rm_unshare", "uu_unshare"}
    BY DEF Known, IInv, TypeOK, CmdPoints, MountPoints, UnmountPoints
  <2>3. pc["net"] \notin {"rm_unshare", "uu_unshare", "unshare_lun"}
    BY <1>1 DEF OnceInv, NetPoints, RemovalPoints, MountPoints, UnmountPoints
  <2>. QED
    BY <1>7, <2>1, <2>2, <2>3 DEF UnshareWritesLun
<1>. QED
  BY <1>3, <1>4, <1>5, <1>6, <1>7

(* Either.                                                                  *)
LEMMA CallEffect ==
  ASSUME HotplugAssumption, Known, OnceInv, NEW t \in Thread, MountOrUnmount(t)
  PROVE  Effect(t) /\ OnceInv'
<1>1. /\ Effect(t) /\ Clean' /\ mState' \notin {"Shared", "Formatting"}
      /\ mounts' # <<>> =>
           Len(mounts') = 1 /\ (mState' = "Mounted" \/ \E u \in Thread : pc'[u] \in TopPoints)
  BY MountEffect, UnmountEffect DEF MountOrUnmount
<1>2. pc'["net"] \notin {"rm_unshare", "uu_unshare"}
  BY DEF OnceInv, Known, IInv, TypeOK, Thread, Goto, MountOrUnmount, MountRefused, MountBegin,
         MountClearsStale, MountTryFails, MountTryMounts, MountAsecFails, MountFinish,
         UnmountRefused, UnmountBegin, UnmountSucceeds, UnmountFails, UnshareWritesLun,
         ConsiderNodes, MountReturns, UnmountReturns, AfterUnshare
<1>. QED
  BY <1>1, <1>2 DEF OnceInv, Effect, Clean

(* The events of a disk are its additions and its removals.                 *)
LEMMA NoChangeEvent ==
  ASSUME TypeOK, LifeInv, uevents # <<>>
  PROVE  Head(uevents).action \in {"add", "remove"} /\ ~Filtered(Head(uevents))
<1>1. PICK d \in Nat, n \in 0..MinorSpan, k \in Nat : Queued(d, n, k) /\ Taken(d, n, k)
  BY Zenon DEF LifeInv, Rest
<1>2. k + 1 \in 1..(2 * n + 2) /\ Head(uevents) = LifeEvent(d, n, k + 1) /\ ~Filtered(Head(uevents))
  BY <1>1, NextEvent
<1>. QED
  BY <1>2, LifeEvents

\* A step that mounts nothing, and moves mState only when nothing is mounted.
Bystander ==
  /\ UNCHANGED <<mounts, mPartIdx>>
  /\ mState' = mState \/ (mounts = <<>> /\ mState' \notin {"Shared", "Formatting"})
  /\ \A p \in 1..MAX_PARTITIONS : mPartMinors[p] # -1 => mPartMinors'[p] # -1
  /\ \A t \in Thread : pc'[t] # pc[t] =>
       pc'[t] \notin {"mount_stale", "mount_try", "rm_unshare", "uu_unshare"} /\ pc[t] \notin TopPoints

(* Such a step keeps OnceInv, as long as the kernel keeps its side of it.   *)
LEMMA BystanderOnce ==
  ASSUME TypeOK, OnceInv, Bystander,
         IF plugged' = -1 THEN filesystems' = {} ELSE filesystems' \subseteq CarriersOf(plugged', kernelParts')
  PROVE  OnceInv'
<1>1. mPartIdx > 0 => mPartIdx \in 1..MAX_PARTITIONS
  BY ParameterAssumption DEF TypeOK
<1>2. mPartIdx' > 0 => mPartMinors'[mPartIdx'] # -1
  BY <1>1 DEF OnceInv, Bystander
<1>3. /\ mState' \notin {"Shared", "Formatting"} /\ pc'["net"] \notin {"rm_unshare", "uu_unshare"}
      /\ \A t \in Thread : pc'[t] # "mount_stale" /\ (pc'[t] = "mount_try" => mounts' = <<>>)
      /\ mounts' # <<>> => Len(mounts') = 1
  BY DEF OnceInv, Bystander, Thread
<1>4. mounts' # <<>> => mState' = "Mounted" \/ \E t \in Thread : pc'[t] \in TopPoints
  <2>. SUFFICES ASSUME mounts' # <<>>, mState' # "Mounted"
                PROVE  \E t \in Thread : pc'[t] \in TopPoints
    OBVIOUS
  <2>1. PICK t \in Thread : pc[t] \in TopPoints
    BY DEF OnceInv, Bystander
  <2>2. pc'[t] = pc[t]
    BY <2>1 DEF Bystander
  <2>. QED
    BY <2>1, <2>2
<1>. QED
  BY <1>2, <1>3, <1>4 DEF OnceInv

(* The steps of the net thread outside the calls.                           *)
LEMMA OnceNet ==
  ASSUME HotplugAssumption, Known, LifeInv, OnceInv, NetStep, ~MountOrUnmount("net")
  PROVE  OnceInv'
<1>. USE DEF Thread, Goto, TopPoints, volumeVars, stateVars, diskVars, mountVars, kernelVars
<1>1. /\ pc \in [Thread -> CmdPoints \cup NetPoints] /\ TypeOK /\ UNCHANGED <<filesystems, plugged, kernelParts>>
      /\ mPartMinors \in [1..MAX_PARTITIONS -> Nat \cup {-1}] /\ filesystems \subseteq Nat
  BY DEF Known, IInv, TypeOK, NetStep, EventIgnored, DiskAdded, PartitionAdded, InitMountpoint,
         NotifyInserted, DiskChanged, DiskRemoved, PartitionRemoved, Removed, RemoveBegin,
         RemoveChecksShare, UnmountUnshare, RemoveEnd, RemoveUnlock
<1>2. ASSUME Bystander PROVE OnceInv'
  BY <1>1, <1>2, BystanderOnce DEF OnceInv
<1>3. \A s, new : Moved(s, new).state = new
  BY MovedState
<1>4. mState \notin {"Shared", "Formatting"}
  BY DEF OnceInv
<1>5. CASE EventIgnored \/ NotifyInserted \/ RemoveBegin \/ RemoveUnlock
  <2>1. Bystander
    BY <1>1, <1>5 DEF Bystander, EventIgnored, NotifyInserted, RemoveBegin, RemoveUnlock
  <2>. QED
    BY <1>2, <2>1
<1>6. CASE DiskRemoved \/ PartitionRemoved
  <2>1. Bystander
    BY <1>1, <1>6 DEF Bystander, DiskRemoved, PartitionRemoved, Removed, Reading
  <2>. QED
    BY <1>2, <2>1
<1>7. CASE DiskAdded
  <2>1. mDiskMinor = -1
    BY <1>7 DEF DiskAdded, Reading, Filtered
  <2>2. mounts = <<>> /\ mState = "NoMedia"
    BY <2>1, NothingMounted DEF Known, EventInv, AbsentInv
  <2>3. mState' \in {"NoMedia", "Pending"}
    BY <1>7, <2>2, MovedState DEF DiskAdded
  <2>4. Bystander
    BY <1>1, <1>7, <2>2, <2>3 DEF Bystander, DiskAdded, Reading
  <2>. QED
    BY <1>2, <2>4
<1>8. CASE PartitionAdded
  <2>. DEFINE e == Head(uevents)
  <2>1. e \in Uevent
    BY <1>1, <1>8, TailTyped DEF TypeOK, PartitionAdded, Reading
  <2>2. mPartMinors' = mPartMinors \/ \E p \in 1..MAX_PARTITIONS :
                                        mPartMinors' = [mPartMinors EXCEPT ![p] = e.minor]
    BY <1>8 DEF PartitionAdded, PartitionCounted
  <2>. HIDE DEF e
  <2>3. e.minor # -1
    BY <2>1 DEF Uevent
  <2>4. \A p \in 1..MAX_PARTITIONS : mPartMinors[p] # -1 => mPartMinors'[p] # -1
    BY <1>1, <2>2, <2>3
  <2>5. Bystander
    BY <1>1, <1>8, <2>4 DEF Bystander, PartitionAdded, Reading
  <2>. QED
    BY <1>2, <2>5
<1>9. CASE InitMountpoint
  <2>1. mounts = <<>> /\ mounts' = <<>> /\ mPartMinors' = mPartMinors /\ mState \in {"NoMedia", "Pending"}
    BY <1>9, NothingMounted DEF InitMountpoint
  <2>2. PICK sized \in SUBSET filesystems :
          mPartIdx' \in IF mPartIdx = -1 /\ mDiskNumParts # 0
                        THEN PrimaryPartition(sized) ELSE {mPartIdx}
    BY <1>9 DEF InitMountpoint
  <2>3. mState' \in {"NoMedia", "Pending", "Idle"}
    <3>1. \A node, readable, hasVolumeId :
            Initialised(node, readable, hasVolumeId).state \in {"NoMedia", "Pending", "Idle"}
      BY <1>3, <2>1 DEF Initialised, Current
    <3>. QED
      BY <1>9, <3>1 DEF InitMountpoint, Becomes
  <2>4. mPartIdx' > 0 => mPartMinors'[mPartIdx'] # -1
    <3>1. CASE mPartIdx' = mPartIdx
      BY <2>1, <3>1 DEF OnceInv
    <3>2. CASE mPartIdx' \in PrimaryPartition(sized)
      BY <1>1, <2>1, <2>2, <3>2 DEF PrimaryPartition
    <3>. QED
      BY <2>2, <3>1, <3>2
  <2>5. /\ pc'["net"] \notin {"rm_unshare", "uu_unshare"}
        /\ \A t \in Thread : pc'[t] # "mount_stale"
    BY <1>1, <1>9 DEF InitMountpoint, OnceInv
  <2>. QED
    BY <1>1, <2>1, <2>3, <2>4, <2>5 DEF OnceInv
<1>10. CASE DiskChanged
  BY <1>1, <1>10, NoChangeEvent DEF DiskChanged, Reading
<1>11. CASE RemoveChecksShare \/ UnmountUnshare
  <2>1. Bystander
    BY <1>1, <1>4, <1>11 DEF Bystander, RemoveChecksShare, UnmountUnshare, AfterUnshare
  <2>. QED
    BY <1>2, <2>1
<1>12. CASE RemoveEnd
  <2>1. CASE evt.type = "disk"
    <3>1. mounts = <<>> /\ mounts' = <<>>
      BY <1>12, <2>1, NothingMounted DEF RemoveEnd
    <3>2. mState' = "NoMedia" /\ mPartIdx' = -1
      BY <1>12, <2>1, MovedState DEF RemoveEnd
    <3>3. /\ pc'["net"] \notin {"rm_unshare", "uu_unshare"}
          /\ \A t \in Thread : pc'[t] # "mount_stale"
      BY <1>1, <1>12 DEF RemoveEnd, OnceInv
    <3>. QED
      BY <1>1, <3>1, <3>2, <3>3 DEF OnceInv
  <2>2. CASE evt.type # "disk"
    <3>1. Bystander
      BY <1>1, <1>12, <2>2 DEF Bystander, RemoveEnd
    <3>. QED
      BY <1>2, <3>1
  <2>. QED
    BY <2>1, <2>2
<1>. QED
  BY <1>5, <1>6, <1>7, <1>8, <1>9, <1>10, <1>11, <1>12 DEF NetStep

(* Every step keeps OnceInv.                                                *)
LEMMA OnceNext ==
  ASSUME HotplugAssumption, Known, LifeInv, OnceInv, [Next]_vars
  PROVE  OnceInv'
<1>. USE DEF Thread, Goto, volumeVars, mountVars, kernelVars
<1>1. pc \in [Thread -> CmdPoints \cup NetPoints] /\ TypeOK
  BY DEF Known, IInv, TypeOK
<1>2. CASE StartCommand
  <2>1. StartMount
    BY <1>2 DEF StartCommand, StartUnmount, StartFormat, StartShare, StartUnshare, HotplugAssumption
  <2>2. Bystander /\ UNCHANGED <<filesystems, plugged, kernelParts>>
    BY <1>1, <2>1 DEF StartMount, Bystander, TopPoints
  <2>. QED
    BY <1>1, <2>2, BystanderOnce DEF OnceInv
<1>3. CASE CmdStep
  <2>1. MountOrUnmount("cmd")
    BY <1>3 DEF CmdStep, Known, EventInv, Calls, FormatChecksMounts, FormatEnds, ShareWritesLun, MountPoints
  <2>. QED
    BY <2>1, CallEffect
<1>4. CASE NetStep
  BY <1>4, OnceNet, CallEffect
<1>5. CASE Kernel
  <2>1. Bystander
    BY <1>5
       DEF Bystander, Kernel, PlugDisk, UnplugDisk, RepartitionDisk, MediaChange, Coldboot,
           PlugDuringColdboot, KernelStep
  <2>2. IF plugged' = -1 THEN filesystems' = {} ELSE filesystems' \subseteq CarriersOf(plugged', kernelParts')
    <3>1. PlugDisk \/ UnplugDisk
      BY <1>5
         DEF Kernel, RepartitionDisk, MediaChange, Coldboot, PlugDuringColdboot, RunColdboot,
             HotplugAssumption
    <3>2. CASE PlugDisk
      <4>1. \E d \in DiskMinors, n \in 0..MaxKernelParts : DiskAppears(d, n)
        BY <3>2, Zenon DEF PlugDisk
      <4>2. filesystems' \subseteq CarriersOf(plugged', kernelParts') /\ plugged' # -1
        BY <4>1, ParameterAssumption DEF DiskAppears
      <4>. QED
        BY <4>2
    <3>3. CASE UnplugDisk
      BY <3>3 DEF UnplugDisk
    <3>. QED
      BY <3>1, <3>2, <3>3
  <2>. QED
    BY <1>1, <2>1, <2>2, BystanderOnce
<1>6. CASE UNCHANGED vars
  <2>1. Bystander /\ UNCHANGED <<filesystems, plugged, kernelParts>>
    BY <1>6 DEF vars, Bystander
  <2>. QED
    BY <1>1, <2>1, BystanderOnce DEF OnceInv
<1>. QED
  BY <1>2, <1>3, <1>4, <1>5, <1>6 DEF Next

-----------------------------------------------------------------------------
(* The life of the disk goes on with every step.                            *)

(* A call: until the disk is ready it is turned away, and from then on it   *)
(* mounts only what is still to be removed.                                 *)
LEMMA LifeCall ==
  ASSUME HotplugAssumption, Known, LifeInv, OnceInv, NEW t \in Thread, MountOrUnmount(t)
  PROVE  LifeInv'
<1>1. /\ \A u \in Thread : u # t => pc'[u] = pc[u]
      /\ t = "net" /\ pc[t] \notin Handling \cup {"rm_lock"} => pc'[t] \notin Handling \cup {"rm_lock"}
      /\ UNCHANGED <<mDiskMinor, mDiskNumParts, uevents, plugged, kernelParts, evt>>
  BY CallMoves DEF Known
<1>2. ASSUME mState # "Idle", mLock = "none", pc["net"] \notin DiskPoints \ {"init"}
      PROVE  /\ UNCHANGED <<mState, mLock, mounts, mPartMinors>> /\ pc'["net"] = pc["net"]
  <2>1. t = "cmd" /\ MountRefused(t)
    BY <1>2, RefusedCall DEF Known, EventInv
  <2>. QED
    BY <1>1, <2>1 DEF MountRefused, lockVars, mountVars, diskVars, Thread
<1>3. CASE Rest
  <2>1. UNCHANGED <<mounts, mPartMinors>>
    BY <1>2, <1>3 DEF Rest, Known, EventInv, AbsentInv
  <2>. QED
    BY <1>1, <1>3, <2>1 DEF LifeInv, Rest
<1>4. CASE ~Rest
  <2>1. PICK d \in Nat, n \in 0..MinorSpan, k \in Nat : Queued(d, n, k) /\ Taken(d, n, k)
    BY <1>4, Zenon DEF LifeInv
  <2>2. n \in Nat /\ k <= Sent(n) /\ Sent(n) \in Nat /\ (plugged # -1 => Sent(n) = n + 1)
    BY <2>1, ParameterAssumption, SentTyped DEF Queued
  <2>3. Queued(d, n, k)'
    BY <1>1, <2>1, QueuedSame
  <2>4. CASE Early(n, k)
    <3>1. mState # "Idle" /\ mLock = "none" /\ pc["net"] \notin DiskPoints \ {"init"}
      BY <2>1, <2>4 DEF Taken, Early, DiskPoints, Handling, RemovalPoints
    <3>2. UNCHANGED <<mState, mLock, mounts, mPartMinors>> /\ pc'["net"] = pc["net"]
      BY <1>2, <3>1
    <3>3. mounts' = <<>>
      BY <2>1, <2>4, <3>2 DEF Taken
    <3>4. Taken(d, n, k)'
      BY <1>1, <2>1, <3>2, <3>3 DEF Taken, Early
    <3>. QED
      BY <2>3, <3>4 DEF LifeInv
  <2>5. CASE ~Early(n, k)
    <3>1. Effect(t)
      BY CallEffect
    <3>2. k >= n + 1 /\ pc["net"] # "init"
      BY <2>2, <2>5 DEF Early
    <3>3. pc'["net"] # "init"
      BY <3>2
         DEF Known, IInv, TypeOK, Thread, Goto, MountOrUnmount, MountRefused, MountBegin,
             MountClearsStale, MountTryFails, MountTryMounts, MountAsecFails, MountFinish,
             UnmountRefused, UnmountBegin, UnmountSucceeds, UnmountFails, UnshareWritesLun,
             ConsiderNodes, MountReturns, UnmountReturns, AfterUnshare
    <3>4. k <= n + 1 => pc'["net"] \notin Handling \cup {"rm_lock"}
      BY <1>1, <2>1 DEF Taken, Thread
    <3>5. ASSUME mounts' # <<>>
          PROVE  /\ mCurrentlyMountedKdev' \in CarriersOf(d, n)
                 /\ \/ k < RemovalAt(d, n, mCurrentlyMountedKdev')
                    \/ /\ k = RemovalAt(d, n, mCurrentlyMountedKdev')
                       /\ pc'["net"] \in UnmountingPoints /\ (pc'["net"] = "rm_share" => n = 0)
      <4>1. CASE Keeps(t)
        BY <1>1, <2>1, <3>5, <4>1 DEF Keeps, Taken, Thread
      <4>2. CASE Mounts
        <5>1. plugged # -1 /\ mCurrentlyMountedKdev' \in CarriersOf(d, n)
          BY <2>1, <4>2 DEF Mounts, OnceInv, Queued
        <5>2. RemovalAt(d, n, mCurrentlyMountedKdev') \in (n + 2)..(2 * n + 2)
          BY <5>1, RemovalEvent DEF HotplugAssumption
        <5>. QED
          BY <2>2, <5>1, <5>2
      <4>. QED
        BY <3>1, <3>5, <4>1, <4>2 DEF Effect
    <3>6. Taken(d, n, k)'
      <4>1. ~Early(n, k)' /\ ~(k < n + 1)
        BY <2>2, <3>2, <3>3 DEF Early
      <4>2. mPartMinors' = mPartMinors
        BY <3>1 DEF Effect
      <4>. QED
        BY <1>1, <2>1, <3>3, <3>4, <3>5, <4>1, <4>2 DEF Taken
    <3>. QED
      BY <2>3, <3>6 DEF LifeInv
  <2>. QED
    BY <2>4, <2>5
<1>. QED
  BY <1>3, <1>4

(* An event is read.                                                        *)
LEMMA LifeRead ==
  ASSUME HotplugAssumption, Known, SlotInv', LifeInv,
         \/ EventIgnored \/ DiskAdded \/ PartitionAdded \/ DiskChanged \/ DiskRemoved
         \/ PartitionRemoved
  PROVE  LifeInv'
<1>. DEFINE e == Head(uevents)
<1>. USE DEF Thread, Goto
<1>1. /\ pc \in [Thread -> CmdPoints \cup NetPoints] /\ TypeOK /\ mDiskNumParts \in Nat
      /\ MAX_PARTITIONS \in Nat \ {0} /\ mPartMinors \in [1..MAX_PARTITIONS -> Nat \cup {-1}]
  BY ParameterAssumption DEF Known, IInv, TypeOK
<1>2. /\ pc["net"] = "idle" /\ uevents # <<>> /\ uevents' = Tail(uevents)
      /\ UNCHANGED <<plugged, kernelParts, mounts, mLock, mCurrentlyMountedKdev>>
  BY DEF EventIgnored, DiskAdded, PartitionAdded, DiskChanged, DiskRemoved, PartitionRemoved,
         Removed, Reading, kernelVars, mountVars, lockVars, volumeVars
<1>3. PICK d \in Nat, n \in 0..MinorSpan, k \in Nat : Queued(d, n, k) /\ Taken(d, n, k)
  BY <1>2, Zenon DEF LifeInv, Rest
<1>4. n \in Nat /\ k + 1 \in 1..(2 * n + 2) /\ e = LifeEvent(d, n, k + 1) /\ ~Filtered(e)
  BY <1>1, <1>2, <1>3, NextEvent, ParameterAssumption
<1>. HIDE DEF e
<1>5. Queued(d, n, k + 1)'
  BY <1>1, <1>2, <1>3, QueuedTail
<1>6. SUFFICES Taken(d, n, k + 1)'
  <2>1. k + 1 \in Nat
    OBVIOUS
  <2>. QED
    BY <1>5, <2>1 DEF LifeInv
<1>7. /\ e.action = IF k + 1 <= n + 1 THEN "add" ELSE "remove"
      /\ e.type = IF k + 1 = 1 \/ k + 1 = 2 * n + 2 THEN "disk" ELSE "partition"
      /\ k + 1 = 1 => e.minor = d /\ e.num = n
      /\ 1 < k + 1 /\ k + 1 <= n + 1 => e.num = k + 1 - 1
  BY <1>4, LifeEvents
<1>8. mounts # <<>> => mCurrentlyMountedKdev \in CarriersOf(d, n)
                       /\ k < RemovalAt(d, n, mCurrentlyMountedKdev)
  BY <1>2, <1>3 DEF Taken, UnmountingPoints
<1>9. CASE EventIgnored
  BY <1>4, <1>9 DEF EventIgnored, e
<1>10. CASE DiskChanged
  BY <1>7, <1>10 DEF DiskChanged, Reading, e
<1>11. CASE DiskAdded
  <2>1. e.action = "add" /\ e.type = "disk"
    BY <1>11 DEF DiskAdded, Reading, e
  <2>2. k = 0 /\ k + 1 = 1 /\ e.minor = d /\ e.num = n
    BY <1>4, <1>7, <2>1
  <2>3. /\ mDiskMinor = -1 /\ mounts = <<>> /\ mLock = "none" /\ mState = "NoMedia"
        /\ \A p \in 1..MAX_PARTITIONS : mPartMinors[p] = -1
    <3>1. Early(n, k)
      BY <1>4, <2>2 DEF Early
    <3>. QED
      BY <1>3, <2>2, <3>1 DEF Taken, Known, EventInv, AbsentInv
  <2>4. /\ mDiskMinor' = d /\ mDiskNumParts' = n /\ evt' = e /\ mPartMinors' = mPartMinors
        /\ mState' \in {"NoMedia", "Pending"}
        /\ pc'["net"] = IF n = 0 THEN "init" ELSE "notify"
    <3>1. /\ mDiskMinor' = e.minor /\ evt' = e /\ mPartMinors' = mPartMinors
          /\ mDiskNumParts' = e.num
          /\ IF e.num = 0 THEN Goto("net", "init") /\ mState' = mState
             ELSE Goto("net", "notify") /\ SetState("Pending")
      BY <1>11, <2>3 DEF DiskAdded, stateVars, e
    <3>2. pc'["net"] = IF n = 0 THEN "init" ELSE "notify"
      BY <1>1, <2>2, <3>1
    <3>. QED
      BY <2>2, <2>3, <3>1, <3>2, MovedState
  <2>5. pc'["net"] \notin Handling \cup {"rm_lock"}
    BY <2>4 DEF Handling, RemovalPoints
  <2>. QED
    BY <1>2, <1>4, <2>2, <2>3, <2>4, <2>5 DEF Taken
<1>12. CASE PartitionAdded
  <2>1. e.action = "add" /\ e.type = "partition"
    BY <1>12 DEF PartitionAdded, Reading, e
  <2>2. k \in 1..n /\ e.num = k /\ k < n + 1
    BY <1>4, <1>7, <2>1
  <2>3. /\ mDiskMinor = d /\ mDiskNumParts = n /\ mounts = <<>> /\ mLock = "none"
        /\ mState \in {"NoMedia", "Pending"}
        /\ \A p \in 1..MAX_PARTITIONS : p >= k => mPartMinors[p] = -1
    BY <1>3, <2>2 DEF Taken, Early
  <2>4. /\ mDiskMinor' = d /\ evt' = e /\ mState' = mState
        /\ pc'["net"] \in {"init", "notify"}
    BY <1>1, <1>12, <2>3 DEF PartitionAdded, stateVars, e
  <2>5. mDiskNumParts' = n
    BY <1>1, <1>12, <2>2, <2>3 DEF PartitionAdded, e
  <2>6. mPartMinors' = mPartMinors \/ mPartMinors' = [mPartMinors EXCEPT ![k] = e.minor]
    BY <1>12, <2>2 DEF PartitionAdded, PartitionCounted, e
  <2>7. \A p \in 1..MAX_PARTITIONS : p >= k + 1 => mPartMinors'[p] = -1
    BY <1>1, <2>2, <2>3, <2>6
  <2>8. ASSUME pc'["net"] = "init"
        PROVE  k + 1 = n + 1
    <3>1. Unseen' = {} /\ mPartMinors'[MAX_PARTITIONS] = -1
      BY <2>8 DEF SlotInv
    <3>2. CASE n < MAX_PARTITIONS
      <4>1. n \in Slots' /\ n \in 1..MAX_PARTITIONS
        BY <1>1, <2>2, <2>5, <3>2 DEF Slots, Smaller
      <4>2. mPartMinors'[n] # -1
        BY <3>1, <4>1 DEF Unseen
      <4>. QED
        BY <2>2, <2>7, <4>1, <4>2
    <3>3. CASE ~(n < MAX_PARTITIONS)
      <4>1. MAX_PARTITIONS \in Slots'
        BY <1>1, <2>2, <2>5, <3>3 DEF Slots, Smaller
      <4>. QED
        BY <3>1, <4>1 DEF Unseen
    <3>. QED
      BY <3>2, <3>3
  <2>9. pc'["net"] \notin Handling \cup {"rm_lock"}
    BY <2>4 DEF Handling, RemovalPoints
  <2>10. k + 1 < n + 1 => pc'["net"] = "notify"
    BY <2>2, <2>4, <2>8
  <2>. QED
    BY <1>2, <1>4, <2>2, <2>3, <2>4, <2>5, <2>7, <2>9, <2>10 DEF Taken
<1>13. CASE DiskRemoved \/ PartitionRemoved
  <2>1. e.action = "remove" /\ evt' = e /\ pc'["net"] = "rm_lock"
        /\ UNCHANGED <<mDiskMinor, mDiskNumParts, mPartMinors, mState>>
    BY <1>1, <1>13 DEF DiskRemoved, PartitionRemoved, Removed, Reading, volumeVars, e
  <2>2. k + 1 > n + 1 /\ k > 0
    BY <1>4, <1>7, <2>1
  <2>3. mDiskMinor = d /\ mDiskNumParts = n
        /\ \A p \in 1..MAX_PARTITIONS : p >= k + 1 => mPartMinors[p] = -1
    BY <1>3, <2>2 DEF Taken
  <2>4. mounts # <<>> => k + 1 < RemovalAt(d, n, mCurrentlyMountedKdev)
                         \/ k + 1 = RemovalAt(d, n, mCurrentlyMountedKdev)
    <3>1. mounts # <<>> => RemovalAt(d, n, mCurrentlyMountedKdev) \in (n + 2)..(2 * n + 2)
      BY <1>8, RemovalEvent DEF HotplugAssumption
    <3>. QED
      BY <1>4, <1>8, <3>1
  <2>5. pc'["net"] \in UnmountingPoints /\ pc'["net"] # "init"
    BY <2>1 DEF UnmountingPoints
  <2>6. ~Early(n, k + 1)'
    BY <1>4, <2>1, <2>2 DEF Early
  <2>. QED
    BY <1>2, <1>4, <1>8, <2>1, <2>2, <2>3, <2>4, <2>5, <2>6 DEF Taken
<1>. QED
  BY <1>9, <1>10, <1>11, <1>12, <1>13

(* The steps of the net thread that read no event.                          *)
LEMMA LifeHandler ==
  ASSUME HotplugAssumption, Known, LifeInv, OnceInv,
         \/ InitMountpoint \/ NotifyInserted \/ RemoveBegin \/ RemoveChecksShare
         \/ UnmountUnshare \/ RemoveEnd \/ RemoveUnlock
  PROVE  LifeInv'
<1>. USE DEF Thread, Goto
<1>1. /\ pc \in [Thread -> CmdPoints \cup NetPoints] /\ TypeOK /\ MAX_PARTITIONS \in Nat \ {0}
  BY ParameterAssumption DEF Known, IInv, TypeOK
<1>2. /\ UNCHANGED <<uevents, plugged, kernelParts, evt, mounts, mCurrentlyMountedKdev, mLock>>
      /\ pc["net"] \in {"init", "notify", "rm_lock", "rm_share", "rm_unmount", "rm_end", "rm_unlock"}
  BY DEF InitMountpoint, NotifyInserted, RemoveBegin, RemoveChecksShare, UnmountUnshare,
         RemoveEnd, RemoveUnlock, volumeVars, lockVars, mountVars, kernelVars, workVars
<1>3. CASE Rest
  <2>1. pc["net"] \notin DiskPoints
    BY <1>3 DEF Rest, Known, EventInv, AbsentInv
  <2>2. NotifyInserted \/ RemoveUnlock
    BY <2>1
       DEF DiskPoints, Handling, RemovalPoints, InitMountpoint, RemoveBegin, RemoveChecksShare,
           UnmountUnshare, RemoveEnd
  <2>3. UNCHANGED <<mDiskMinor, mPartMinors>>
    BY <2>2 DEF NotifyInserted, RemoveUnlock, volumeVars
  <2>. QED
    BY <1>2, <1>3, <2>3 DEF LifeInv, Rest
<1>4. CASE ~Rest
  <2>1. PICK d \in Nat, n \in 0..MinorSpan, k \in Nat : Queued(d, n, k) /\ Taken(d, n, k)
    BY <1>4, Zenon DEF LifeInv
  <2>2. /\ n \in Nat /\ k <= Sent(n) /\ Sent(n) \in Nat /\ Sent(n) <= 2 * n + 2
        /\ plugged # -1 => Sent(n) = n + 1
    BY <2>1, ParameterAssumption, SentTyped DEF Queued
  <2>3. Queued(d, n, k)'
    BY <1>2, <2>1, QueuedSame
  <2>4. pc["net"] \in {"rm_lock", "rm_share", "rm_unmount", "rm_end", "rm_unlock"} => k > n + 1
    BY <2>1, <2>2 DEF Taken, Handling, RemovalPoints
  <2>5. ASSUME k > n + 1, pc'["net"] # "init",
               UNCHANGED <<mDiskMinor, mDiskNumParts, mPartMinors, mState>>,
               mounts # <<>> /\ k = RemovalAt(d, n, mCurrentlyMountedKdev)
                 => pc'["net"] \in UnmountingPoints /\ (pc'["net"] = "rm_share" => n = 0)
        PROVE  LifeInv'
    <3>1. ~Early(n, k)' /\ ~(k < n + 1) /\ ~(k <= n + 1)
      BY <2>2, <2>5 DEF Early
    <3>2. Taken(d, n, k)'
      BY <1>2, <2>1, <2>5, <3>1 DEF Taken
    <3>. QED
      BY <2>3, <3>2 DEF LifeInv
  <2>6. ASSUME mounts # <<>>, k = RemovalAt(d, n, mCurrentlyMountedKdev)
        PROVE  /\ k \in (n + 2)..(2 * n + 2) /\ (n # 0 => k <= 2 * n + 1)
               /\ evt = LifeEvent(d, n, k) /\ evt.minor = mCurrentlyMountedKdev
               /\ pc["net"] \in UnmountingPoints /\ (pc["net"] = "rm_share" => n = 0)
    <3>1. mCurrentlyMountedKdev \in CarriersOf(d, n)
          /\ pc["net"] \in UnmountingPoints /\ (pc["net"] = "rm_share" => n = 0)
      <4>1. RemovalAt(d, n, mCurrentlyMountedKdev) = k /\ ~(k < k)
        BY <2>6
      <4>. QED
        BY <2>1, <2>6, <4>1 DEF Taken
    <3>2. /\ k \in (n + 2)..(2 * n + 2) /\ (n # 0 => k <= 2 * n + 1)
          /\ LifeEvent(d, n, k).minor = mCurrentlyMountedKdev
      BY <2>6, <3>1, RemovalEvent DEF HotplugAssumption
    <3>3. k > 0
      BY <2>2, <3>2
    <3>. QED
      BY <2>1, <3>1, <3>2, <3>3 DEF Taken
  <2>7. CASE InitMountpoint
    <3>1. pc["net"] = "init" /\ pc'["net"] \in {"mount_lock", "notify", "idle"}
      BY <1>1, <2>7 DEF InitMountpoint
    <3>2. k = n + 1
      BY <2>1, <2>2, <3>1 DEF Taken
    <3>3. mounts = <<>> /\ UNCHANGED <<mDiskMinor, mDiskNumParts, mPartMinors>>
      BY <2>1, <2>7, <3>1 DEF Taken, Early, InitMountpoint
    <3>4. ~Early(n, k)' /\ ~(k < n + 1) /\ pc'["net"] \notin Handling \cup {"rm_lock"}
      BY <2>2, <3>1, <3>2 DEF Early, Handling, RemovalPoints
    <3>5. Taken(d, n, k)'
      BY <1>2, <2>1, <3>1, <3>3, <3>4 DEF Taken
    <3>. QED
      BY <2>3, <3>5 DEF LifeInv
  <2>8. CASE NotifyInserted
    <3>1. pc["net"] = "notify" /\ pc'["net"] = "idle" /\ UNCHANGED volumeVars
      BY <1>1, <2>8 DEF NotifyInserted
    <3>2. Early(n, k)' => Early(n, k)
      BY <3>1 DEF Early
    <3>3. pc'["net"] \notin Handling \cup {"rm_lock"} /\ pc["net"] \notin UnmountingPoints
      BY <3>1 DEF Handling, RemovalPoints, UnmountingPoints
    <3>4. Taken(d, n, k)'
      BY <1>2, <2>1, <3>1, <3>2, <3>3 DEF Taken, volumeVars
    <3>. QED
      BY <2>3, <3>4 DEF LifeInv
  <2>9. CASE RemoveBegin
    <3>1. /\ pc["net"] = "rm_lock" /\ UNCHANGED volumeVars
          /\ pc'["net"] = IF evt.type = "disk" THEN "rm_share" ELSE "rm_unmount"
      BY <1>1, <2>9 DEF RemoveBegin
    <3>2. ASSUME mounts # <<>>, k = RemovalAt(d, n, mCurrentlyMountedKdev), n # 0
          PROVE  evt.type # "disk"
      <4>1. k \in 1..(2 * n + 2) /\ k # 1 /\ k # 2 * n + 2
        BY <2>2, <2>6, <3>2
      <4>2. LifeEvent(d, n, k).type = "partition"
        BY <4>1, LifeEvents
      <4>. QED
        BY <2>6, <3>2, <4>2
    <3>. QED
      BY <2>4, <2>5, <3>1, <3>2 DEF UnmountingPoints, volumeVars
  <2>10. CASE RemoveChecksShare
    <3>1. /\ pc["net"] = "rm_share" /\ UNCHANGED volumeVars
          /\ pc'["net"] = IF mDiskNumParts = 0 THEN "rm_unmount" ELSE "rm_end"
      BY <1>1, <2>10 DEF RemoveChecksShare, AfterUnshare, OnceInv
    <3>2. mDiskNumParts = n
      BY <2>1, <2>2, <2>4, <3>1 DEF Taken
    <3>. QED
      BY <2>4, <2>5, <2>6, <3>1, <3>2 DEF UnmountingPoints, volumeVars
  <2>11. CASE UnmountUnshare
    <3>1. /\ pc["net"] = "rm_unmount" /\ UNCHANGED volumeVars
          /\ pc'["net"] \in {"rm_end", "unmount_lock"}
          /\ mState = "Mounted" /\ evt.minor = mCurrentlyMountedKdev
               => pc'["net"] = "unmount_lock"
      BY <1>1, <2>11 DEF UnmountUnshare, OnceInv
    <3>2. mounts # <<>> => mState = "Mounted"
      <4>1. \A t \in Thread : pc[t] \notin MountPoints
        BY <3>1 DEF Known, IInv, Control, RemovalExcludesMount, RemovalPoints
      <4>2. \A t \in Thread : pc[t] \notin TopPoints
        BY <3>1, <4>1 DEF TopPoints, MountPoints, Known, EventInv, Calls
      <4>. QED
        BY <4>2 DEF OnceInv
    <3>. QED
      BY <2>4, <2>5, <2>6, <3>1, <3>2 DEF UnmountingPoints, volumeVars
  <2>12. CASE RemoveEnd
    <3>1. pc["net"] = "rm_end" /\ pc'["net"] = "rm_unlock"
      BY <1>1, <2>12 DEF RemoveEnd
    <3>2. CASE evt.type = "disk"
      <4>1. mounts = <<>>
        BY <3>1, <3>2, NothingMounted
      <4>2. k = 2 * n + 2
        <5>1. k > n + 1 /\ k \in 1..(2 * n + 2)
          BY <2>2, <2>4, <3>1
        <5>2. evt = LifeEvent(d, n, k)
          BY <2>1, <2>2, <5>1 DEF Taken
        <5>3. LifeEvent(d, n, k).type = IF k = 1 \/ k = 2 * n + 2 THEN "disk" ELSE "partition"
          BY <5>1, LifeEvents
        <5>. QED
          BY <2>2, <3>2, <5>1, <5>2, <5>3
      <4>3. plugged = -1
        BY <2>2, <4>2
      <4>4. uevents = <<>>
        <5>1. Len(uevents) = Sent(n) - k
          BY <2>1 DEF Queued
        <5>2. Len(uevents) = 0
          BY <2>2, <4>2, <5>1
        <5>. QED
          BY <1>1, <5>2, EmptySeq DEF TypeOK
      <4>5. mDiskMinor' = -1 /\ mPartMinors' = [i \in 1..MAX_PARTITIONS |-> -1]
        BY <2>12, <3>2 DEF RemoveEnd
      <4>6. \A p \in 1..MAX_PARTITIONS : mPartMinors'[p] = -1
        BY <4>5
      <4>. QED
        BY <1>2, <4>1, <4>3, <4>4, <4>5, <4>6 DEF LifeInv, Rest
    <3>3. CASE evt.type # "disk"
      <4>1. UNCHANGED <<mDiskMinor, mDiskNumParts, mPartMinors, mState>>
        BY <2>12, <3>3 DEF RemoveEnd, stateVars
      <4>. QED
        BY <2>4, <2>5, <2>6, <3>1, <4>1 DEF UnmountingPoints
    <3>. QED
      BY <3>2, <3>3
  <2>13. CASE RemoveUnlock
    <3>1. pc["net"] = "rm_unlock" /\ pc'["net"] = "idle" /\ UNCHANGED volumeVars
      BY <1>1, <2>13 DEF RemoveUnlock
    <3>. QED
      BY <2>4, <2>5, <2>6, <3>1 DEF UnmountingPoints, volumeVars
  <2>. QED
    BY <2>7, <2>8, <2>9, <2>10, <2>11, <2>12, <2>13
<1>. QED
  BY <1>3, <1>4

(* A disk is plugged in only when nothing is left of the last one, and      *)
(* plugged out with all its additions sent.                                 *)
LEMMA LifeKernel ==
  ASSUME HotplugAssumption, Known, LifeInv, Kernel
  PROVE  LifeInv'
<1>1. /\ UNCHANGED <<mState, mDiskMinor, mDiskNumParts, mPartMinors, mCurrentlyMountedKdev, mLock,
                     mounts, pc, evt>>
      /\ PlugDisk \/ UnplugDisk
  BY DEF Kernel, PlugDisk, UnplugDisk, RepartitionDisk, MediaChange, Coldboot, PlugDuringColdboot,
         KernelStep, RunColdboot, HotplugAssumption, volumeVars, lockVars, mountVars, workVars
<1>2. ASSUME NEW d \in Nat, NEW n \in 0..MinorSpan, NEW k \in Nat, Taken(d, n, k)
      PROVE  Taken(d, n, k)'
  BY <1>1, <1>2 DEF Taken, Early
<1>3. CASE PlugDisk
  <2>1. PICK d \in DiskMinors, n \in 0..MaxKernelParts :
          DiskAppears(d, n) /\ uevents' = uevents \o AddEvents(d, n)
    BY <1>3 DEF PlugDisk
  <2>2. /\ d \in Nat /\ n \in 0..MinorSpan /\ plugged = -1 /\ uevents = <<>> /\ pc["net"] = "idle"
        /\ plugged' = d /\ kernelParts' = n
    BY <2>1, ParameterAssumption DEF DiskAppears, HotplugAssumption
  <2>3. Rest
    <3>. SUFFICES ASSUME ~Rest PROVE FALSE
      OBVIOUS
    <3>1. PICK c \in Nat, m \in 0..MinorSpan, k \in Nat : Queued(c, m, k) /\ Taken(c, m, k)
      BY Zenon DEF LifeInv
    <3>2. k > 0
      <4>1. m \in Nat /\ Sent(m) = 2 * m + 2
        BY <2>2, ParameterAssumption DEF Sent
      <4>2. Len(uevents) = 0 /\ Len(uevents) = Sent(m) - k
        BY <2>2, <3>1 DEF Queued
      <4>. QED
        BY <4>1, <4>2
    <3>3. mDiskMinor # -1
      BY <3>1, <3>2 DEF Taken
    <3>4. Now = Announced
      BY <2>2, TraceEmpty DEF Known, EventInv, QueueInv
    <3>5. Now = [minor |-> mDiskMinor, num |-> mDiskNumParts]
      BY <2>2 DEF Now, LeavesDisk, Handling, RemovalPoints
    <3>. QED
      BY <2>2, <3>3, <3>4, <3>5 DEF Announced
  <2>4. Queued(d, n, 0)'
    BY <2>1, <2>2, QueuedPlug
  <2>5. Taken(d, n, 0)
    <3>1. /\ mDiskMinor = -1 /\ mounts = <<>> /\ mState = "NoMedia" /\ mLock = "none"
          /\ \A p \in 1..MAX_PARTITIONS : mPartMinors[p] = -1
      BY <2>3 DEF Rest, Known, EventInv, AbsentInv
    <3>2. pc["net"] \notin Handling \cup {"rm_lock"} /\ ~(0 > n + 1)
      BY <2>2 DEF Handling, RemovalPoints
    <3>. QED
      BY <2>2, <3>1, <3>2 DEF Taken
  <2>6. Taken(d, n, 0)'
    BY <1>2, <2>2, <2>5
  <2>. QED
    BY <2>2, <2>4, <2>6 DEF LifeInv
<1>4. CASE UnplugDisk
  <2>1. plugged # -1 /\ TypeOK
    BY <1>4 DEF UnplugDisk, Known, IInv
  <2>2. PICK d \in Nat, n \in 0..MinorSpan, k \in Nat : Queued(d, n, k) /\ Taken(d, n, k)
    BY <2>1, Zenon DEF LifeInv, Rest
  <2>3. Queued(d, n, k)' /\ Taken(d, n, k)'
    BY <1>2, <1>4, <2>1, <2>2, QueuedUnplug
  <2>. QED
    BY <2>3 DEF LifeInv
<1>. QED
  BY <1>1, <1>3, <1>4

(* Every step keeps LifeInv.                                                *)
LEMMA LifeNext ==
  ASSUME HotplugAssumption, Known, SlotInv', LifeInv, OnceInv, [Next]_vars
  PROVE  LifeInv'
<1>1. ASSUME UNCHANGED <<mState, mDiskMinor, mDiskNumParts, mPartMinors, mCurrentlyMountedKdev, mLock,
                         mounts, evt, uevents, plugged, kernelParts>>,
             pc'["net"] = pc["net"]
      PROVE  LifeInv'
  BY <1>1 DEF LifeInv, Rest, Queued, Sent, Taken, Early
<1>2. CASE StartCommand
  <2>1. StartMount
    BY <1>2 DEF StartCommand, StartUnmount, StartFormat, StartShare, StartUnshare, HotplugAssumption
  <2>. QED
    BY <1>1, <2>1
       DEF StartMount, Known, IInv, TypeOK, Goto, Thread, volumeVars, lockVars, mountVars, kernelVars
<1>3. CASE CmdStep
  <2>1. MountOrUnmount("cmd")
    BY <1>3
       DEF CmdStep, Known, EventInv, Calls, FormatChecksMounts, FormatEnds, ShareWritesLun,
           MountPoints
  <2>. QED
    BY <2>1, LifeCall DEF Thread
<1>4. CASE NetStep
  BY <1>4, LifeCall, LifeRead, LifeHandler DEF NetStep, Thread
<1>5. CASE Kernel
  BY <1>5, LifeKernel
<1>6. CASE UNCHANGED vars
  BY <1>1, <1>6 DEF vars, volumeVars, lockVars, mountVars, kernelVars, workVars
<1>. QED
  BY <1>2, <1>3, <1>4, <1>5, <1>6 DEF Next

(* When every event of a disk that is gone is handled, its last partition   *)
(* has been removed, and with it what was mounted.                          *)
LEMMA LifeEnds ==
  ASSUME HotplugAssumption, TypeOK, LifeInv
  PROVE  RemovedDiskUnmounted
<1>. SUFFICES ASSUME Quiescent, plugged = -1 PROVE mounts = <<>>
  BY DEF RemovedDiskUnmounted
<1>1. CASE Rest
  BY <1>1 DEF Rest
<1>2. CASE ~Rest
  <2>1. PICK d \in Nat, n \in 0..MinorSpan, k \in Nat : Queued(d, n, k) /\ Taken(d, n, k)
    BY <1>2, Zenon DEF LifeInv
  <2>2. pc["net"] \notin UnmountingPoints /\ Len(uevents) = 0
    BY DEF Quiescent, Thread, UnmountingPoints
  <2>3. n \in Nat /\ Sent(n) = 2 * n + 2
    BY ParameterAssumption DEF Sent
  <2>4. k = 2 * n + 2
    BY <2>1, <2>2, <2>3 DEF Queued
  <2>5. ASSUME mounts # <<>> PROVE FALSE
    <3>1. mCurrentlyMountedKdev \in CarriersOf(d, n) /\ k < RemovalAt(d, n, mCurrentlyMountedKdev)
      BY <2>1, <2>2, <2>5 DEF Taken
    <3>2. RemovalAt(d, n, mCurrentlyMountedKdev) \in (n + 2)..(2 * n + 2)
      BY <3>1, RemovalEvent DEF HotplugAssumption
    <3>. QED
      BY <2>3, <2>4, <3>1, <3>2
  <2>. QED
    BY <2>5
<1>. QED
  BY <1>1, <1>2

(* No filesystem of a disk that is gone stays mounted once its removal is   *)
(* handled, whatever mount was under way when its events came: the removal  *)
(* of the device that is mounted is still to come, or being handled, as     *)
(* long as it is mounted.  It is false when umount2 gives up, for a disk    *)
(* that takes the place of one whose removal was not handled yet, and for   *)
(* an unmount that ends after it.                                           *)
THEOREM RemovedIsUnmounted ==
  ASSUME HotplugAssumption
  PROVE  Spec => []RemovedDiskUnmounted
<1>. DEFINE Inv == Known /\ LifeInv /\ OnceInv
<1>1. Init => Inv
  <2>. SUFFICES ASSUME Init PROVE Inv
    OBVIOUS
  <2>1. IInv /\ EventInv /\ SlotInv
    BY IInvInit, EventInit, SlotInit
  <2>2. TopInv
    BY DEF Init, TopInv, Thread, TopPoints
  <2>3. LifeInv
    BY DEF Init, LifeInv, Rest
  <2>4. OnceInv
    BY DEF Init, OnceInv, Thread
  <2>. QED
    BY <2>1, <2>2, <2>3, <2>4 DEF Known
<1>2. Inv /\ [Next]_vars => Inv'
  <2>. SUFFICES ASSUME Inv, [Next]_vars PROVE Inv'
    OBVIOUS
  <2>1. IInv'
    BY IInvNext DEF Known
  <2>2. EventInv'
    BY EventNext DEF Known, HotplugAssumption
  <2>3. SlotInv'
    BY <2>1, SlotNext DEF Known, IInv
  <2>4. TopInv'
    BY TopCall, OthersAside, AsideTop DEF Known, HotplugAssumption
  <2>. QED
    BY <2>1, <2>2, <2>3, <2>4, LifeNext, OnceNext DEF Known
<1>3. Inv => RemovedDiskUnmounted
  BY LifeEnds DEF Known, IInv
<1>. QED
  BY <1>1, <1>2, <1>3, PTL DEF Spec

=============================================================================
