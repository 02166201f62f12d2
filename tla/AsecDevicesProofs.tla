------------------------- MODULE AsecDevicesProofs --------------------------
(***************************************************************************)
(* Theorems about the loop and device mapper devices of AsecContainers,    *)
(* for every number of containers, images and loop devices.                *)
(*                                                                         *)
(* The invariant Devices says, while no cleanup has run beside a command   *)
(* and nothing was detached with files open, what every device belongs to: *)
(* a mounted container, or the one an operation is working on.  It needs   *)
(* devices that go when they are asked to: nobody looks at what            *)
(* Loop::destroyByDevice and Devmapper::destroy return.                    *)
(***************************************************************************)
EXTENDS AsecContainersProofs

\* The image of a container, and the directory, that findAsec finds.
Own(id) == IF id \in ObbIds THEN id
           ELSE IF file[id]["int"] # None THEN file[id]["int"] ELSE file[id]["ext"]
OwnDir(id) == IF id \in AsecIds /\ file[id]["int"] # None THEN "int" ELSE "ext"

Bears(k, id) == loops[k].bound /\ loops[k].name = id

\* What is not a device mapper device: also the name that is left when
\* DM_TABLE_LOAD fails, if it may.
Absent == IF "dmtable" \in Failing THEN {NoDevice, NoTable} ELSE {NoDevice}

Released(id) == dms[id] \in Absent /\ \A k \in Loop : ~Bears(k, id)

\* An operation has devices of its container at these points.
HasLoop == {"info", "dm", "format", "mount", "down_dm", "down_loop"}
Holding(l, c, id) == c.id = id /\ l \in HasLoop \cup {"um_dm", "um_loop"}

\* No two images are one.
FilesDiffer ==
  \A id1, id2 \in AsecIds, d1, d2 \in Directory :
    file[id1][d1] # None /\ file[id1][d1] = file[id2][d2] => id1 = id2 /\ d1 = d2

\* A loop device that is bound bears the id of a container, if LOOP_SET_STATUS
\* went through.  No other device bears that id, or the image behind it.
LoopsFit ==
  /\ \A k \in Loop : IF loops[k].bound THEN loops[k].name \in Ids \/ "loopstatus" \in Failing
                                      ELSE loops[k] = FreeLoop
  /\ \A j, k \in Loop, id1, id2 \in Ids : Bears(j, id1) /\ Bears(k, id2)
       /\ (id1 = id2 \/ loops[j].file = loops[k].file) => j = k

\* A device mapper device lies over the loop device of its container.
DmsFit == \A id \in Ids : dms[id] \notin Absent => dms[id] \in Loop /\ Bears(dms[id], id)

\* What is mounted is the image of the container on the devices of the container.
MountFits(id, m) ==
  /\ Bears(m.loop, id)
  /\ loops[m.loop].file = Own(id)
  /\ IF m.dm THEN dms[id] = m.loop ELSE dms[id] \in Absent
MountsFit ==
  /\ \A id \in Ids : \A i \in 1..Len(mounts[id]) : MountFits(id, mounts[id][i])
  /\ \A id \in ObbIds : Mounted(id) => secureArea # "unbound"

Hardware == held = {} /\ FilesDiffer /\ LoopsFit /\ DmsFit /\ MountsFit

\* The device mapper device of an operation with a key is over its loop device;
\* a mount may have found the name of one without a table.
OnDevice(c) == IF c.key THEN dms[c.id] \in {c.loop, NoTable} ELSE dms[c.id] \in Absent

\* What an operation knows of its devices, and that there are no others.
DeviceFits(l, c) ==
  /\ \A id \in Ids : ~Mounted(id) /\ ~Holding(l, c, id) => Released(id)
  /\ l \in Making => c.dir = OwnDir(c.id)
  /\ l \in HasLoop =>
       /\ Bears(c.loop, c.id) /\ ~loops[c.loop].clearing
       /\ loops[c.loop].file = Own(c.id)
       /\ c.id \in ObbIds => secureArea # "unbound"
  /\ l = "dm" => c.key
  /\ l \in {"info", "dm", "down_loop", "um_loop"} => dms[c.id] \in Absent
  /\ l \in {"format", "mount", "down_dm"} => OnDevice(c)

Devices ==
  disturbed = {} =>
    Hardware /\ \E t \in Thread : pc[Other(t)] = "idle" /\ DeviceFits(pc[t], call[t])

\* LOOP_SET_STATUS does not fail after LOOP_SET_FD, DM_TABLE_LOAD not after
\* DM_DEV_CREATE: each would leave the device behind.
LoopAssumption == "loopstatus" \notin Failing
DmAssumption   == "dmtable" \notin Failing

\* Devices that are not in use can be looked up and let go of.
ReleaseAssumption == Failing \cap {"lookup", "loopclear", "dmremove"} = {}

-----------------------------------------------------------------------------
(* The invariant.                                                           *)

(* Nothing disturbed is no overlap.                                         *)
LEMMA Quiet == disturbed = {} => ~Overlap
  BY DEF Overlap

(* What is asked to go goes, unless it is in use.                           *)
LEMMA ReleaseMeans ==
  ASSUME ReleaseAssumption
  PROVE  /\ \A k : Clear(k) <=> loops' = Cleared(k)
         /\ \A id : DestroyDm(id) <=> dms' = DmDestroyed(id)
         /\ ~MayFail("lookup")
  BY DEF ReleaseAssumption, MayFail, Clear, DestroyDm

(* The thread that is busy, its operation and its devices.                  *)
LEMMA BusyDevices ==
  ASSUME Shapes, Lists, Devices, disturbed = {}, NEW t \in Thread, pc[t] # "idle"
  PROVE  /\ Listing /\ Hardware /\ pc[Other(t)] = "idle"
         /\ Fits(pc[t], call[t]) /\ DeviceFits(pc[t], call[t])
  <1>1. Listing /\ pc[Other(t)] = "idle" /\ Fits(pc[t], call[t]) BY Quiet, BusyFits
  <1> QED BY <1>1, Others DEF Devices, Thread

(* No thread is busy.                                                       *)
LEMMA IdleDevices ==
  ASSUME Shapes, Lists, Devices, disturbed = {}, \A t \in Thread : pc[t] = "idle"
  PROVE  Listing /\ Hardware /\ Fits("idle", NoCall) /\ DeviceFits("idle", NoCall)
  <1>1. \A t \in Thread : call[t] = NoCall BY Typed DEF Shape
  <1> QED BY <1>1, Quiet, IdleFits DEF Devices

(* One thread or the other.                                                 *)
LEMMA SomeDevices ==
  ASSUME Shapes, Lists, Devices, disturbed = {}
  PROVE  /\ Listing /\ Hardware
         /\ \E t \in Thread : /\ pc[Other(t)] = "idle"
                              /\ Fits(pc[t], call[t]) /\ DeviceFits(pc[t], call[t])
  <1>1. CASE \E t \in Thread : pc[t] # "idle" BY <1>1, BusyDevices
  <1>2. CASE \A t \in Thread : pc[t] = "idle"
    <2>1. Listing /\ Hardware /\ Fits("idle", NoCall) /\ DeviceFits("idle", NoCall)
      BY <1>2, IdleDevices
    <2>2. "cmd" \in Thread /\ Other("cmd") \in Thread BY Others DEF Thread
    <2>3. call["cmd"] = NoCall BY <1>2, <2>2, Typed DEF Shape
    <2> QED BY <1>2, <2>1, <2>2, <2>3
  <1> QED BY <1>1, <1>2

(* It is enough to look at one thread when the other one is idle.           *)
LEMMA DevicesFrom ==
  ASSUME Hardware', NEW t \in Thread, pc'[Other(t)] = "idle", DeviceFits(pc[t], call[t])'
  PROVE  Devices'
  <1>1. Other(t)' = Other(t) BY DEF Other
  <1> QED BY <1>1 DEF Devices

(* A step that leaves files and devices alone.                              *)
LEMMA DevicesKept ==
  ASSUME UNCHANGED <<file, secureArea, loops, dms, mounts, held>>, Hardware,
         NEW t \in Thread, pc'[Other(t)] = "idle", NEW l, NEW c, pc'[t] = l, call'[t] = c,
         DeviceFits(l, c)
  PROVE  Devices'
  <1>1. Hardware'
    BY DEF Hardware, FilesDiffer, LoopsFit, DmsFit, MountsFit, MountFits, Bears, Absent, Own,
           Mounted
  <1>2. DeviceFits(pc[t], call[t])'
    BY DEF DeviceFits, OnDevice, Mounted, Holding, Released, Absent, Bears, Own, OwnDir
  <1> QED BY <1>1, <1>2, DevicesFrom

(* A loop device is not absent, and what is absent is one of two.           *)
LEMMA AbsentMeans ==
  NoDevice \in Absent /\ Absent \subseteq {NoDevice, NoTable} /\ \A k \in Loop : k \notin Absent
  BY ContainerAssumption DEF Absent, NoDevice, NoTable, Loop, ContainerAssumption

(* The places of what is mounted on a mountpoint.                           *)
LEMMA MountPlaces ==
  ASSUME Shapes, NEW id \in Ids
  PROVE  /\ DOMAIN mounts[id] = 1..Len(mounts[id]) /\ Len(mounts[id]) \in Nat
         /\ Mounted(id) => 1 \in 1..Len(mounts[id])
         /\ ~Mounted(id) => 1..Len(mounts[id]) = {}
  <1> DEFINE M == [loop : Loop, dm : BOOLEAN, ro : BOOLEAN]
  <1>1. mounts[id] \in Seq(M) BY Typed DEF MountStates
  <1> HIDE DEF M
  <1>2. DOMAIN mounts[id] = 1..Len(mounts[id]) /\ Len(mounts[id]) \in Nat BY <1>1, LenProperties
  <1>3. Mounted(id) => Len(mounts[id]) \in Nat \ {0} BY <1>1, EmptySeq DEF Mounted
  <1>4. ~Mounted(id) => Len(mounts[id]) = 0 BY EmptySeq DEF Mounted
  <1> QED BY <1>2, <1>3, <1>4

(* What is mounted is on a loop device.                                     *)
LEMMA MountLoops ==
  ASSUME Shapes, NEW id \in Ids, NEW i \in 1..Len(mounts[id])
  PROVE  mounts[id][i].loop \in Loop
  <1>1. mounts[id] \in Seq([loop : Loop, dm : BOOLEAN, ro : BOOLEAN]) BY Typed DEF MountStates
  <1>2. mounts[id][i] \in [loop : Loop, dm : BOOLEAN, ro : BOOLEAN] BY <1>1, ElementOfSeq
  <1> QED BY <1>2

(* What is in use: a loop device under a mount or a device mapper device.   *)
LEMMA InUse ==
  ASSUME Shapes, NEW k, NEW d
  PROVE  LoopInUse(k, d, mounts, {}) <=>
           \/ \E id \in Ids : d[id] = k
           \/ \E id \in Ids : \E i \in 1..Len(mounts[id]) : mounts[id][i].loop = k
  BY MountPlaces DEF LoopInUse

\* A loop device stays as it is, or only waits to be let go of.
Same(k) ==
  /\ loops'[k].bound = loops[k].bound
  /\ loops'[k].name = loops[k].name
  /\ loops'[k].file = loops[k].file
  /\ ~loops[k].bound => loops'[k] = loops[k]

\* Loop devices are let go of at most, and of those in use none.
Shrinks(d, m) == \A k \in Loop : Same(k) \/ (loops'[k] = FreeLoop /\ ~LoopInUse(k, d, m, {}))

(* LOOP_CLR_FD on a device, and the kernel that lets go of devices.         *)
LEMMA ClearedShrinks ==
  ASSUME Shapes, Hardware, NEW k \in Loop, loops' = Cleared(k)
  PROVE  /\ Shrinks(dms, mounts)
         /\ \A j \in Loop : j # k => loops'[j] = loops[j]
         /\ loops[k].bound /\ ~LoopInUse(k, dms, mounts, {}) => loops'[k] = FreeLoop
  <1>1. loops \in LoopStates /\ held = {} BY Typed DEF Hardware
  <1> DEFINE w == [loops EXCEPT ![k].clearing = TRUE]
  <1>2. /\ \A j \in Loop : j # k => w[j] = loops[j]
        /\ w[k].bound = loops[k].bound /\ w[k].name = loops[k].name /\ w[k].file = loops[k].file
    BY <1>1 DEF LoopStates
  <1> HIDE DEF w
  <1>3. \/ loops' = loops /\ (loops[k].bound => LoopInUse(k, dms, mounts, {}))
        \/ loops' = [loops EXCEPT ![k] = FreeLoop] /\ ~LoopInUse(k, dms, mounts, {})
        \/ loops' = w /\ LoopInUse(k, dms, mounts, {}) /\ loops[k].bound
    BY <1>1 DEF Cleared, w
  <1>4. CASE loops' = loops /\ (loops[k].bound => LoopInUse(k, dms, mounts, {}))
    BY <1>4 DEF Shrinks, Same
  <1>5. CASE loops' = [loops EXCEPT ![k] = FreeLoop] /\ ~LoopInUse(k, dms, mounts, {})
    <2>1. loops'[k] = FreeLoop /\ \A j \in Loop : j # k => loops'[j] = loops[j]
      BY <1>1, <1>5 DEF LoopStates
    <2> QED BY <1>5, <2>1 DEF Shrinks, Same
  <1>6. CASE loops' = w /\ LoopInUse(k, dms, mounts, {}) /\ loops[k].bound
    BY <1>2, <1>6 DEF Shrinks, Same
  <1> QED BY <1>3, <1>4, <1>5, <1>6

\* Fewer containers are settled as well.
LEMMA SettledShrinks ==
  ASSUME NEW d, NEW m, loops' = Settled(loops, d, m, {})
  PROVE  /\ Shrinks(d, m)
         /\ \A k \in Loop : ~loops[k].clearing => loops'[k] = loops[k]
  <1>1. \A k \in Loop : \/ loops'[k] = loops[k]
                        \/ /\ loops[k].clearing /\ ~LoopInUse(k, d, m, {})
                           /\ loops'[k] = FreeLoop
    BY DEF Settled
  <1> QED BY <1>1 DEF Shrinks, Same

(* Letting go of what is not in use leaves the hardware as it should be.    *)
LEMMA ShrinkHardware ==
  ASSUME Shapes, Shapes', Hardware, UNCHANGED <<file, secureArea>>, held' = {},
         Shrinks(dms', mounts'),
         \A id \in Ids : dms'[id] \in {dms[id], NoDevice},
         \A id \in Ids : \/ mounts'[id] = <<>>
                         \/ /\ dms'[id] = dms[id] /\ Len(mounts'[id]) = Len(mounts[id])
                            /\ mounts'[id] = <<>> <=> mounts[id] = <<>>
                            /\ \A i \in 1..Len(mounts[id]) :
                                 /\ mounts'[id][i].loop = mounts[id][i].loop
                                 /\ mounts'[id][i].dm = mounts[id][i].dm
  PROVE  /\ Hardware'
         /\ \A id \in Ids : Released(id) => Released(id)'
  <1>1. \A id \in Ids : /\ DOMAIN mounts'[id] = 1..Len(mounts'[id])
                        /\ mounts'[id] = <<>> => 1..Len(mounts'[id]) = {}
    <2>1. \A id \in Ids : mounts'[id] \in Seq([loop : Loop, dm : BOOLEAN, ro : BOOLEAN])
      BY DEF Shapes, TypeOK
    <2>2. \A id \in Ids : DOMAIN mounts'[id] = 1..Len(mounts'[id]) BY <2>1, LenProperties
    <2>3. Len(<<>>) = 0 BY EmptySeq
    <2>4. \A id \in Ids : mounts'[id] = <<>> => 1..Len(mounts'[id]) = {} BY <2>3
    <2> QED BY <2>2, <2>4
  <1>2. /\ \A id \in Ids : dms'[id] \in Loop => Same(dms'[id])
        /\ \A id \in Ids : \A i \in 1..Len(mounts'[id]) :
             mounts'[id][i].loop \in Loop => Same(mounts'[id][i].loop)
    BY <1>1 DEF Shrinks, LoopInUse
  <1>3. \A k \in Loop : Same(k) \/ loops'[k] = FreeLoop BY DEF Shrinks
  <1>4. FilesDiffer' BY DEF Hardware, FilesDiffer
  <1>5. LoopsFit'
    <2>1. ASSUME NEW k \in Loop
          PROVE  IF loops'[k].bound THEN loops'[k].name \in Ids \/ "loopstatus" \in Failing
                                    ELSE loops'[k] = FreeLoop
      <3>1. IF loops[k].bound THEN loops[k].name \in Ids \/ "loopstatus" \in Failing
                              ELSE loops[k] = FreeLoop
        BY DEF Hardware, LoopsFit
      <3>2. CASE Same(k) BY <3>1, <3>2 DEF Same
      <3>3. CASE loops'[k] = FreeLoop BY <3>3 DEF FreeLoop
      <3> QED BY <1>3, <3>2, <3>3
    <2>2. \A k \in Loop : loops'[k].bound => Same(k) BY <1>3 DEF FreeLoop
    <2>3. \A k \in Loop, id \in Ids :
            Bears(k, id)' => Bears(k, id) /\ loops'[k].file = loops[k].file
      BY <2>2 DEF Bears, Same
    <2>4. \A j, k \in Loop, id1, id2 \in Ids : Bears(j, id1)' /\ Bears(k, id2)'
            /\ (id1 = id2 \/ loops'[j].file = loops'[k].file) => j = k
      BY <2>3 DEF Hardware, LoopsFit
    <2> QED BY <2>1, <2>4 DEF LoopsFit, Bears
  <1>6. DmsFit'
    <2>1. ASSUME NEW id \in Ids, dms'[id] \notin Absent
          PROVE  dms'[id] \in Loop /\ Bears(dms[id], id)'
      <3>1. dms'[id] = dms[id] BY <2>1, AbsentMeans
      <3>2. dms[id] \in Loop /\ Bears(dms[id], id) BY <2>1, <3>1 DEF Hardware, DmsFit
      <3>3. Same(dms[id]) BY <1>2, <3>1, <3>2
      <3> QED BY <3>1, <3>2, <3>3 DEF Bears, Same
    <2> QED BY <2>1 DEF DmsFit, Bears, Absent
  <1>7. MountsFit'
    <2>1. ASSUME NEW id \in Ids, NEW i \in 1..Len(mounts'[id])
          PROVE  MountFits(id, mounts[id][i])'
      <3>1. mounts'[id] # <<>> BY <1>1
      <3>2. /\ dms'[id] = dms[id] /\ i \in 1..Len(mounts[id])
            /\ mounts'[id][i].loop = mounts[id][i].loop /\ mounts'[id][i].dm = mounts[id][i].dm
        BY <3>1
      <3>3. MountFits(id, mounts[id][i]) BY <3>2 DEF Hardware, MountsFit
      <3>4. mounts[id][i].loop \in Loop BY <3>2, MountLoops
      <3>5. Same(mounts[id][i].loop) BY <1>2, <3>2, <3>4
      <3> QED BY <3>2, <3>3, <3>5 DEF MountFits, Bears, Own, Same, Absent
    <2>2. \A id \in ObbIds : mounts'[id] # <<>> => mounts[id] # <<>> BY DEF Ids
    <2>3. \A id \in ObbIds : mounts'[id] # <<>> => secureArea' # "unbound"
      BY <2>2 DEF Hardware, MountsFit, Mounted
    <2> QED BY <2>1, <2>3 DEF MountsFit, Mounted
  <1>8. \A id \in Ids : Released(id) => Released(id)'
    <2>1. \A k \in Loop, id \in Ids : Bears(k, id)' => Bears(k, id) BY <1>3 DEF Bears, Same, FreeLoop
    <2>2. \A id \in Ids : dms[id] \in Absent => dms'[id] \in Absent BY AbsentMeans
    <2> QED BY <2>1, <2>2 DEF Released, Absent
  <1> QED BY <1>4, <1>5, <1>6, <1>7, <1>8 DEF Hardware

-----------------------------------------------------------------------------
(* The commands that begin, and those that are one step.                    *)

(* A change of files that leaves the images of mounted containers.          *)
LEMMA FilesHardware ==
  ASSUME Hardware, UNCHANGED <<loops, dms, mounts, held>>, FilesDiffer',
         \A id \in AsecIds : Mounted(id) => Own(id)' = Own(id),
         \A id \in ObbIds : Mounted(id) => secureArea' # "unbound"
  PROVE  /\ Hardware'
         /\ \A id \in Ids : Released(id)' <=> Released(id)
  <1>1. LoopsFit' BY DEF Hardware, LoopsFit, Bears
  <1>2. DmsFit' BY DEF Hardware, DmsFit, Bears, Absent
  <1>3. \A id \in ObbIds : Own(id)' = Own(id) BY DEF Own
  <1>4. ASSUME NEW id \in Ids, NEW i \in 1..Len(mounts[id]), Mounted(id)
        PROVE  MountFits(id, mounts[id][i])'
    <2>1. MountFits(id, mounts[id][i]) BY DEF Hardware, MountsFit
    <2>2. Own(id)' = Own(id) BY <1>3, <1>4 DEF Ids
    <2> QED BY <2>1, <2>2 DEF MountFits, Bears, Absent
  <1>5. \A id \in Ids : ~Mounted(id) => 1..Len(mounts[id]) = {}
    <2>1. Len(<<>>) = 0 BY EmptySeq
    <2> QED BY <2>1 DEF Mounted
  <1>6. MountsFit' BY <1>4, <1>5 DEF MountsFit, Mounted
  <1> QED BY <1>1, <1>2, <1>6 DEF Hardware, Released, Bears, Absent

(* Both threads are idle when a command begins.                             *)
LEMMA BeginsDevices ==
  ASSUME Shapes, Lists, Devices, NEW c \in Call, NEW l \in Place, Shape(l, c), Begin(c, l),
         disturbed' = {}
  PROVE  /\ disturbed = {} /\ Listing /\ Hardware
         /\ Fits("idle", NoCall) /\ DeviceFits("idle", NoCall)
         /\ "cmd" \in Thread /\ pc'[Other("cmd")] = "idle" /\ pc'["cmd"] = l /\ call'["cmd"] = c
  <1>1. /\ disturbed = {} /\ pc["cmd"] = "idle" /\ pc'["cmd"] = l /\ call'["cmd"] = c
        /\ pc["net"] = "idle" /\ pc'["net"] = pc["net"]
    BY Begins
  <1>2. \A t \in Thread : pc[t] = "idle" BY <1>1 DEF Thread
  <1> QED BY <1>1, <1>2, IdleDevices, Others DEF Thread

(* Without an operation only mounted containers have devices.               *)
LEMMA IdleReleased ==
  ASSUME DeviceFits("idle", NoCall)
  PROVE  \A id \in Ids : ~Mounted(id) => Released(id)
  BY DEF DeviceFits, Holding, HasLoop

(* A new image, where the ASEC is not found, is behind no loop device.      *)
LEMMA ImageHardware ==
  ASSUME ContainerAssumption, ListAssumption, Shapes, Listing, Hardware,
         NEW id \in AsecIds, NEW dir \in Directory, ImageCreated(id, dir),
         UNCHANGED <<loops, dms, mounts, held>>
  PROVE  /\ Hardware' /\ ~Mounted(id)
         /\ \A i \in Ids : Released(i)' <=> Released(i)
         /\ \A i \in AsecIds : i # id => file'[i] = file[i]
         /\ dir = OwnDir(id)'
         /\ secureArea' = secureArea
  <1>1. PICK img \in Images : ~InFile(img) /\ file' = [file EXCEPT ![id][dir] = img]
    BY DEF ImageCreated
  <1>2. img # None BY DEF ContainerAssumption
  <1>3. /\ file'[id][dir] = img
        /\ \A i \in AsecIds, d \in Directory : i # id \/ d # dir => file'[i][d] = file[i][d]
        /\ \A i \in AsecIds : i # id => file'[i] = file[i]
        /\ file[id][dir] = None
    BY <1>1, Typed DEF ImageCreated
  <1>4. \A i \in AsecIds, d \in Directory : file[i][d] # img BY <1>1 DEF InFile
  <1>5. FilesDiffer' BY <1>2, <1>3, <1>4 DEF Hardware, FilesDiffer
  <1>6. ~Kept(id) BY FoundKept DEF ImageCreated
  <1>7. ~Mounted(id) BY <1>6 DEF Listing
  <1>8. \A i \in AsecIds : Mounted(i) => Own(i)' = Own(i) BY <1>3, <1>7 DEF Own
  <1>9. secureArea' = secureArea BY DEF ImageCreated
  <1>10. \A i \in ObbIds : Mounted(i) => secureArea' # "unbound" BY <1>9 DEF Hardware, MountsFit
  <1>11. dir = OwnDir(id)'
    <2>1. CASE dir = "int" BY <1>2, <1>3, <2>1 DEF OwnDir
    <2>2. CASE dir = "ext"
      <3>1. file'[id]["int"] = file[id]["int"] BY <1>3, <2>2 DEF Directory
      <3> QED BY <1>6, <2>2, <3>1 DEF Kept, OwnDir
    <2> QED BY <2>1, <2>2 DEF Directory
  <1> QED BY <1>3, <1>5, <1>7, <1>8, <1>9, <1>10, <1>11, FilesHardware

\* Asec create begins, its image file made: keeps Devices.
LEMMA StartCreateDevices ==
  ASSUME ContainerAssumption, ListAssumption, Shapes, Lists, Devices, StartCreate, disturbed' = {}
  PROVE  Devices'
  <1>1. PICK id \in AsecIds, dir \in Directory, key \in BOOLEAN, fs \in Filesystems :
          /\ ImageCreated(id, dir)
          /\ Begin([NoCall EXCEPT !.op = "create", !.id = id, !.dir = dir, !.key = key, !.fs = fs],
                   "loop")
    BY DEF StartCreate
  <1> DEFINE c == [NoCall EXCEPT !.op = "create", !.id = id, !.dir = dir, !.key = key, !.fs = fs]
  <1>2. /\ NoCall.loop \in Loop /\ NoCall.todo \in Seq(Ids) /\ NoCall.freed = {}
        /\ fs \in {"none", "fat", "ext4"} /\ id \in Ids
    BY NoCallTyped DEF Call, NoCall, ContainerAssumption, Ids
  <1>3. c \in Call BY <1>2 DEF NoCall, Call
  <1>4. Shape("loop", c) BY <1>2 DEF NoCall, Shape, Making, Unmounting
  <1>5. "loop" \in Place /\ "loop" \notin HasLoop BY DEF Place, Making, HasLoop
  <1>6. Begin(c, "loop") BY <1>1
  <1>7. c.id = id /\ c.dir = dir BY DEF NoCall
  <1> HIDE DEF c
  <1>8. /\ Listing /\ Hardware /\ DeviceFits("idle", NoCall)
        /\ "cmd" \in Thread /\ pc'[Other("cmd")] = "idle" /\ pc'["cmd"] = "loop" /\ call'["cmd"] = c
    BY <1>3, <1>4, <1>5, <1>6, BeginsDevices
  <1>9. UNCHANGED <<loops, dms, mounts, held>> BY DEF StartCreate, deviceVars
  <1>10. /\ Hardware' /\ dir = OwnDir(id)'
         /\ \A i \in Ids : Released(i)' <=> Released(i)
    BY <1>1, <1>8, <1>9, ImageHardware
  <1>11. \A i \in Ids : Mounted(i)' <=> Mounted(i) BY <1>9 DEF Mounted
  <1>12. DeviceFits("loop", c)'
    BY <1>5, <1>7, <1>8, <1>10, <1>11, IdleReleased DEF DeviceFits
  <1>13. DeviceFits(pc["cmd"], call["cmd"])'
    BY <1>8, <1>12 DEF DeviceFits, Holding, OwnDir, Own, Bears, Mounted, Released
  <1> QED BY <1>8, <1>10, <1>13, DevicesFrom

(* No container with devices of an operation changes its files.             *)
LEMMA FilesDevices ==
  ASSUME ContainerAssumption, Shapes, Lists, Devices, disturbed = {},
         UNCHANGED <<loops, dms, mounts, held, pc, call>>, Hardware',
         \A i \in Ids : Released(i)' <=> Released(i),
         pc["cmd"] \in Making => Own(call["cmd"].id)' = Own(call["cmd"].id)
                                 /\ OwnDir(call["cmd"].id)' = OwnDir(call["cmd"].id),
         secureArea # "unbound" => secureArea' # "unbound"
  PROVE  Devices'
  <1>1. PICK t \in Thread : pc[Other(t)] = "idle" /\ DeviceFits(pc[t], call[t]) BY SomeDevices
  <1>2. pc'[Other(t)] = "idle" BY <1>1
  <1>3. pc[t] \in Making => t = "cmd"
    BY Typed DEF Control, NetShape, CleanupPart, Making, Unmounting, Thread
  <1>4. HasLoop \subseteq Making BY DEF HasLoop, Making
  <1>5. \A i \in Ids : Mounted(i)' <=> Mounted(i) BY DEF Mounted
  <1>6. DeviceFits(pc[t], call[t])'
    BY <1>1, <1>3, <1>4, <1>5 DEF DeviceFits, OnDevice, Holding, Bears, Absent
  <1> QED BY <1>2, <1>6, DevicesFrom

\* An image file that came out too short stays: keeps Devices.
LEMMA CreateImageFailsDevices ==
  ASSUME ContainerAssumption, ListAssumption, Shapes, Lists, Devices, CreateImageFails,
         disturbed' = {}
  PROVE  Devices'
  <1>1. PICK id \in AsecIds, dir \in Directory : ImageCreated(id, dir) BY DEF CreateImageFails
  <1>2. /\ UNCHANGED <<loops, dms, mounts, held, pc, call, disturbed>>
        /\ pc["cmd"] = "idle" /\ disturbed = {}
    BY DEF CreateImageFails, deviceVars, threadVars
  <1>3. Listing /\ Hardware BY <1>2, SomeDevices
  <1>4. /\ Hardware' /\ secureArea' = secureArea
        /\ \A i \in Ids : Released(i)' <=> Released(i)
    BY <1>1, <1>2, <1>3, ImageHardware
  <1>5. pc["cmd"] \notin Making BY <1>2 DEF Making
  <1> QED BY <1>2, <1>4, <1>5, FilesDevices

(* A command on one container begins and touches no device.                 *)
LEMMA BeginsHardware ==
  ASSUME Shapes, Lists, Devices, NEW c \in Call, NEW l \in Place, Shape(l, c), Begin(c, l),
         disturbed' = {}, UNCHANGED <<fileVars, deviceVars, mActiveContainers>>,
         l \in {"loop", "um_check", "next", "unlink"}, l = "loop" => c.dir = OwnDir(c.id)
  PROVE  Devices'
  <1>1. /\ Hardware /\ DeviceFits("idle", NoCall)
        /\ "cmd" \in Thread /\ pc'[Other("cmd")] = "idle" /\ pc'["cmd"] = l /\ call'["cmd"] = c
    BY BeginsDevices
  <1>2. DeviceFits(l, c) BY <1>1, IdleReleased DEF DeviceFits, HasLoop, Making
  <1>3. UNCHANGED <<file, secureArea, loops, dms, mounts, held>> BY DEF fileVars, deviceVars
  <1> QED BY <1>1, <1>2, <1>3, DevicesKept

\* A mount begins: keeps Devices.
LEMMA StartMountDevices ==
  ASSUME ContainerAssumption, ListAssumption, Shapes, Lists, Devices, StartMount, disturbed' = {}
  PROVE  Devices'
  <1>1. PICK id \in Ids, key \in BOOLEAN : \E dir \in Location(id) :
          Begin([NoCall EXCEPT !.op = "mount", !.id = id, !.dir = dir, !.key = key], "loop")
    BY DEF StartMount
  <1>2. PICK dir \in Location(id) :
          Begin([NoCall EXCEPT !.op = "mount", !.id = id, !.dir = dir, !.key = key], "loop")
    BY <1>1
  <1> DEFINE c == [NoCall EXCEPT !.op = "mount", !.id = id, !.dir = dir, !.key = key]
  <1>3. dir \in Directory BY FilesTyped, Typed
  <1>4. c \in Call BY <1>3, NoCallTyped DEF NoCall, Call
  <1>5. Shape("loop", c) BY DEF NoCall, Shape, Making, Unmounting
  <1>6. c.id = id /\ c.dir = dir BY DEF NoCall
  <1>7. "loop" \in Place BY DEF Place, Making
  <1>8. Begin(c, "loop") BY <1>2
  <1> HIDE DEF c
  <1>9. dir = OwnDir(id)
    BY <1>2 DEF OwnDir, Location, Found, Stored, MayFail, ListAssumption, ContainerAssumption, Ids
  <1>10. UNCHANGED <<fileVars, deviceVars, mActiveContainers>> BY DEF StartMount
  <1> QED BY <1>4, <1>5, <1>6, <1>7, <1>8, <1>9, <1>10, BeginsHardware

\* An unmount begins: keeps Devices.
LEMMA StartUnmountDevices ==
  ASSUME ContainerAssumption, Shapes, Lists, Devices, StartUnmount, disturbed' = {}
  PROVE  Devices'
  <1>1. PICK id \in Ids : Begin([NoCall EXCEPT !.op = "unmount", !.id = id], "um_check")
    BY DEF StartUnmount
  <1> DEFINE c == [NoCall EXCEPT !.op = "unmount", !.id = id]
  <1>2. c \in Call BY NoCallTyped DEF NoCall, Call
  <1>3. Shape("um_check", c) BY DEF NoCall, Shape, Making, Unmounting
  <1>4. "um_check" \in Place BY DEF Place, Unmounting
  <1>5. Begin(c, "um_check") BY <1>1
  <1> HIDE DEF c
  <1>6. UNCHANGED <<fileVars, deviceVars, mActiveContainers>> BY DEF StartUnmount
  <1> QED BY <1>2, <1>3, <1>4, <1>5, <1>6, BeginsHardware

\* UnmountAllAsecsInDir selects its containers: keeps Devices.
LEMMA StartUnmountAllDevices ==
  ASSUME ContainerAssumption, Shapes, Lists, Devices, StartUnmountAll, disturbed' = {}
  PROVE  Devices'
  <1>1. PICK ext \in SetToSeqs(FilesIn("ext")), int \in SetToSeqs(FilesIn("int")) :
          Begin([NoCall EXCEPT !.op = "unmountAll", !.todo = ext \o int], "next")
    BY DEF StartUnmountAll
  <1> DEFINE todo == ext \o int
             c == [NoCall EXCEPT !.op = "unmountAll", !.todo = todo]
  <1>2. todo \in Seq(Ids) BY PathsTyped, ConcatProperties
  <1>3. Begin(c, "next") BY <1>1
  <1> HIDE DEF todo
  <1>4. c \in Call BY <1>2, NoCallTyped DEF NoCall, Call
  <1>5. Shape("next", c) BY DEF NoCall, Shape, Making, Unmounting
  <1>6. "next" \in Place BY DEF Place
  <1> HIDE DEF c
  <1>7. UNCHANGED <<fileVars, deviceVars, mActiveContainers>> BY DEF StartUnmountAll
  <1> QED BY <1>3, <1>4, <1>5, <1>6, <1>7, BeginsHardware

\* Asec destroy begins with an unmount, if it is mounted: keeps Devices.
LEMMA StartDestroyDevices ==
  ASSUME ContainerAssumption, Shapes, Lists, Devices, StartDestroy, disturbed' = {}
  PROVE  Devices'
  <1>1. PICK id \in AsecIds : \E dir \in Location(id), l \in {"um_check", "unlink"} :
          Begin([NoCall EXCEPT !.op = "destroy", !.id = id, !.dir = dir], l)
    BY DEF StartDestroy
  <1>2. PICK dir \in Location(id), l \in {"um_check", "unlink"} :
          Begin([NoCall EXCEPT !.op = "destroy", !.id = id, !.dir = dir], l)
    BY <1>1
  <1> DEFINE c == [NoCall EXCEPT !.op = "destroy", !.id = id, !.dir = dir]
  <1>3. dir \in Directory /\ id \in Ids BY FilesTyped, Typed DEF Ids
  <1>4. c \in Call BY <1>3, NoCallTyped DEF NoCall, Call
  <1>5. Shape(l, c) BY <1>3 DEF NoCall, Shape, Making, Unmounting
  <1>6. l \in Place /\ l \in {"um_check", "unlink"} BY DEF Place, Unmounting
  <1>7. Begin(c, l) BY <1>2
  <1> HIDE DEF c
  <1>8. UNCHANGED <<fileVars, deviceVars, mActiveContainers>> BY DEF StartDestroy
  <1> QED BY <1>4, <1>5, <1>6, <1>7, <1>8, BeginsHardware

\* CleanupAsec selects its containers, on either thread: keeps Devices.
LEMMA CleanupDevices ==
  ASSUME ContainerAssumption, Shapes, Lists, Devices, StartUnmountVolume \/ BadRemoval,
         disturbed' = {}
  PROVE  Devices'
  <1>1. PICK t \in Thread : Cleanup(t) /\ pc[t] = "idle"
    BY DEF StartUnmountVolume, BadRemoval, Thread
  <1>2. /\ pc'[t] = "next"
        /\ \A u \in Thread : u # t => pc'[u] = pc[u]
    BY <1>1, CleanupMoves
  <1>3. disturbed = {} /\ pc[Other(t)] = "idle" BY <1>1 DEF Cleanup
  <1>4. Other(t) \in Thread /\ Other(t) # t /\ \A u \in Thread : u = t \/ u = Other(t)
    BY Others DEF Thread
  <1>5. Hardware /\ DeviceFits("idle", NoCall) BY <1>1, <1>3, <1>4, IdleDevices
  <1>6. PICK c : c = call'[t] OBVIOUS
  <1>7. DeviceFits("next", c) BY <1>5, IdleReleased DEF DeviceFits, HasLoop, Making
  <1>8. UNCHANGED <<file, secureArea, loops, dms, mounts, held>>
    BY DEF StartUnmountVolume, BadRemoval, fileVars, deviceVars
  <1> QED BY <1>2, <1>3, <1>4, <1>5, <1>6, <1>7, <1>8, DevicesKept

\* Asec rename, both names unmounted: keeps Devices.
LEMMA RenameDevices ==
  ASSUME ContainerAssumption, ListAssumption, Shapes, Lists, Devices, Rename, disturbed' = {}
  PROVE  Devices'
  <1>1. PICK id1 \in AsecIds, id2 \in AsecIds, dir \in Directory :
          /\ ~Mounted(id1) /\ ~Mounted(id2)
          /\ file[id2][dir] = None
          /\ file' = [file EXCEPT ![id2][dir] = file[id1][dir], ![id1][dir] = None]
    BY FilesTyped, Typed, SeemsAsItIs DEF Rename, Ids
  <1>2. /\ UNCHANGED <<secureArea, loops, dms, mounts, held, pc, call, disturbed>>
        /\ pc["cmd"] = "idle" /\ disturbed = {}
    BY DEF Rename, deviceVars, threadVars
  <1>3. Hardware BY <1>2, SomeDevices
  <1>4. /\ \A i \in AsecIds, d \in Directory : (i # id1 /\ i # id2) \/ d # dir => file'[i][d] = file[i][d]
        /\ file'[id1][dir] = None
        /\ id2 # id1 => file'[id2][dir] = file[id1][dir]
    BY <1>1, Typed
  <1>5. FilesDiffer' BY <1>3, <1>4 DEF Hardware, FilesDiffer
  <1>6. \A i \in AsecIds : Mounted(i) => Own(i)' = Own(i)
    BY <1>1, <1>4 DEF Own, Directory
  <1>7. \A i \in ObbIds : Mounted(i) => secureArea' # "unbound" BY <1>2, <1>3 DEF Hardware, MountsFit
  <1>8. Hardware' /\ \A i \in Ids : Released(i)' <=> Released(i)
    BY <1>2, <1>3, <1>5, <1>6, <1>7, FilesHardware
  <1>9. pc["cmd"] \notin Making BY <1>2 DEF Making
  <1> QED BY <1>2, <1>8, <1>9, FilesDevices

(* The operation returns, and nothing has devices but what is mounted.      *)
LEMMA ReturnsDevices ==
  ASSUME Hardware', NEW t \in Thread, pc'[t] = "idle", pc'[Other(t)] = "idle",
         \A id \in Ids : ~Mounted(id)' => Released(id)'
  PROVE  Devices'
  <1>1. DeviceFits(pc[t], call[t])' BY DEF DeviceFits, Making, HasLoop
  <1> QED BY <1>1, DevicesFrom

(* A step of a thread that has no devices lets go of devices at most.       *)
LEMMA ReleasesDevices ==
  ASSUME Shapes, Lists, Devices, disturbed = {}, pc["cmd"] \notin Making,
         UNCHANGED <<dms, pc, call>>, Hardware',
         \A id \in Ids : Mounted(id)' <=> Mounted(id),
         \A id \in Ids : Released(id) => Released(id)'
  PROVE  Devices'
  <1>1. PICK t \in Thread : pc[Other(t)] = "idle" /\ DeviceFits(pc[t], call[t]) BY SomeDevices
  <1>2. pc[t] \notin Making
    BY Typed DEF Control, NetShape, CleanupPart, Making, Unmounting, Thread
  <1>3. HasLoop \subseteq Making BY DEF HasLoop, Making
  <1>4. "dm" \in Making BY DEF Making
  <1>5. DeviceFits(pc[t], call[t])'
    BY <1>1, <1>2, <1>3, <1>4 DEF DeviceFits, Holding, HasLoop
  <1>6. pc'[Other(t)] = "idle" BY <1>1
  <1> QED BY <1>5, <1>6, DevicesFrom

(* What is mounted is mounted again in another way.                         *)
LEMMA RemountHardware ==
  ASSUME Shapes, Shapes', Hardware, UNCHANGED <<file, secureArea, loops, dms, held>>,
         NEW id \in Ids, NEW ro \in BOOLEAN, mounts' = mounts \/ mounts' = Remounted(id, ro)
  PROVE  /\ Hardware'
         /\ \A j \in Ids : Mounted(j)' <=> Mounted(j)
         /\ \A j \in Ids : Released(j) => Released(j)'
  <1>1. \A j \in Ids : /\ Len(mounts'[j]) = Len(mounts[j])
                       /\ mounts'[j] = <<>> <=> mounts[j] = <<>>
                       /\ \A i \in 1..Len(mounts[j]) :
                            /\ mounts'[j][i].loop = mounts[j][i].loop
                            /\ mounts'[j][i].dm = mounts[j][i].dm
    BY RemountedTyped
  <1>2. Shrinks(dms', mounts') BY DEF Shrinks, Same
  <1>3. held' = {} BY DEF Hardware
  <1> QED BY <1>1, <1>2, <1>3, ShrinkHardware DEF Mounted

(* A loop device is let go of, if it is not in use.                         *)
LEMMA ClearHardware ==
  ASSUME Shapes, Shapes', Hardware, UNCHANGED <<file, secureArea, dms, mounts, held>>,
         NEW k \in Loop, loops' = Cleared(k)
  PROVE  /\ Hardware'
         /\ \A j \in Ids : Mounted(j)' <=> Mounted(j)
         /\ \A j \in Ids : Released(j) => Released(j)'
         /\ \A j \in Loop : j # k => loops'[j] = loops[j]
         /\ loops[k].bound /\ ~LoopInUse(k, dms, mounts, {}) => loops'[k] = FreeLoop
  <1>1. /\ Shrinks(dms, mounts)
        /\ \A j \in Loop : j # k => loops'[j] = loops[j]
        /\ loops[k].bound /\ ~LoopInUse(k, dms, mounts, {}) => loops'[k] = FreeLoop
    BY ClearedShrinks
  <1>2. Shrinks(dms', mounts') BY <1>1 DEF Shrinks, Same, LoopInUse
  <1>3. held' = {} BY DEF Hardware
  <1>4. Hardware' /\ \A j \in Ids : Released(j) => Released(j)'
    BY <1>2, <1>3, ShrinkHardware
  <1> QED BY <1>1, <1>4 DEF Mounted

(* The kernel lets go of what waits.                                        *)
LEMMA SettleHardware ==
  ASSUME Shapes, Shapes', Hardware, UNCHANGED <<file, secureArea, mounts, held>>,
         loops' = Settled(loops, dms', mounts, held),
         NEW id \in Ids, ~Mounted(id), dms' = dms \/ dms' = [dms EXCEPT ![id] = NoDevice]
  PROVE  /\ Hardware'
         /\ \A j \in Ids : Released(j) => Released(j)'
         /\ \A k \in Loop : ~loops[k].clearing => loops'[k] = loops[k]
         /\ \A j \in Ids : j # id => dms'[j] = dms[j]
  <1>1. held = {} /\ held' = {} BY DEF Hardware
  <1>2. /\ Shrinks(dms', mounts)
        /\ \A k \in Loop : ~loops[k].clearing => loops'[k] = loops[k]
    BY <1>1, SettledShrinks
  <1>3. Shrinks(dms', mounts') BY <1>2
  <1>4. dms \in DmStates BY Typed
  <1>5. /\ \A j \in Ids : j # id => dms'[j] = dms[j]
        /\ dms'[id] \in {dms[id], NoDevice}
    BY <1>4 DEF DmStates
  <1>6. mounts'[id] = <<>> BY DEF Mounted
  <1>7. Hardware' /\ \A j \in Ids : Released(j) => Released(j)'
    BY <1>1, <1>3, <1>5, <1>6, ShrinkHardware
  <1> QED BY <1>2, <1>5, <1>7

\* Asec finalize remounts read-only: keeps Devices.
LEMMA FinalizeDevices ==
  ASSUME ContainerAssumption, ReleaseAssumption, Shapes, Lists, Devices, Finalize, disturbed' = {}
  PROVE  Devices'
  <1>1. PICK id \in AsecIds, k \in Loop :
          /\ ReadsActive(id, k)
          /\ \/ mounts' = Remounted(id, TRUE) /\ UNCHANGED loops
             \/ loops' = Cleared(k) /\ UNCHANGED mounts
    BY ReleaseMeans DEF Finalize
  <1>2. /\ UNCHANGED <<file, secureArea, dms, held, pc, call, disturbed>>
        /\ disturbed = {} /\ pc["cmd"] = "idle" /\ id \in Ids
    BY <1>1 DEF Finalize, ReadsActive, fileVars, threadVars, Ids
  <1>3. Shapes' BY FinalizeShapes
  <1>4. Hardware BY <1>2, SomeDevices
  <1>5. /\ Hardware'
        /\ \A j \in Ids : Mounted(j)' <=> Mounted(j)
        /\ \A j \in Ids : Released(j) => Released(j)'
    <2>1. CASE mounts' = Remounted(id, TRUE) /\ UNCHANGED loops
      BY <1>2, <1>3, <1>4, <2>1, RemountHardware
    <2>2. CASE loops' = Cleared(k) /\ UNCHANGED mounts
      BY <1>2, <1>3, <1>4, <2>2, ClearHardware
    <2> QED BY <1>1, <2>1, <2>2
  <1>6. pc["cmd"] \notin Making BY <1>2 DEF Making
  <1> QED BY <1>2, <1>5, <1>6, ReleasesDevices

\* Asec fixperms opens a container that is mounted: keeps Devices.
LEMMA StartFixupDevices ==
  ASSUME ContainerAssumption, ReleaseAssumption, Shapes, Lists, Devices, StartFixup, disturbed' = {}
  PROVE  Devices'
  <1>1. PICK id \in AsecIds, k \in Loop :
          /\ ReadsActive(id, k)
          /\ \/ /\ mounts' = Remounted(id, FALSE)
                /\ Begin([NoCall EXCEPT !.op = "fixup", !.id = id], "seal")
                /\ UNCHANGED loops
             \/ loops' = Cleared(k) /\ UNCHANGED <<mounts, threadVars, disturbed>>
    BY ReleaseMeans DEF StartFixup
  <1>2. /\ UNCHANGED <<file, secureArea, dms, held>>
        /\ pc["cmd"] = "idle" /\ id \in Ids
    BY <1>1 DEF StartFixup, ReadsActive, fileVars, Ids
  <1>3. Shapes' BY StartFixupShapes
  <1>4. CASE /\ mounts' = Remounted(id, FALSE)
             /\ Begin([NoCall EXCEPT !.op = "fixup", !.id = id], "seal")
             /\ UNCHANGED loops
    <2> DEFINE c == [NoCall EXCEPT !.op = "fixup", !.id = id]
    <2>1. c \in Call BY <1>2, NoCallTyped DEF NoCall, Call
    <2>2. Shape("seal", c) BY <1>2 DEF NoCall, Shape, Making, Unmounting
    <2>3. "seal" \in Place /\ "seal" \notin Making \cup HasLoop BY DEF Place, Making, HasLoop
    <2>4. Begin(c, "seal") BY <1>4
    <2> HIDE DEF c
    <2>5. /\ Hardware /\ DeviceFits("idle", NoCall)
          /\ "cmd" \in Thread /\ pc'[Other("cmd")] = "idle" /\ pc'["cmd"] = "seal"
      BY <2>1, <2>2, <2>3, <2>4, BeginsDevices
    <2>6. /\ Hardware'
          /\ \A j \in Ids : Mounted(j)' <=> Mounted(j)
          /\ \A j \in Ids : Released(j) => Released(j)'
      BY <1>2, <1>3, <1>4, <2>5, RemountHardware
    <2>7. DeviceFits(pc["cmd"], call["cmd"])'
      BY <2>3, <2>5, <2>6, IdleReleased DEF DeviceFits, HasLoop
    <2> QED BY <2>5, <2>6, <2>7, DevicesFrom
  <1>5. CASE loops' = Cleared(k) /\ UNCHANGED <<mounts, threadVars, disturbed>>
    <2>1. disturbed = {} /\ UNCHANGED <<pc, call, mounts>> BY <1>5 DEF threadVars
    <2>2. Hardware BY <2>1, SomeDevices
    <2>3. /\ Hardware'
          /\ \A j \in Ids : Mounted(j)' <=> Mounted(j)
          /\ \A j \in Ids : Released(j) => Released(j)'
      BY <1>2, <1>3, <1>5, <2>1, <2>2, ClearHardware
    <2>4. pc["cmd"] \notin Making BY <1>2 DEF Making
    <2> QED BY <1>2, <2>1, <2>3, <2>4, ReleasesDevices
  <1> QED BY <1>1, <1>4, <1>5

\* Asec fixperms closes it again: keeps Devices.
LEMMA FixupSealsDevices ==
  ASSUME ContainerAssumption, Shapes, Lists, Devices, FixupSeals, disturbed' = {}
  PROVE  Devices'
  <1>1. /\ pc["cmd"] = "seal" /\ pc["cmd"] # "idle" /\ Return("cmd") /\ disturbed = {}
        /\ UNCHANGED <<file, secureArea, loops, dms, held>>
        /\ mounts' = mounts \/ mounts' = Remounted(call["cmd"].id, TRUE)
    BY DEF FixupSeals, fileVars
  <1>2. "cmd" \in Thread /\ "net" \in Thread /\ Other("cmd") = "net" BY Others DEF Thread
  <1>3. Hardware /\ pc["net"] = "idle" /\ DeviceFits("seal", call["cmd"])
    BY <1>1, <1>2, BusyDevices
  <1>4. call["cmd"].id \in Ids BY <1>1, <1>2, Typed DEF Shape
  <1>5. Shapes' BY FixupSealsShapes
  <1>6. pc'["cmd"] = "idle" /\ pc'["net"] = "idle" BY <1>1, <1>2, <1>3, Typed, Returns
  <1>7. /\ Hardware'
        /\ \A j \in Ids : Mounted(j)' <=> Mounted(j)
        /\ \A j \in Ids : Released(j) => Released(j)'
    BY <1>1, <1>3, <1>4, <1>5, RemountHardware
  <1>8. \A j \in Ids : ~Mounted(j) => Released(j) BY <1>3 DEF DeviceFits, Holding, HasLoop
  <1> QED BY <1>2, <1>6, <1>7, <1>8, ReturnsDevices
-----------------------------------------------------------------------------
(* The steps of createAsec, mountAsec and mountObb.                         *)

(* A command that makes devices, beside which nothing runs.                 *)
LEMMA MakingDevices ==
  ASSUME Shapes, Lists, Devices, disturbed = {}, pc["cmd"] \in Making
  PROVE  /\ Listing /\ Hardware /\ Fits(pc["cmd"], call["cmd"])
         /\ DeviceFits(pc["cmd"], call["cmd"])
         /\ "cmd" \in Thread /\ "net" \in Thread /\ Other("cmd") = "net" /\ pc["net"] = "idle"
         /\ pc["cmd"] # "push" => ~Mounted(call["cmd"].id)
         /\ call["cmd"].id \in Ids /\ call["cmd"].dir = OwnDir(call["cmd"].id)
         /\ pc \in [Thread -> Place] /\ call \in [Thread -> Call]
  <1>1. "cmd" \in Thread /\ "net" \in Thread /\ Other("cmd") = "net" BY Others DEF Thread
  <1>2. pc["cmd"] # "idle" BY DEF Making
  <1>3. /\ Listing /\ Hardware /\ Fits(pc["cmd"], call["cmd"])
        /\ DeviceFits(pc["cmd"], call["cmd"]) /\ pc["net"] = "idle"
    BY <1>1, <1>2, BusyDevices
  <1>4. pc["cmd"] # "push" => ~Mounted(call["cmd"].id) BY <1>3 DEF Fits, CallFits
  <1>5. call["cmd"].dir = OwnDir(call["cmd"].id) BY <1>3 DEF DeviceFits
  <1>6. pc \in [Thread -> Place] /\ call \in [Thread -> Call] BY Typed DEF Control
  <1> QED BY <1>1, <1>3, <1>4, <1>5, <1>6, CommandTyped

(* It goes on.                                                              *)
LEMMA CommandGoesOn ==
  ASSUME Hardware', pc["net"] = "idle", pc'["net"] = pc["net"],
         DeviceFits(pc["cmd"], call["cmd"])'
  PROVE  Devices'
  <1>1. "cmd" \in Thread /\ Other("cmd") = "net" BY Others DEF Thread
  <1>2. pc'[Other("cmd")] = "idle" BY <1>1
  <1> QED BY <1>1, <1>2, DevicesFrom

(* Two containers have two images.                                          *)
LEMMA OwnDiffers ==
  ASSUME ContainerAssumption, Shapes, FilesDiffer, NEW i \in Ids, NEW j \in Ids,
         Own(i) # None, Own(i) = Own(j)
  PROVE  i = j
  <1>1. \A id \in AsecIds : Own(id) \in Images \cup {None} /\ id \notin ObbIds
    BY Typed DEF Own, Directory, ContainerAssumption
  <1>2. CASE i \in ObbIds \/ j \in ObbIds BY <1>1, <1>2 DEF Own, ContainerAssumption, Ids
  <1>3. CASE i \in AsecIds /\ j \in AsecIds
    BY <1>1, <1>3 DEF Own, FilesDiffer, Directory
  <1> QED BY <1>2, <1>3 DEF Ids

(* What is mounted has its image behind the device that bears its id.       *)
LEMMA MountedBears ==
  ASSUME Shapes, Hardware, NEW k \in Loop, NEW id \in Ids, Bears(k, id), Mounted(id)
  PROVE  loops[k].file = Own(id)
  <1>1. 1 \in 1..Len(mounts[id]) BY MountPlaces
  <1>2. MountFits(id, mounts[id][1]) BY <1>1 DEF Hardware, MountsFit
  <1>3. mounts[id][1].loop \in Loop BY <1>1, MountLoops
  <1>4. mounts[id][1].loop = k BY <1>2, <1>3 DEF MountFits, Bears, Hardware, LoopsFit
  <1> QED BY <1>2, <1>4 DEF MountFits

(* A device that was free is bound, and bears the id of no container or of  *)
(* one that has no other and whose image is behind no other.                *)
LEMMA BoundHardware ==
  ASSUME Shapes, Hardware, UNCHANGED <<file, secureArea, dms, mounts, held>>,
         NEW k \in Loop, ~loops[k].bound, NEW new, new.bound,
         loops' = [loops EXCEPT ![k] = new],
         new.name \in Ids \/ "loopstatus" \in Failing,
         new.name \in Ids => \A j \in Loop, i \in Ids :
           Bears(j, i) => i # new.name /\ loops[j].file # new.file
  PROVE  /\ Hardware' /\ loops'[k] = new
         /\ \A i \in Ids : i # new.name /\ Released(i) => Released(i)'
  <1>1. loops'[k] = new /\ \A j \in Loop : j # k => loops'[j] = loops[j] BY Typed DEF LoopStates
  <1>2. \A j \in Loop : loops[j].bound => j # k /\ loops'[j] = loops[j] BY <1>1
  <1>3. FilesDiffer' BY DEF Hardware, FilesDiffer
  <1>4. LoopsFit'
    <2>1. ASSUME NEW j \in Loop
          PROVE  IF loops'[j].bound THEN loops'[j].name \in Ids \/ "loopstatus" \in Failing
                                    ELSE loops'[j] = FreeLoop
      BY <1>1 DEF Hardware, LoopsFit
    <2>2. ASSUME NEW j \in Loop, NEW h \in Loop, NEW id1 \in Ids, NEW id2 \in Ids,
                 Bears(j, id1)', Bears(h, id2)', id1 = id2 \/ loops'[j].file = loops'[h].file
          PROVE  j = h
      <3>1. CASE j # k /\ h # k BY <1>1, <2>2, <3>1 DEF Hardware, LoopsFit, Bears
      <3>2. CASE j = k /\ h # k BY <1>1, <2>2, <3>2 DEF Bears
      <3>3. CASE j # k /\ h = k BY <1>1, <2>2, <3>3 DEF Bears
      <3> QED BY <3>1, <3>2, <3>3
    <2> QED BY <2>1, <2>2 DEF LoopsFit, Bears
  <1>5. DmsFit'
    <2>1. ASSUME NEW i \in Ids, dms'[i] \notin Absent PROVE dms'[i] \in Loop /\ Bears(dms[i], i)'
      <3>1. dms[i] \in Loop /\ Bears(dms[i], i) /\ dms'[i] = dms[i] BY <2>1 DEF Hardware, DmsFit
      <3> QED BY <1>2, <3>1 DEF Bears
    <2> QED BY <2>1 DEF DmsFit, Bears, Absent
  <1>6. MountsFit'
    <2>1. ASSUME NEW i \in Ids, NEW n \in 1..Len(mounts[i]) PROVE MountFits(i, mounts[i][n])'
      <3>1. MountFits(i, mounts[i][n]) BY DEF Hardware, MountsFit
      <3>2. mounts[i][n].loop \in Loop BY MountLoops
      <3> QED BY <1>2, <3>1, <3>2 DEF MountFits, Bears, Own, Absent
    <2> QED BY <2>1 DEF MountsFit, Mounted, Hardware
  <1>7. Hardware' BY <1>3, <1>4, <1>5, <1>6 DEF Hardware
  <1>8. \A i \in Ids : i # new.name /\ Released(i) => Released(i)'
    <2>1. \A j \in Loop, i \in Ids : i # new.name /\ Bears(j, i)' => Bears(j, i)
      BY <1>1 DEF Bears
    <2> QED BY <2>1 DEF Released, Absent
  <1> QED BY <1>1, <1>7, <1>8

(* A new loop device for a container without one.                           *)
LEMMA NewLoopHardware ==
  ASSUME ContainerAssumption, Shapes, Hardware, UNCHANGED <<file, secureArea, dms, mounts, held>>,
         NEW id \in Ids, \A i \in Ids : ~Mounted(i) => Released(i), ~Mounted(id),
         Own(id) # None, NEW k \in FirstFree,
         loops' = [loops EXCEPT ![k] = [bound |-> TRUE, name |-> id,
                                        file |-> Own(id), clearing |-> FALSE]]
  PROVE  /\ Hardware'
         /\ \A i \in Ids : i # id /\ Released(i) => Released(i)'
         /\ Bears(k, id)' /\ ~loops'[k].clearing /\ loops'[k].file = Own(id)
  <1>1. k \in Loop /\ ~loops[k].bound BY DEF FirstFree
  <1> DEFINE new == [bound |-> TRUE, name |-> id, file |-> Own(id), clearing |-> FALSE]
  <1>2. new.bound /\ new.name = id /\ new.file = Own(id) /\ ~new.clearing OBVIOUS
  <1>3. loops' = [loops EXCEPT ![k] = new] OBVIOUS
  <1> HIDE DEF new
  <1>4. ASSUME NEW j \in Loop, NEW i \in Ids, Bears(j, i)
        PROVE  i # new.name /\ loops[j].file # new.file
    <2>1. Mounted(i) BY <1>4 DEF Released
    <2>2. i # id BY <2>1
    <2>3. loops[j].file = Own(i) BY <1>4, <2>1, MountedBears
    <2>4. Own(i) # Own(id) BY <2>2, OwnDiffers DEF Hardware
    <2> QED BY <1>2, <2>2, <2>3, <2>4
  <1>5. /\ Hardware' /\ loops'[k] = new
        /\ \A i \in Ids : i # new.name /\ Released(i) => Released(i)'
    BY <1>1, <1>2, <1>3, <1>4, BoundHardware
  <1> QED BY <1>2, <1>5 DEF Bears

(* A loop device of which LOOP_SET_STATUS failed.                           *)
LEMMA UnnamedLoopHardware ==
  ASSUME ContainerAssumption, Shapes, Hardware, UNCHANGED <<file, secureArea, dms, mounts, held>>,
         MayFail("loopstatus"), NEW k \in FirstFree, NEW img,
         loops' = [loops EXCEPT ![k] = [bound |-> TRUE, name |-> None,
                                        file |-> img, clearing |-> FALSE]]
  PROVE  /\ Hardware'
         /\ \A i \in Ids : Released(i) => Released(i)'
  <1>1. k \in Loop /\ ~loops[k].bound BY DEF FirstFree
  <1> DEFINE new == [bound |-> TRUE, name |-> None, file |-> img, clearing |-> FALSE]
  <1>2. new.bound /\ new.name = None OBVIOUS
  <1>3. loops' = [loops EXCEPT ![k] = new] OBVIOUS
  <1> HIDE DEF new
  <1>4. None \notin Ids /\ \A i \in Ids : i # new.name BY <1>2 DEF ContainerAssumption
  <1>5. "loopstatus" \in Failing BY DEF MayFail
  <1> QED BY <1>1, <1>2, <1>3, <1>4, <1>5, BoundHardware

\* The loop device of an image is found or made: keeps Devices.
LEMMA GetLoopDevices ==
  ASSUME ContainerAssumption, ReleaseAssumption, Shapes, Lists, Devices, GetLoop, disturbed' = {}
  PROVE  Devices'
  <1> DEFINE c == call["cmd"]
             after == IF c.op = "mount" THEN "info" ELSE IF c.key THEN "dm" ELSE "format"
             failed == IF c.op = "create" THEN Goto("cmd", "down_file") /\ UNCHANGED call
                                          ELSE Return("cmd")
             img == ImageOf(c.id, c.dir)
  <1>1. /\ pc["cmd"] = "loop" /\ pc["cmd"] \in Making /\ pc["cmd"] # "push"
        /\ UNCHANGED <<file, secureArea, dms, mounts, held>> /\ disturbed = {}
    BY DEF GetLoop, Making, fileVars
  <1>2. /\ Hardware /\ DeviceFits("loop", c) /\ Fits("loop", c)
        /\ "cmd" \in Thread /\ "net" \in Thread /\ Other("cmd") = "net" /\ pc["net"] = "idle"
        /\ ~Mounted(c.id) /\ c.dir = OwnDir(c.id)
        /\ pc \in [Thread -> Place] /\ call \in [Thread -> Call]
    BY <1>1, MakingDevices
  <1>3. PICK id \in Ids : id = call["cmd"].id BY <1>1, MakingDevices
  <1>4. \A i \in Ids : ~Mounted(i) => Released(i) BY <1>2 DEF DeviceFits, Holding, HasLoop
  <1>5. Active(id) = {} BY <1>2, <1>3, <1>4 DEF Active, Released, Bears
  <1>6. LoopCreate(img, after, failed) BY <1>1, <1>3, <1>5, ReleaseMeans DEF GetLoop
  <1>7. after \in {"info", "dm", "format"} OBVIOUS
  <1>8. after = "dm" => c.key OBVIOUS
  <1>9. after = "format" => c.key = FALSE BY <1>1, CommandTyped
  <1>10. \/ failed /\ UNCHANGED loops
         \/ \E k \in FirstFree :
              /\ MayFail("loopstatus") /\ failed
              /\ loops' = [loops EXCEPT ![k] = [bound |-> TRUE, name |-> None,
                                                file |-> img, clearing |-> FALSE]]
         \/ \E k \in FirstFree :
              /\ img # None /\ NoteLoop(k) /\ Goto("cmd", after)
              /\ loops' = [loops EXCEPT ![k] = [bound |-> TRUE, name |-> id,
                                                file |-> img, clearing |-> FALSE]]
    <2> HIDE DEF failed, img, after
    <2> QED BY <1>3, <1>6 DEF LoopCreate
  <1>11. ASSUME failed, Hardware', \A i \in Ids : Released(i) => Released(i)'
         PROVE  Devices'
    <2>1. \/ pc'["cmd"] = "down_file" /\ call'["cmd"] = c /\ pc'["net"] = "idle"
          \/ pc'["cmd"] = "idle" /\ call'["cmd"] = NoCall /\ pc'["net"] = "idle"
      <3>1. CASE c.op = "create" BY <1>2, <1>11, <3>1 DEF Goto
      <3>2. CASE c.op # "create" BY <1>2, <1>11, <3>2, Typed, Returns
      <3> QED BY <3>1, <3>2
    <2>2. \A i \in Ids : ~Mounted(i)' => Released(i)' BY <1>1, <1>4, <1>11 DEF Mounted
    <2>3. call["cmd"].dir = OwnDir(id)' BY <1>1, <1>2, <1>3 DEF OwnDir
    <2>4. \/ pc'["cmd"] = "idle"
          \/ pc'["cmd"] = "down_file" /\ call'["cmd"].dir = OwnDir(call["cmd"].id)'
      BY <1>3, <2>1, <2>3 DEF OwnDir
    <2> HIDE DEF c
    <2>5. DeviceFits(pc["cmd"], call["cmd"])' BY <2>2, <2>4 DEF DeviceFits, HasLoop, Making
    <2> QED BY <1>2, <1>11, <2>1, <2>5, CommandGoesOn
  <1>12. ASSUME NEW k \in FirstFree, img # None, NoteLoop(k), Goto("cmd", after),
                loops' = [loops EXCEPT ![k] = [bound |-> TRUE, name |-> id,
                                               file |-> img, clearing |-> FALSE]]
         PROVE  Devices'
    <2>1. img = Own(id) /\ (id \in ObbIds => secureArea # "unbound")
      BY <1>2, <1>3, <1>12 DEF ImageOf, Own, OwnDir, ContainerAssumption, Ids
    <2>2. /\ Hardware'
          /\ \A i \in Ids : i # id /\ Released(i) => Released(i)'
          /\ Bears(k, id)' /\ ~loops'[k].clearing /\ loops'[k].file = Own(id)
      BY <1>1, <1>2, <1>3, <1>4, <1>12, <2>1, NewLoopHardware
    <2>3. /\ pc'["cmd"] = after /\ pc'["net"] = "idle"
          /\ call'["cmd"] = [c EXCEPT !.loop = k]
      BY <1>2, <1>12 DEF Goto, NoteLoop
    <2>4. PICK d : d = call'["cmd"] OBVIOUS
    <2>5. d.loop = k /\ d.id = id /\ d.dir = c.dir /\ d.key = c.key
      BY <1>2, <1>3, <2>3, <2>4 DEF Call
    <2>6. dms'[id] \in Absent BY <1>1, <1>2, <1>3, <1>4 DEF Released
    <2>7. \A i \in Ids : ~Mounted(i)' /\ i # id => Released(i)'
      BY <1>1, <1>4, <2>2 DEF Mounted
    <2>8. d.dir = OwnDir(d.id)' BY <1>1, <1>2, <1>3, <2>5 DEF OwnDir
    <2>9. Own(id)' = Own(id) BY <1>1 DEF Own
    <2>10. PICK l \in {"info", "dm", "format"} :
             l = after /\ (l = "dm" => d.key) /\ (l = "format" => d.key = FALSE)
      BY <1>7, <1>8, <1>9, <2>5
    <2> HIDE DEF c, after
    <2>11. DeviceFits(l, d)'
      <3>1. \A i \in Ids : ~Mounted(i)' /\ ~Holding(l, d, i) => Released(i)'
        BY <2>5, <2>7, <2>10 DEF Holding, HasLoop
      <3>2. /\ Bears(d.loop, d.id)' /\ ~loops'[d.loop].clearing
            /\ loops'[d.loop].file = Own(d.id)'
            /\ d.id \in ObbIds => secureArea' # "unbound"
        BY <1>1, <2>1, <2>2, <2>5, <2>9 DEF Bears
      <3>3. dms'[d.id] \in Absent /\ (l = "format" => ~d.key) BY <2>5, <2>6, <2>10
      <3>4. l # "down_loop" /\ l # "um_loop" /\ l # "mount" /\ l # "down_dm" BY <2>10
      <3>5. l \in {"format", "mount", "down_dm"} => OnDevice(d)' BY <3>3, <3>4 DEF OnDevice, Absent
      <3> QED BY <2>8, <2>10, <3>1, <3>2, <3>3, <3>5 DEF DeviceFits, Holding, OnDevice, Absent
    <2>12. DeviceFits(pc["cmd"], call["cmd"])'
      BY <2>3, <2>4, <2>10, <2>11
         DEF DeviceFits, OnDevice, Holding, OwnDir, Own, Bears, Mounted, Released, Absent
    <2> QED BY <1>2, <2>2, <2>3, <2>12, CommandGoesOn
  <1>13. ASSUME failed, UNCHANGED loops
         PROVE  Hardware' /\ \A i \in Ids : Released(i) => Released(i)'
    BY <1>1, <1>2, <1>13
       DEF Hardware, FilesDiffer, LoopsFit, DmsFit, MountsFit, MountFits, Bears, Absent, Own,
           Mounted, Released
  <1>14. ASSUME NEW k \in FirstFree, MayFail("loopstatus"),
                loops' = [loops EXCEPT ![k] = [bound |-> TRUE, name |-> None,
                                               file |-> img, clearing |-> FALSE]]
         PROVE  Hardware' /\ \A i \in Ids : Released(i) => Released(i)'
    <2> HIDE DEF img
    <2> QED BY <1>1, <1>2, <1>14, UnnamedLoopHardware
  <1> HIDE DEF failed, img, after, c
  <1> QED BY <1>10, <1>11, <1>12, <1>13, <1>14

(* The loop device of a container that has nothing else is let go of.       *)
LEMMA LoopFreed ==
  ASSUME ContainerAssumption, Shapes, Shapes', Hardware,
         UNCHANGED <<file, secureArea, dms, mounts, held>>,
         NEW id \in Ids, NEW k \in Loop, Bears(k, id), dms[id] \in Absent, ~Mounted(id),
         \A i \in Ids : i # id /\ ~Mounted(i) => Released(i), loops' = Cleared(k)
  PROVE  /\ Hardware'
         /\ \A i \in Ids : ~Mounted(i)' => Released(i)'
         /\ \A i \in Ids : Mounted(i)' <=> Mounted(i)
  <1>1. \A i \in Ids : Bears(k, i) => i = id BY DEF Bears
  <1>2. k \notin Absent BY AbsentMeans
  <1>3. \A i \in Ids : dms[i] # k BY <1>1, <1>2 DEF Hardware, DmsFit
  <1>4. \A i \in Ids : \A n \in 1..Len(mounts[i]) : mounts[i][n].loop # k
    <2> SUFFICES ASSUME NEW i \in Ids, NEW n \in 1..Len(mounts[i]), mounts[i][n].loop = k
                 PROVE  FALSE
      OBVIOUS
    <2>1. Bears(k, i) BY DEF Hardware, MountsFit, MountFits
    <2>2. i = id BY <1>1, <2>1
    <2> QED BY <2>2, MountPlaces
  <1>5. ~LoopInUse(k, dms, mounts, {}) BY <1>3, <1>4, InUse
  <1>6. /\ Hardware'
        /\ \A i \in Ids : Mounted(i)' <=> Mounted(i)
        /\ \A i \in Ids : Released(i) => Released(i)'
        /\ \A j \in Loop : j # k => loops'[j] = loops[j]
        /\ loops[k].bound /\ ~LoopInUse(k, dms, mounts, {}) => loops'[k] = FreeLoop
    BY ClearHardware
  <1>7. loops'[k] = FreeLoop BY <1>5, <1>6 DEF Bears
  <1>8. \A j \in Loop : Bears(j, id) => j = k BY DEF Bears, Hardware, LoopsFit
  <1>9. \A j \in Loop : ~Bears(j, id)' BY <1>6, <1>7, <1>8 DEF Bears, FreeLoop
  <1>10. Released(id)' BY <1>9 DEF Released, Absent
  <1> QED BY <1>6, <1>10

\* The superblock of a mount's image is read, or refused: keeps Devices.
LEMMA ReadSuperblockDevices ==
  ASSUME ContainerAssumption, ReleaseAssumption, Shapes, Lists, Devices, ReadSuperblock, disturbed' = {}
  PROVE  Devices'
  <1>1. /\ pc["cmd"] = "info" /\ pc["cmd"] \in Making /\ pc["cmd"] # "push"
        /\ UNCHANGED <<file, secureArea, dms, mounts, held>> /\ disturbed = {}
    BY DEF ReadSuperblock, Making, fileVars
  <1>2. /\ Hardware /\ DeviceFits("info", call["cmd"])
        /\ "cmd" \in Thread /\ "net" \in Thread /\ Other("cmd") = "net" /\ pc["net"] = "idle"
        /\ ~Mounted(call["cmd"].id)
        /\ pc \in [Thread -> Place] /\ call \in [Thread -> Call]
    BY <1>1, MakingDevices
  <1>3. call["cmd"].id \in Ids /\ call["cmd"].key \in BOOLEAN /\ call["cmd"].loop \in Loop
    BY <1>1, CommandTyped
  <1>4. CASE /\ Goto("cmd", IF call["cmd"].key THEN "dm" ELSE "mount")
             /\ UNCHANGED <<call, loops>>
    <2>1. PICK l \in {"dm", "mount"} :
            Goto("cmd", l) /\ (l = "dm" => call["cmd"].key) /\ (l = "mount" => ~call["cmd"].key)
      BY <1>4
    <2>2. pc'["cmd"] = l /\ pc'["net"] = "idle" /\ call'["cmd"] = call["cmd"]
      BY <1>2, <1>4, <2>1 DEF Goto
    <2>3. DeviceFits(l, call["cmd"])
      BY <1>2, <1>3, <2>1 DEF DeviceFits, OnDevice, Holding, HasLoop, Making
    <2> QED BY <1>1, <1>2, <1>4, <2>2, <2>3, DevicesKept
  <1>5. CASE loops' = Cleared(call["cmd"].loop) /\ Return("cmd")
    <2>1. PICK id \in Ids : id = call["cmd"].id BY <1>3
    <2>2. PICK k \in Loop : k = call["cmd"].loop BY <1>3
    <2>3. /\ Bears(k, id) /\ dms[id] \in Absent /\ ~Mounted(id)
          /\ \A i \in Ids : i # id /\ ~Mounted(i) => Released(i)
      BY <1>2, <2>1, <2>2 DEF DeviceFits, Holding, HasLoop
    <2>4. Shapes' BY ReadSuperblockShapes
    <2>5. Hardware' /\ \A i \in Ids : ~Mounted(i)' => Released(i)'
      BY <1>1, <1>2, <1>5, <2>2, <2>3, <2>4, LoopFreed
    <2>6. pc'["cmd"] = "idle" /\ pc'["net"] = "idle" BY <1>2, <1>5, Typed, Returns
    <2> QED BY <1>2, <2>5, <2>6, ReturnsDevices
  <1> QED BY <1>4, <1>5, ReleaseMeans DEF ReadSuperblock

\* An error takes the loop device away: keeps Devices.
LEMMA TakeDownLoopDevices ==
  ASSUME ContainerAssumption, ReleaseAssumption, Shapes, Lists, Devices, TakeDownLoop, disturbed' = {}
  PROVE  Devices'
  <1>1. /\ pc["cmd"] = "down_loop" /\ pc["cmd"] \in Making /\ pc["cmd"] # "push"
        /\ UNCHANGED <<file, secureArea, dms, mounts, held>> /\ disturbed = {}
        /\ loops' = Cleared(call["cmd"].loop)
        /\ \/ Goto("cmd", "down_file") /\ UNCHANGED call
           \/ Return("cmd")
    BY ReleaseMeans DEF TakeDownLoop, Making, fileVars
  <1>2. /\ Hardware /\ DeviceFits("down_loop", call["cmd"])
        /\ "cmd" \in Thread /\ "net" \in Thread /\ Other("cmd") = "net" /\ pc["net"] = "idle"
        /\ ~Mounted(call["cmd"].id) /\ call["cmd"].dir = OwnDir(call["cmd"].id)
        /\ pc \in [Thread -> Place] /\ call \in [Thread -> Call]
    BY <1>1, MakingDevices
  <1>3. PICK id \in Ids, k \in Loop : id = call["cmd"].id /\ k = call["cmd"].loop
    BY <1>1, CommandTyped
  <1>4. /\ Bears(k, id) /\ dms[id] \in Absent /\ ~Mounted(id)
        /\ \A i \in Ids : i # id /\ ~Mounted(i) => Released(i)
    BY <1>2, <1>3 DEF DeviceFits, Holding, HasLoop
  <1>5. Shapes' BY TakeDownLoopShapes
  <1>6. Hardware' /\ \A i \in Ids : ~Mounted(i)' => Released(i)'
    BY <1>1, <1>2, <1>3, <1>4, <1>5, LoopFreed
  <1>7. CASE Goto("cmd", "down_file") /\ UNCHANGED call
    <2>1. pc'["cmd"] = "down_file" /\ pc'["net"] = "idle" BY <1>2, <1>7 DEF Goto
    <2>2. call'["cmd"] = call["cmd"] BY <1>7
    <2>3. call'["cmd"].dir = OwnDir(call["cmd"].id)' BY <1>1, <1>2, <2>2 DEF OwnDir
    <2>4. DeviceFits(pc["cmd"], call["cmd"])' BY <1>6, <2>1, <2>3 DEF DeviceFits, HasLoop
    <2> QED BY <1>2, <1>6, <2>1, <2>4, CommandGoesOn
  <1>8. CASE Return("cmd")
    <2>1. pc'["cmd"] = "idle" /\ pc'["net"] = "idle" BY <1>2, <1>8, Typed, Returns
    <2> QED BY <1>2, <1>6, <2>1, ReturnsDevices
  <1> QED BY <1>1, <1>7, <1>8

(* A device mapper device over the loop device of a container without one,  *)
(* or just its name.                                                        *)
LEMMA NewDmHardware ==
  ASSUME Shapes, Hardware, UNCHANGED <<file, secureArea, loops, mounts, held>>,
         NEW id \in Ids, ~Mounted(id), NEW d, d \in Absent \/ (d \in Loop /\ Bears(d, id)),
         dms' = [dms EXCEPT ![id] = d]
  PROVE  /\ Hardware' /\ dms'[id] = d
         /\ \A i \in Ids : i # id /\ Released(i) => Released(i)'
  <1>1. dms'[id] = d /\ \A i \in Ids : i # id => dms'[i] = dms[i] BY Typed DEF DmStates
  <1>2. FilesDiffer' /\ LoopsFit' BY DEF Hardware, FilesDiffer, LoopsFit, Bears
  <1>3. DmsFit'
    <2>1. ASSUME NEW i \in Ids, dms'[i] \notin Absent PROVE dms'[i] \in Loop /\ Bears(dms'[i], i)
      BY <1>1, <2>1 DEF Hardware, DmsFit
    <2> QED BY <2>1 DEF DmsFit, Bears, Absent
  <1>4. ASSUME NEW i \in Ids, NEW n \in 1..Len(mounts[i]) PROVE MountFits(i, mounts[i][n])'
    <2>1. MountFits(i, mounts[i][n]) BY DEF Hardware, MountsFit
    <2>2. i # id BY MountPlaces
    <2> QED BY <1>1, <2>1, <2>2 DEF MountFits, Bears, Own, Absent
  <1>5. MountsFit' BY <1>4 DEF MountsFit, Mounted, Hardware
  <1>6. \A i \in Ids : i # id /\ Released(i) => Released(i)' BY <1>1 DEF Released, Bears, Absent
  <1> QED BY <1>1, <1>2, <1>3, <1>5, <1>6 DEF Hardware

\* The device mapper device over it is found or made: keeps Devices.
LEMMA GetDmDevices ==
  ASSUME ContainerAssumption, Shapes, Lists, Devices, GetDm, disturbed' = {}
  PROVE  Devices'
  <1>1. /\ pc["cmd"] = "dm" /\ pc["cmd"] \in Making /\ pc["cmd"] # "push"
        /\ UNCHANGED <<file, secureArea, loops, mounts, held, call>> /\ disturbed = {}
    BY DEF GetDm, Making, fileVars
  <1>2. /\ Hardware /\ DeviceFits("dm", call["cmd"])
        /\ "cmd" \in Thread /\ "net" \in Thread /\ Other("cmd") = "net" /\ pc["net"] = "idle"
        /\ ~Mounted(call["cmd"].id) /\ call["cmd"].dir = OwnDir(call["cmd"].id)
        /\ pc \in [Thread -> Place] /\ call \in [Thread -> Call]
    BY <1>1, MakingDevices
  <1>3. PICK id \in Ids, k \in Loop : id = call["cmd"].id /\ k = call["cmd"].loop
    BY <1>1, CommandTyped
  <1>4. /\ Bears(k, id) /\ dms[id] \in Absent /\ ~Mounted(id) /\ call["cmd"].key
        /\ \A i \in Ids : i # id /\ ~Mounted(i) => Released(i)
        /\ ~loops[k].clearing /\ loops[k].file = Own(id)
        /\ id \in ObbIds => secureArea # "unbound"
    BY <1>2, <1>3 DEF DeviceFits, Holding, HasLoop
  <1>5. dms[id] \in {NoDevice, NoTable} /\ ("dmtable" \in Failing => NoTable \in Absent)
    BY <1>4, AbsentMeans DEF Absent
  <1>6. \/ Goto("cmd", "down_loop") /\ UNCHANGED dms
        \/ Goto("cmd", "mount") /\ UNCHANGED dms /\ dms[id] = NoTable
        \/ \E l \in {"format", "mount"} : Goto("cmd", l) /\ dms' = [dms EXCEPT ![id] = k]
        \/ Goto("cmd", "down_loop") /\ dms' = [dms EXCEPT ![id] = NoTable] /\ NoTable \in Absent
    BY <1>3, <1>4, <1>5 DEF GetDm, MayFail, Bears
  <1>7. ASSUME NEW l \in {"down_loop", "mount"}, Goto("cmd", l), UNCHANGED dms,
               l = "mount" => dms[id] = NoTable
        PROVE  Devices'
    <2>1. pc'["cmd"] = l /\ pc'["net"] = "idle" /\ call'["cmd"] = call["cmd"]
      BY <1>1, <1>2, <1>7 DEF Goto
    <2>2. l = "mount" => OnDevice(call["cmd"]) BY <1>3, <1>4, <1>7 DEF OnDevice
    <2>3. DeviceFits(l, call["cmd"])
      BY <1>2, <2>2 DEF DeviceFits, Holding, HasLoop, Making
    <2> QED BY <1>1, <1>2, <1>7, <2>1, <2>3, DevicesKept
  <1>8. ASSUME NEW l \in {"down_loop", "format", "mount"}, NEW d, Goto("cmd", l),
               dms' = [dms EXCEPT ![id] = d], d = IF l = "down_loop" THEN NoTable ELSE k,
               l = "down_loop" => NoTable \in Absent
        PROVE  Devices'
    <2>1. pc'["cmd"] = l /\ pc'["net"] = "idle" /\ call'["cmd"] = call["cmd"]
      BY <1>1, <1>2, <1>8 DEF Goto
    <2>2. d \in Absent \/ (d \in Loop /\ Bears(d, id)) BY <1>4, <1>8
    <2>3. /\ Hardware' /\ dms'[id] = d
          /\ \A i \in Ids : i # id /\ Released(i) => Released(i)'
      BY <1>1, <1>2, <1>4, <1>8, <2>2, NewDmHardware
    <2>4. PICK c : c = call'["cmd"] OBVIOUS
    <2>5. c.id = id /\ c.loop = k /\ c.key /\ c.dir = OwnDir(c.id)'
      BY <1>1, <1>2, <1>3, <1>4, <2>1, <2>4 DEF OwnDir
    <2>6. \A i \in Ids : ~Mounted(i)' /\ ~Holding(l, c, i) => Released(i)'
      BY <1>1, <1>4, <2>3, <2>5 DEF Holding, HasLoop, Mounted
    <2>7. /\ Bears(c.loop, c.id)' /\ ~loops'[c.loop].clearing
          /\ loops'[c.loop].file = Own(c.id)'
          /\ c.id \in ObbIds => secureArea' # "unbound"
      BY <1>1, <1>4, <2>5 DEF Bears, Own
    <2>8. /\ l = "down_loop" => dms'[c.id] \in Absent
          /\ l # "down_loop" => OnDevice(c)'
      BY <1>8, <2>3, <2>5 DEF OnDevice
    <2>9. DeviceFits(l, c)'
      BY <2>3, <2>5, <2>6, <2>7, <2>8 DEF DeviceFits, Holding, OnDevice, Absent
    <2>10. DeviceFits(pc["cmd"], call["cmd"])'
      BY <2>1, <2>4, <2>9
         DEF DeviceFits, OnDevice, Holding, OwnDir, Own, Bears, Mounted, Released, Absent
    <2> QED BY <1>2, <2>1, <2>3, <2>10, CommandGoesOn
  <1> QED BY <1>6, <1>7, <1>8

\* A new container is formatted: keeps Devices.
LEMMA FormatDevices ==
  ASSUME ContainerAssumption, ListAssumption, Shapes, Lists, Devices, Format, disturbed' = {}
  PROVE  Devices'
  <1>1. /\ pc["cmd"] = "format" /\ pc["cmd"] \in Making /\ pc["cmd"] # "push"
        /\ UNCHANGED <<file, secureArea, loops, dms, mounts, held, call>> /\ disturbed = {}
    BY DEF Format, Making, deviceVars
  <1>2. /\ Hardware /\ DeviceFits("format", call["cmd"])
        /\ "cmd" \in Thread /\ "net" \in Thread /\ Other("cmd") = "net" /\ pc["net"] = "idle"
        /\ pc \in [Thread -> Place]
    BY <1>1, MakingDevices
  <1>3. call["cmd"].fs # "none"
    BY <1>1, Typed, CommandTyped DEF Shape, ListAssumption
  <1>4. PICK l \in {"mount", "down_dm"} : Goto("cmd", l) BY <1>3 DEF Format
  <1>5. pc'["cmd"] = l /\ pc'["net"] = "idle" /\ call'["cmd"] = call["cmd"]
    BY <1>1, <1>2, <1>4 DEF Goto
  <1>6. DeviceFits(l, call["cmd"]) BY <1>2 DEF DeviceFits, Holding, HasLoop, Making
  <1> QED BY <1>1, <1>2, <1>5, <1>6, DevicesKept

(* The container is mounted on its devices.                                 *)
LEMMA NewMountHardware ==
  ASSUME Shapes, Shapes', Hardware, UNCHANGED <<file, secureArea, loops, dms, held>>,
         NEW id \in Ids, ~Mounted(id), NEW m \in [loop : Loop, dm : BOOLEAN, ro : BOOLEAN],
         MountFits(id, m), id \in ObbIds => secureArea # "unbound",
         mounts' = [mounts EXCEPT ![id] = Append(@, m)]
  PROVE  /\ Hardware' /\ Mounted(id)'
         /\ \A i \in Ids : i # id => (Mounted(i)' <=> Mounted(i))
         /\ \A i \in Ids : Released(i) => Released(i)'
  <1> DEFINE M == [loop : Loop, dm : BOOLEAN, ro : BOOLEAN]
  <1>1. /\ mounts'[id] = Append(mounts[id], m) /\ mounts'[id] # <<>>
        /\ \A j \in Ids : j # id => mounts'[j] = mounts[j]
    BY MountTyped
  <1>2. mounts[id] = <<>> BY DEF Mounted
  <1> HIDE DEF M
  <1>3. m \in M BY DEF M
  <1>4. Len(Append(<<>>, m)) = 1 /\ Append(<<>>, m)[1] = m
    BY <1>3, EmptySeq, AppendProperties
  <1>5. \A n \in 1..Len(mounts'[id]) : mounts'[id][n] = m BY <1>1, <1>2, <1>4
  <1>6. FilesDiffer' /\ LoopsFit' /\ DmsFit'
    BY DEF Hardware, FilesDiffer, LoopsFit, DmsFit, Bears, Absent
  <1>7. MountFits(id, m)' BY DEF MountFits, Bears, Own, Absent
  <1>8. ASSUME NEW i \in Ids, NEW n \in 1..Len(mounts'[i]) PROVE MountFits(i, mounts[i][n])'
    <2>1. CASE i = id
      <3>1. mounts'[i][n] = m BY <1>5, <2>1
      <3> QED BY <1>7, <2>1, <3>1 DEF MountFits, Bears, Own, Absent
    <2>2. CASE i # id
      <3>1. mounts'[i] = mounts[i] BY <1>1, <2>2
      <3>2. MountFits(i, mounts[i][n]) BY <3>1 DEF Hardware, MountsFit
      <3> QED BY <3>1, <3>2 DEF MountFits, Bears, Own, Absent
    <2> QED BY <2>1, <2>2
  <1>9. \A i \in ObbIds : Mounted(i)' => secureArea' # "unbound"
    BY <1>1 DEF Hardware, MountsFit, Mounted, Ids
  <1>10. Hardware' BY <1>6, <1>8, <1>9 DEF MountsFit, Hardware
  <1> QED BY <1>1, <1>10 DEF Mounted, Released, Bears, Absent

\* The device is mounted at the mountpoint: keeps Devices.
LEMMA MountDeviceDevices ==
  ASSUME ContainerAssumption, Shapes, Lists, Devices, MountDevice, disturbed' = {}
  PROVE  Devices'
  <1>1. /\ pc["cmd"] = "mount" /\ pc["cmd"] \in Making /\ pc["cmd"] # "push"
        /\ UNCHANGED <<file, secureArea, loops, dms, held, call>> /\ disturbed = {}
    BY DEF MountDevice, Making, fileVars
  <1>2. /\ Hardware /\ DeviceFits("mount", call["cmd"])
        /\ "cmd" \in Thread /\ "net" \in Thread /\ Other("cmd") = "net" /\ pc["net"] = "idle"
        /\ ~Mounted(call["cmd"].id) /\ call["cmd"].dir = OwnDir(call["cmd"].id)
        /\ pc \in [Thread -> Place] /\ call \in [Thread -> Call]
    BY <1>1, MakingDevices
  <1>3. PICK id \in Ids, k \in Loop, key \in BOOLEAN :
          id = call["cmd"].id /\ k = call["cmd"].loop /\ key = call["cmd"].key
    BY <1>1, CommandTyped
  <1>4. /\ Bears(k, id) /\ ~Mounted(id)
        /\ IF key THEN dms[id] \in {k, NoTable} ELSE dms[id] \in Absent
        /\ \A i \in Ids : i # id /\ ~Mounted(i) => Released(i)
        /\ loops[k].file = Own(id)
        /\ id \in ObbIds => secureArea # "unbound"
    BY <1>2, <1>3 DEF DeviceFits, OnDevice, Holding, HasLoop
  <1>5. PICK ro \in BOOLEAN : ro = (call["cmd"].op = "mount") OBVIOUS
  <1> DEFINE m == [loop |-> k, dm |-> key, ro |-> ro]
  <1>6. \/ Goto("cmd", "down_dm") /\ UNCHANGED mounts
        \/ /\ Goto("cmd", "push") /\ mounts' = [mounts EXCEPT ![id] = Append(@, m)]
           /\ key => dms[id] = k
    <2>1. NoTable \notin Loop BY ContainerAssumption DEF NoTable, Loop, ContainerAssumption
    <2> QED BY <1>3, <1>4, <1>5, <2>1 DEF MountDevice, Mountable
  <1>7. CASE Goto("cmd", "down_dm") /\ UNCHANGED mounts
    <2>1. pc'["cmd"] = "down_dm" /\ pc'["net"] = "idle" /\ call'["cmd"] = call["cmd"]
      BY <1>1, <1>2, <1>7 DEF Goto
    <2>2. DeviceFits("down_dm", call["cmd"])
      BY <1>2 DEF DeviceFits, Holding, HasLoop, Making
    <2> QED BY <1>1, <1>2, <1>7, <2>1, <2>2, DevicesKept
  <1>8. CASE /\ Goto("cmd", "push") /\ mounts' = [mounts EXCEPT ![id] = Append(@, m)]
             /\ key => dms[id] = k
    <2>1. pc'["cmd"] = "push" /\ pc'["net"] = "idle" /\ call'["cmd"] = call["cmd"]
      BY <1>1, <1>2, <1>8 DEF Goto
    <2>2. Shapes' BY MountDeviceShapes
    <2>3. m \in [loop : Loop, dm : BOOLEAN, ro : BOOLEAN] OBVIOUS
    <2>4. MountFits(id, m) BY <1>4, <1>8 DEF MountFits
    <2> HIDE DEF m
    <2>5. /\ Hardware' /\ Mounted(id)'
          /\ \A i \in Ids : i # id => (Mounted(i)' <=> Mounted(i))
          /\ \A i \in Ids : Released(i) => Released(i)'
      BY <1>1, <1>2, <1>4, <1>8, <2>2, <2>3, <2>4, NewMountHardware
    <2>6. call'["cmd"].dir = OwnDir(call["cmd"].id)' BY <1>1, <1>2, <2>1 DEF OwnDir
    <2>7. DeviceFits(pc["cmd"], call["cmd"])'
      BY <1>4, <2>1, <2>5, <2>6 DEF DeviceFits, HasLoop
    <2> QED BY <1>2, <2>1, <2>5, <2>7, CommandGoesOn
  <1> QED BY <1>6, <1>7, <1>8

\* A container that is mounted enters the list: keeps Devices.
LEMMA ListContainerDevices ==
  ASSUME ContainerAssumption, Shapes, Lists, Devices, ListContainer, disturbed' = {}
  PROVE  Devices'
  <1>1. /\ pc["cmd"] = "push" /\ pc["cmd"] \in Making /\ Return("cmd") /\ disturbed = {}
        /\ UNCHANGED <<file, secureArea, loops, dms, mounts, held>>
    BY DEF ListContainer, Making, deviceVars, fileVars
  <1>2. /\ Hardware /\ DeviceFits("push", call["cmd"])
        /\ "cmd" \in Thread /\ "net" \in Thread /\ Other("cmd") = "net" /\ pc["net"] = "idle"
    BY <1>1, MakingDevices
  <1>3. pc'["cmd"] = "idle" /\ call'["cmd"] = NoCall /\ pc'["net"] = "idle"
    BY <1>1, <1>2, Typed, Returns
  <1>4. DeviceFits("idle", NoCall) BY <1>2 DEF DeviceFits, Holding, HasLoop, Making
  <1> QED BY <1>1, <1>2, <1>3, <1>4, DevicesKept

(* With nothing mounted and no open files a device mapper device goes.      *)
LEMMA DmDestroyedIs ==
  ASSUME held = {}, NEW id \in Ids, ~Mounted(id)
  PROVE  DmDestroyed(id) = [dms EXCEPT ![id] = NoDevice]
  <1>1. DOMAIN mounts[id] = {} BY DEF Mounted
  <1> QED BY <1>1 DEF DmDestroyed, DmInUse

\* An error takes the device mapper device away: keeps Devices.
LEMMA TakeDownDmDevices ==
  ASSUME ContainerAssumption, ReleaseAssumption, Shapes, Lists, Devices, TakeDownDm, disturbed' = {}
  PROVE  Devices'
  <1>1. /\ pc["cmd"] = "down_dm" /\ pc["cmd"] \in Making /\ pc["cmd"] # "push"
        /\ UNCHANGED <<file, secureArea, mounts, held, call>> /\ disturbed = {}
        /\ dms' = IF call["cmd"].key THEN DmDestroyed(call["cmd"].id) ELSE dms
        /\ loops' = Settled(loops, dms', mounts, held) /\ Goto("cmd", "down_loop")
    BY ReleaseMeans DEF TakeDownDm, Making, fileVars
  <1>2. /\ Hardware /\ DeviceFits("down_dm", call["cmd"])
        /\ "cmd" \in Thread /\ "net" \in Thread /\ Other("cmd") = "net" /\ pc["net"] = "idle"
        /\ ~Mounted(call["cmd"].id) /\ call["cmd"].dir = OwnDir(call["cmd"].id)
        /\ pc \in [Thread -> Place]
    BY <1>1, MakingDevices
  <1>3. PICK id \in Ids, k \in Loop, key \in BOOLEAN :
          id = call["cmd"].id /\ k = call["cmd"].loop /\ key = call["cmd"].key
    BY <1>1, CommandTyped
  <1>4. /\ Bears(k, id) /\ ~Mounted(id) /\ (~key => dms[id] \in Absent)
        /\ \A i \in Ids : i # id /\ ~Mounted(i) => Released(i)
        /\ ~loops[k].clearing /\ loops[k].file = Own(id)
        /\ id \in ObbIds => secureArea # "unbound"
    BY <1>2, <1>3 DEF DeviceFits, OnDevice, Holding, HasLoop
  <1>5. held = {} BY <1>2 DEF Hardware
  <1>6. dms' = IF key THEN [dms EXCEPT ![id] = NoDevice] ELSE dms
    BY <1>1, <1>3, <1>4, <1>5, DmDestroyedIs
  <1>7. Shapes' BY TakeDownDmShapes
  <1>8. /\ Hardware'
        /\ \A j \in Ids : Released(j) => Released(j)'
        /\ \A j \in Loop : ~loops[j].clearing => loops'[j] = loops[j]
    BY <1>1, <1>2, <1>4, <1>6, <1>7, SettleHardware
  <1>9. dms'[id] \in Absent BY <1>4, <1>6, AbsentMeans, Typed DEF DmStates
  <1>10. loops'[k] = loops[k] BY <1>4, <1>8
  <1>11. pc'["cmd"] = "down_loop" /\ pc'["net"] = "idle" BY <1>1, <1>2 DEF Goto
  <1>12. PICK d : d = call'["cmd"] OBVIOUS
  <1>13. d.id = id /\ d.loop = k /\ d.dir = OwnDir(d.id)'
    BY <1>1, <1>2, <1>3, <1>12 DEF OwnDir
  <1>14. \A i \in Ids : ~Mounted(i)' /\ ~Holding("down_loop", d, i) => Released(i)'
    BY <1>1, <1>4, <1>8, <1>13 DEF Holding, HasLoop, Mounted
  <1>15. /\ Bears(d.loop, d.id)' /\ ~loops'[d.loop].clearing
         /\ loops'[d.loop].file = Own(d.id)'
         /\ d.id \in ObbIds => secureArea' # "unbound"
    BY <1>1, <1>4, <1>10, <1>13 DEF Bears, Own
  <1>16. DeviceFits("down_loop", d)'
    BY <1>9, <1>13, <1>14, <1>15 DEF DeviceFits, Holding, OnDevice, Absent
  <1>17. DeviceFits(pc["cmd"], call["cmd"])'
    BY <1>11, <1>12, <1>16
       DEF DeviceFits, OnDevice, Holding, OwnDir, Own, Bears, Mounted, Released, Absent
  <1> QED BY <1>2, <1>8, <1>11, <1>17, CommandGoesOn

(* The file of a container that is not mounted is deleted.                  *)
LEMMA UnlinkDevices ==
  ASSUME ContainerAssumption, Shapes, Lists, Devices, TakeDownFile \/ DestroyUnlinks,
         disturbed' = {}
  PROVE  Devices'
  <1>1. /\ pc["cmd"] \in {"down_file", "unlink"} /\ pc["cmd"] # "idle"
        /\ pc["cmd"] \notin HasLoop \cup {"um_dm", "um_loop"}
        /\ file' = Unlinked(call["cmd"].id, call["cmd"].dir)
        /\ UNCHANGED <<secureArea, loops, dms, mounts, held>> /\ disturbed = {}
        /\ Return("cmd")
    BY DEF TakeDownFile, DestroyUnlinks, deviceVars, HasLoop
  <1>2. "cmd" \in Thread /\ "net" \in Thread /\ Other("cmd") = "net" BY Others DEF Thread
  <1>3. /\ Hardware /\ Fits(pc["cmd"], call["cmd"]) /\ DeviceFits(pc["cmd"], call["cmd"])
        /\ pc["net"] = "idle"
    BY <1>1, <1>2, BusyDevices
  <1>4. pc'["cmd"] = "idle" /\ pc'["net"] = "idle" BY <1>1, <1>2, <1>3, Typed, Returns
  <1>5. PICK id \in AsecIds, dir \in Directory : id = call["cmd"].id /\ dir = call["cmd"].dir
    BY <1>1, <1>2, Typed DEF Shape, Call, Making
  <1>6. ~Mounted(id) BY <1>1, <1>3, <1>5 DEF Fits, CallFits, Making
  <1>7. \/ file' = file
        \/ /\ \A i \in AsecIds : i # id => file'[i] = file[i]
           /\ \A d \in Directory : file'[id][d] = IF d = dir THEN None ELSE file[id][d]
    BY <1>1, <1>5, Typed DEF Unlinked
  <1>8. FilesDiffer'
    <2>1. \A i \in AsecIds, d \in Directory : file'[i][d] \in {file[i][d], None} BY <1>7
    <2> QED BY <1>3, <2>1 DEF Hardware, FilesDiffer
  <1>9. \A i \in AsecIds : Mounted(i) => Own(i)' = Own(i)
    <2>1. \A i \in AsecIds : Mounted(i) => file'[i] = file[i] BY <1>6, <1>7
    <2> QED BY <2>1 DEF Own
  <1>10. \A i \in ObbIds : Mounted(i) => secureArea' # "unbound" BY <1>1, <1>3 DEF Hardware, MountsFit
  <1>11. Hardware' /\ \A i \in Ids : Released(i)' <=> Released(i)
    BY <1>1, <1>3, <1>8, <1>9, <1>10, FilesHardware
  <1>12. \A i \in Ids : ~Mounted(i) => Released(i) BY <1>1, <1>3 DEF DeviceFits, Holding
  <1>13. \A i \in Ids : ~Mounted(i)' => Released(i)' BY <1>1, <1>11, <1>12 DEF Mounted
  <1> QED BY <1>2, <1>4, <1>11, <1>13, ReturnsDevices
-----------------------------------------------------------------------------
(* The steps of either thread.                                              *)

(* A thread that is unmounting, beside which nothing runs.                  *)
LEMMA ThreadDevices ==
  ASSUME Shapes, Lists, Devices, disturbed = {}, NEW t \in Thread, pc[t] # "idle"
  PROVE  /\ Hardware /\ Fits(pc[t], call[t]) /\ DeviceFits(pc[t], call[t])
         /\ Other(t) \in Thread /\ Other(t) # t /\ pc[Other(t)] = "idle"
         /\ pc \in [Thread -> Place] /\ call \in [Thread -> Call]
         /\ pc[t] # "next" => call[t].id \in Ids
         /\ pc[t] \notin HasLoop \cup {"um_dm", "um_loop"} =>
              \A i \in Ids : ~Mounted(i) => Released(i)
         /\ pc[t] \in Detached => ~Mounted(call[t].id)
  <1>1. Other(t) \in Thread /\ Other(t) # t BY Others DEF Thread
  <1>2. Hardware /\ Fits(pc[t], call[t]) /\ DeviceFits(pc[t], call[t]) /\ pc[Other(t)] = "idle"
    BY BusyDevices
  <1>3. pc \in [Thread -> Place] /\ call \in [Thread -> Call] /\ Shape(pc[t], call[t])
    BY Typed DEF Control
  <1>4. pc[t] # "next" => call[t].id \in Ids BY <1>3 DEF Shape
  <1>5. pc[t] \notin HasLoop \cup {"um_dm", "um_loop"} =>
          \A i \in Ids : ~Mounted(i) => Released(i)
    BY <1>2 DEF DeviceFits, Holding
  <1>6. pc[t] \in Detached => ~Mounted(call[t].id)
    BY <1>2, <1>4 DEF Fits, ListFits, Detached
  <1> QED BY <1>1, <1>2, <1>3, <1>4, <1>5, <1>6

(* Where nothing is held but what is mounted.                               *)
LEMMA NothingHeld ==
  ASSUME \A i \in Ids : ~Mounted(i) => Released(i), NEW l, NEW c,
         l \in {"idle", "next", "unlink", "um_check", "um_detach", "um_erase"}
  PROVE  DeviceFits(l, c)
  BY DEF DeviceFits, HasLoop, Making

\* An unmount asks for the image and the mountpoint: keeps Devices.
LEMMA UnmountChecksDevices ==
  ASSUME ContainerAssumption, Shapes, Lists, Devices, NEW t \in Thread, UnmountChecks(t),
         disturbed' = {}
  PROVE  Devices'
  <1>1. /\ pc[t] = "um_check" /\ pc[t] # "idle" /\ pc[t] \in Unmounting
        /\ pc[t] \notin HasLoop \cup {"um_dm", "um_loop"}
        /\ UNCHANGED <<file, secureArea, loops, dms, mounts, held>> /\ disturbed = {}
        /\ (Goto(t, "um_detach") /\ UNCHANGED call) \/ AfterUnmount(t, FALSE, call)
    BY DEF UnmountChecks, Unmounting, HasLoop, fileVars, deviceVars
  <1>2. /\ Hardware /\ \A i \in Ids : ~Mounted(i) => Released(i)
        /\ Other(t) \in Thread /\ Other(t) # t /\ pc[Other(t)] = "idle"
        /\ pc \in [Thread -> Place] /\ call \in [Thread -> Call]
    BY <1>1, ThreadDevices
  <1>3. /\ pc'[t] \in {"um_detach", "next", "unlink", "idle"}
        /\ pc'[Other(t)] = "idle"
    <2>1. CASE Goto(t, "um_detach") BY <1>2, <2>1 DEF Goto
    <2>2. CASE AfterUnmount(t, FALSE, call) BY <1>2, <2>2 DEF AfterUnmount, Goto
    <2> QED BY <1>1, <2>1, <2>2
  <1>4. PICK l, c : l = pc'[t] /\ c = call'[t] OBVIOUS
  <1>5. DeviceFits(l, c) BY <1>2, <1>3, <1>4, NothingHeld
  <1> QED BY <1>1, <1>2, <1>3, <1>4, <1>5, DevicesKept

\* An unmount unmounts: keeps Devices.
LEMMA UnmountDetachesDevices ==
  ASSUME ContainerAssumption, Shapes, Lists, Devices, NEW t \in Thread, UnmountDetaches(t),
         disturbed' = {}
  PROVE  Devices'
  <1>1. /\ pc[t] = "um_detach" /\ pc[t] # "idle" /\ pc[t] # "next"
        /\ pc[t] \notin HasLoop \cup {"um_dm", "um_loop"}
        /\ UNCHANGED <<file, secureArea, dms, call>> /\ disturbed = {} /\ held' = held
        /\ loops' = Settled(loops, dms, mounts', held') /\ Goto(t, "um_dm")
    BY DEF UnmountDetaches, HasLoop, fileVars
  <1>2. /\ Hardware /\ \A i \in Ids : ~Mounted(i) => Released(i)
        /\ Other(t) \in Thread /\ Other(t) # t /\ pc[Other(t)] = "idle"
        /\ pc \in [Thread -> Place] /\ Fits("um_detach", call[t])
    BY <1>1, ThreadDevices
  <1>3. PICK id \in Ids : id = call[t].id BY <1>1, ThreadDevices
  <1>4. Mounted(id) /\ Listing BY <1>1, <1>2, <1>3, BusyDevices DEF Fits, CallFits
  <1>5. mounts' = [mounts EXCEPT ![id] = Front(@)] BY <1>3, <1>4 DEF UnmountDetaches
  <1>6. mounts'[id] = <<>> /\ \A j \in Ids : j # id => mounts'[j] = mounts[j]
    BY <1>4, <1>5, UnmountTyped DEF Listing
  <1>7. held = {} /\ held' = {} BY <1>1, <1>2 DEF Hardware
  <1>8. Shrinks(dms', mounts') BY <1>1, <1>7, SettledShrinks
  <1>9. Shapes' BY UnmountDetachesShapes
  <1>10. Hardware' /\ \A i \in Ids : Released(i) => Released(i)'
    BY <1>1, <1>2, <1>6, <1>7, <1>8, <1>9, ShrinkHardware
  <1>11. pc'[t] = "um_dm" /\ pc'[Other(t)] = "idle" BY <1>1, <1>2 DEF Goto
  <1>12. \A i \in Ids : ~Mounted(i)' /\ i # id => Released(i)' BY <1>2, <1>6, <1>10 DEF Mounted
  <1>13. DeviceFits(pc[t], call[t])'
    BY <1>1, <1>3, <1>11, <1>12 DEF DeviceFits, Holding, HasLoop, Making
  <1> QED BY <1>10, <1>11, <1>13, DevicesFrom

\* An unmount destroys the device mapper device: keeps Devices.
LEMMA UnmountDestroysDmDevices ==
  ASSUME ContainerAssumption, ReleaseAssumption, Shapes, Lists, Devices, NEW t \in Thread,
         UnmountDestroysDm(t), disturbed' = {}
  PROVE  Devices'
  <1>1. /\ pc[t] = "um_dm" /\ pc[t] # "idle" /\ pc[t] # "next" /\ pc[t] \in Detached
        /\ UNCHANGED <<file, secureArea, mounts, held, call>> /\ disturbed = {}
        /\ dms' = DmDestroyed(call[t].id)
        /\ loops' = Settled(loops, dms', mounts, held) /\ Goto(t, "um_loop")
    BY ReleaseMeans DEF UnmountDestroysDm, Detached, fileVars
  <1>2. /\ Hardware /\ DeviceFits("um_dm", call[t]) /\ ~Mounted(call[t].id)
        /\ Other(t) \in Thread /\ Other(t) # t /\ pc[Other(t)] = "idle"
        /\ pc \in [Thread -> Place]
    BY <1>1, ThreadDevices
  <1>3. PICK id \in Ids : id = call[t].id BY <1>1, ThreadDevices
  <1>4. held = {} BY <1>2 DEF Hardware
  <1>5. dms' = [dms EXCEPT ![id] = NoDevice] BY <1>1, <1>2, <1>3, <1>4, DmDestroyedIs
  <1>6. dms'[id] \in Absent BY <1>5, AbsentMeans, Typed DEF DmStates
  <1>7. Shapes' BY UnmountDestroysDmShapes
  <1>8. Hardware' /\ \A i \in Ids : Released(i) => Released(i)'
    BY <1>1, <1>2, <1>3, <1>5, <1>7, SettleHardware
  <1>9. pc'[t] = "um_loop" /\ pc'[Other(t)] = "idle" BY <1>1, <1>2 DEF Goto
  <1>10. \A i \in Ids : ~Mounted(i) /\ i # id => Released(i)
    BY <1>2, <1>3 DEF DeviceFits, Holding
  <1>11. \A i \in Ids : ~Mounted(i)' /\ i # id => Released(i)' BY <1>1, <1>8, <1>10 DEF Mounted
  <1>12. DeviceFits(pc[t], call[t])'
    BY <1>1, <1>3, <1>6, <1>9, <1>11 DEF DeviceFits, Holding, HasLoop, Making, Absent
  <1> QED BY <1>8, <1>9, <1>12, DevicesFrom

\* An unmount destroys the loop device: keeps Devices.
LEMMA UnmountDestroysLoopDevices ==
  ASSUME ContainerAssumption, ReleaseAssumption, Shapes, Lists, Devices, NEW t \in Thread,
         UnmountDestroysLoop(t), disturbed' = {}
  PROVE  Devices'
  <1>1. /\ pc[t] = "um_loop" /\ pc[t] # "idle" /\ pc[t] # "next" /\ pc[t] \in Detached
        /\ UNCHANGED <<file, secureArea, dms, mounts, held, call>> /\ disturbed = {}
        /\ Goto(t, "um_erase")
    BY DEF UnmountDestroysLoop, Detached, fileVars
  <1>2. /\ Hardware /\ DeviceFits("um_loop", call[t]) /\ ~Mounted(call[t].id)
        /\ Other(t) \in Thread /\ Other(t) # t /\ pc[Other(t)] = "idle"
        /\ pc \in [Thread -> Place]
    BY <1>1, ThreadDevices
  <1>3. PICK id \in Ids : id = call[t].id BY <1>1, ThreadDevices
  <1>4. /\ dms[id] \in Absent /\ ~Mounted(id)
        /\ \A i \in Ids : i # id /\ ~Mounted(i) => Released(i)
    BY <1>2, <1>3 DEF DeviceFits, Holding
  <1>5. Shapes' BY UnmountDestroysLoopShapes
  <1>6. Hardware' /\ \A i \in Ids : ~Mounted(i)' => Released(i)'
    <2>1. CASE Active(id) = {}
      <3>1. loops' = loops BY <1>3, <2>1 DEF UnmountDestroysLoop
      <3>2. \A k \in Loop : ~Bears(k, id)
        <4> SUFFICES ASSUME NEW k \in Loop, Bears(k, id) PROVE FALSE OBVIOUS
        <4>1. \A j \in 0..(k - 1) : j \in Loop /\ j # k BY DEF Loop, ContainerAssumption
        <4>2. \A j \in 0..(k - 1) : ~(loops[j].bound /\ loops[j].name = id)
          BY <1>2, <4>1 DEF Bears, Hardware, LoopsFit
        <4>3. k \in Active(id) BY <4>2 DEF Active, Bears
        <4> QED BY <2>1, <4>3
      <3>3. \A i \in Ids : ~Mounted(i) => Released(i) BY <1>4, <3>2 DEF Released
      <3>4. Hardware'
        BY <1>1, <1>2, <3>1
           DEF Hardware, FilesDiffer, LoopsFit, DmsFit, MountsFit, MountFits, Bears, Absent, Own,
               Mounted
      <3> QED BY <1>1, <3>1, <3>3, <3>4 DEF Mounted, Released, Bears, Absent
    <2>2. CASE Active(id) # {}
      <3>1. PICK k \in Active(id) : loops' = Cleared(k)
        BY <1>3, <2>2, ReleaseMeans DEF UnmountDestroysLoop
      <3>2. k \in Loop /\ Bears(k, id) BY <3>1 DEF Active, Bears
      <3> QED BY <1>1, <1>2, <1>4, <1>5, <3>1, <3>2, LoopFreed
    <2> QED BY <2>1, <2>2
  <1>7. pc'[t] = "um_erase" /\ pc'[Other(t)] = "idle" BY <1>1, <1>2 DEF Goto
  <1>8. DeviceFits(pc[t], call[t])' BY <1>6, <1>7 DEF DeviceFits, HasLoop, Making
  <1> QED BY <1>6, <1>7, <1>8, DevicesFrom

\* An unmount takes the container off the list: keeps Devices.
LEMMA UnmountUnlistsDevices ==
  ASSUME ContainerAssumption, Shapes, Lists, Devices, NEW t \in Thread, UnmountUnlists(t),
         disturbed' = {}
  PROVE  Devices'
  <1>1. /\ pc[t] = "um_erase" /\ pc[t] # "idle"
        /\ pc[t] \notin HasLoop \cup {"um_dm", "um_loop"}
        /\ UNCHANGED <<file, secureArea, loops, dms, mounts, held>> /\ disturbed = {}
    BY DEF UnmountUnlists, HasLoop, fileVars, deviceVars
  <1>2. /\ Hardware /\ \A i \in Ids : ~Mounted(i) => Released(i)
        /\ Other(t) \in Thread /\ Other(t) # t /\ pc[Other(t)] = "idle"
    BY <1>1, ThreadDevices
  <1>3. pc'[t] \in {"next", "unlink", "idle"} /\ pc'[Other(t)] = "idle"
    BY <1>2, UnlistsMoves
  <1>4. PICK l, c : l = pc'[t] /\ c = call'[t] OBVIOUS
  <1>5. DeviceFits(l, c) BY <1>2, <1>3, <1>4, NothingHeld
  <1> QED BY <1>1, <1>2, <1>3, <1>4, <1>5, DevicesKept

\* The next of several containers is unmounted: keeps Devices.
LEMMA NextContainerDevices ==
  ASSUME ContainerAssumption, Shapes, Lists, Devices, NEW t \in Thread, NextContainer(t),
         disturbed' = {}
  PROVE  Devices'
  <1>1. /\ pc[t] = "next" /\ pc[t] # "idle"
        /\ pc[t] \notin HasLoop \cup {"um_dm", "um_loop"}
        /\ UNCHANGED <<file, secureArea, loops, dms, mounts, held>> /\ disturbed = {}
    BY DEF NextContainer, HasLoop, fileVars, deviceVars
  <1>2. /\ Hardware /\ \A i \in Ids : ~Mounted(i) => Released(i)
        /\ Other(t) \in Thread /\ Other(t) # t /\ pc[Other(t)] = "idle"
    BY <1>1, ThreadDevices
  <1>3. pc'[t] \in {"next", "um_check"} /\ pc'[Other(t)] = "idle"
    BY <1>2, NextContainerMoves
  <1>4. PICK l, c : l = pc'[t] /\ c = call'[t] OBVIOUS
  <1>5. DeviceFits(l, c) BY <1>2, <1>3, <1>4, NothingHeld
  <1> QED BY <1>1, <1>2, <1>3, <1>4, <1>5, DevicesKept

(* A cleanup that is done has unmounted every OBB.                          *)
LEMMA LastContainerDevices ==
  ASSUME ContainerAssumption, Shapes, Lists, Devices, NEW t \in Thread, LastContainer(t),
         disturbed' = {}
  PROVE  Devices'
  <1>1. /\ pc[t] = "next" /\ pc[t] # "idle" /\ call[t].todo = <<>> /\ Return(t)
        /\ pc[t] \notin HasLoop \cup {"um_dm", "um_loop"}
        /\ UNCHANGED <<file, loops, dms, mounts, held>> /\ disturbed = {}
        /\ secureArea' = secureArea \/ call[t].op = "cleanup"
    BY DEF LastContainer, HasLoop, deviceVars
  <1>2. /\ Hardware /\ \A i \in Ids : ~Mounted(i) => Released(i)
        /\ Fits("next", call[t])
        /\ Other(t) \in Thread /\ Other(t) # t /\ pc[Other(t)] = "idle"
    BY <1>1, ThreadDevices
  <1>3. pc'[t] = "idle" /\ pc'[Other(t)] = "idle" BY <1>1, <1>2, Typed, Returns
  <1>4. \A i \in ObbIds : Mounted(i) => secureArea' # "unbound"
    <2>1. CASE secureArea' = secureArea BY <1>2, <2>1 DEF Hardware, MountsFit
    <2>2. CASE call[t].op = "cleanup"
      <3>1. \A i \in Ids : ~ToDo("next", call[t], i) BY <1>1, ContainsEmpty DEF ToDo
      <3>2. \A i \in ObbIds : i \in Ids /\ i \notin AsecIds BY DEF Ids, ContainerAssumption
      <3>3. \A i \in ObbIds : ~Mounted(i) BY <1>2, <2>2, <3>1, <3>2 DEF Fits, CallFits
      <3> QED BY <3>3
    <2> QED BY <1>1, <2>1, <2>2
  <1>5. FilesDiffer' BY <1>1, <1>2 DEF Hardware, FilesDiffer
  <1>6. \A i \in AsecIds : Mounted(i) => Own(i)' = Own(i) BY <1>1 DEF Own
  <1>7. Hardware' /\ \A i \in Ids : Released(i)' <=> Released(i)
    BY <1>1, <1>2, <1>4, <1>5, <1>6, FilesHardware
  <1>8. \A i \in Ids : ~Mounted(i)' => Released(i)' BY <1>1, <1>2, <1>7 DEF Mounted
  <1> QED BY <1>3, <1>7, <1>8, ReturnsDevices
-----------------------------------------------------------------------------
(* The volume and the applications.                                         *)

(* Another disk brings no container back that was mounted from the one      *)
(* before: those have been unmounted.                                       *)
LEMMA BindSecureAreaDevices ==
  ASSUME ContainerAssumption, Shapes, Lists, Devices, BindSecureArea, disturbed' = {}
  PROVE  Devices'
  <1>1. /\ UNCHANGED <<loops, dms, mounts, held, pc, call>> /\ disturbed = {}
        /\ secureArea = "unbound" /\ secureArea' = "bound"
    BY DEF BindSecureArea, deviceVars, threadVars
  <1>2. Listing /\ Hardware BY <1>1, SomeDevices
  <1>3. /\ \A i \in AsecIds : file'[i]["int"] = file[i]["int"]
        /\ \A i \in AsecIds, d \in Directory : file'[i][d] \in {file[i][d], None}
    BY Typed DEF BindSecureArea, Directory
  <1>4. FilesDiffer' BY <1>2, <1>3 DEF Hardware, FilesDiffer
  <1>5. ASSUME NEW i \in Ids, i \in AsecIds => Kept(i)
        PROVE  Own(i)' = Own(i) /\ OwnDir(i)' = OwnDir(i)
    <2>1. CASE i \in ObbIds BY <2>1 DEF Own, OwnDir, ContainerAssumption
    <2>2. CASE i \in AsecIds
      <3>1. file[i]["int"] # None BY <1>1, <1>5, <2>2 DEF Kept
      <3> QED BY <1>3, <2>2, <3>1 DEF Own, OwnDir
    <2> QED BY <2>1, <2>2 DEF Ids
  <1>6. \A i \in AsecIds : Mounted(i) => Own(i)' = Own(i)
    <2>1. \A i \in AsecIds : i \in Ids /\ (Mounted(i) => Kept(i)) BY <1>2 DEF Listing, Ids
    <2> QED BY <1>5, <2>1
  <1>7. \A i \in ObbIds : Mounted(i) => secureArea' # "unbound" BY <1>1
  <1>8. Hardware' /\ \A i \in Ids : Released(i)' <=> Released(i)
    BY <1>1, <1>2, <1>4, <1>6, <1>7, FilesHardware
  <1>9. pc["cmd"] \in Making => /\ Own(call["cmd"].id)' = Own(call["cmd"].id)
                                /\ OwnDir(call["cmd"].id)' = OwnDir(call["cmd"].id)
    <2> SUFFICES ASSUME pc["cmd"] \in Making
                 PROVE  /\ Own(call["cmd"].id)' = Own(call["cmd"].id)
                        /\ OwnDir(call["cmd"].id)' = OwnDir(call["cmd"].id)
      OBVIOUS
    <2>1. call["cmd"].id \in Ids /\ Fits(pc["cmd"], call["cmd"]) BY <1>1, MakingDevices
    <2>2. PICK i \in Ids : i = call["cmd"].id /\ i = call'["cmd"].id BY <1>1, <2>1
    <2>3. i \in AsecIds => Kept(i) BY <2>1, <2>2 DEF Fits, CallFits
    <2>4. Own(i)' = Own(i) /\ OwnDir(i)' = OwnDir(i) BY <1>5, <2>3
    <2> QED BY <2>2, <2>4 DEF Own, OwnDir
  <1> QED BY <1>1, <1>8, <1>9, FilesDevices

\* The disk is pulled with its images: keeps Devices.
LEMMA DiskPulledDevices ==
  ASSUME ContainerAssumption, Shapes, Lists, Devices, DiskPulled, disturbed' = {}
  PROVE  Devices'
  <1>1. /\ UNCHANGED <<file, loops, dms, mounts, held, pc, call>> /\ disturbed = {}
        /\ secureArea' = "gone"
    BY DEF DiskPulled, deviceVars, threadVars
  <1>2. Hardware BY <1>1, SomeDevices
  <1>3. FilesDiffer' BY <1>1, <1>2 DEF Hardware, FilesDiffer
  <1>4. \A i \in AsecIds : Mounted(i) => Own(i)' = Own(i) BY <1>1 DEF Own
  <1>5. \A i \in ObbIds : Mounted(i) => secureArea' # "unbound" BY <1>1
  <1>6. Hardware' /\ \A i \in Ids : Released(i)' <=> Released(i)
    BY <1>1, <1>2, <1>3, <1>4, <1>5, FilesHardware
  <1>7. /\ Own(call["cmd"].id)' = Own(call["cmd"].id)
        /\ OwnDir(call["cmd"].id)' = OwnDir(call["cmd"].id)
    BY <1>1 DEF Own, OwnDir
  <1> QED BY <1>1, <1>6, <1>7, FilesDevices

(* Nothing was detached with files open.                                    *)
LEMMA CloseFilesDevices ==
  ASSUME Shapes, Lists, Devices, CloseFiles, disturbed' = {}
  PROVE  Devices'
  <1>1. disturbed = {} BY DEF CloseFiles
  <1>2. held = {} BY <1>1, SomeDevices DEF Hardware
  <1> QED BY <1>2 DEF CloseFiles

\* Nothing changes: keeps Devices.
LEMMA StutterDevices ==
  ASSUME Shapes, Lists, Devices, UNCHANGED vars, disturbed' = {}
  PROVE  Devices'
  <1>1. UNCHANGED <<file, secureArea, loops, dms, mounts, held, pc, call, disturbed>>
    BY DEF vars, fileVars, deviceVars, threadVars
  <1>2. PICK t \in Thread : /\ Hardware /\ pc[Other(t)] = "idle" /\ DeviceFits(pc[t], call[t])
    BY <1>1, SomeDevices
  <1>3. pc'[Other(t)] = "idle" /\ pc'[t] = pc[t] /\ call'[t] = call[t] BY <1>1, <1>2
  <1> QED BY <1>1, <1>2, <1>3, DevicesKept

-----------------------------------------------------------------------------
(* Devices is an invariant.                                                 *)

\* Devices holds of a device that has just booted.
LEMMA DevicesInit ==
  ASSUME ContainerAssumption, Init
  PROVE  Devices
  <1>1. "cmd" \in Thread /\ pc[Other("cmd")] = "idle" /\ pc["cmd"] = "idle"
    BY Others DEF Init, Thread
  <1>2. /\ \A id \in Ids : mounts[id] = <<>> /\ ~Mounted(id) /\ dms[id] = NoDevice
        /\ \A k \in Loop : loops[k] = FreeLoop
    BY DEF Init, Mounted
  <1>3. \A id \in Ids : Released(id) BY <1>2, AbsentMeans DEF Released, Bears, FreeLoop
  <1>4. Len(<<>>) = 0 BY EmptySeq
  <1>5. \A id \in Ids : 1..Len(mounts[id]) = {} BY <1>2, <1>4
  <1>6. FilesDiffer
    <2>1. \A id \in AsecIds, d \in Directory : file[id][d] = None BY DEF Init
    <2> QED BY <2>1 DEF FilesDiffer
  <1>7. LoopsFit
    <2>1. \A k \in Loop : ~loops[k].bound BY <1>2 DEF FreeLoop
    <2> QED BY <1>2, <2>1 DEF LoopsFit, Bears
  <1>8. DmsFit BY <1>2, AbsentMeans DEF DmsFit
  <1>9. MountsFit BY <1>2, <1>5 DEF MountsFit, Ids
  <1>10. Hardware BY <1>6, <1>7, <1>8, <1>9 DEF Hardware, Init
  <1>11. DeviceFits(pc["cmd"], call["cmd"]) BY <1>1, <1>3 DEF DeviceFits, HasLoop, Making
  <1> QED BY <1>1, <1>10, <1>11 DEF Devices

\* One case for each action: every step keeps Devices.
LEMMA DevicesNext ==
  ASSUME ContainerAssumption, ListAssumption, ReleaseAssumption, Shapes, Lists, Devices, [Next]_vars
  PROVE  Devices'
  <1>1. SUFFICES ASSUME disturbed' = {} PROVE Devices' BY DEF Devices
  <1>2. CASE StartCommand
    BY <1>1, <1>2, StartCreateDevices, CreateImageFailsDevices, StartMountDevices,
       StartUnmountDevices, CleanupDevices, StartUnmountAllDevices, StartDestroyDevices,
       RenameDevices, FinalizeDevices, StartFixupDevices
    DEF StartCommand
  <1>3. CASE CmdStep
    BY <1>1, <1>3, GetLoopDevices, ReadSuperblockDevices, GetDmDevices, FormatDevices,
       MountDeviceDevices, ListContainerDevices, TakeDownDmDevices, TakeDownLoopDevices,
       UnlinkDevices, FixupSealsDevices
    DEF CmdStep
  <1>4. CASE BadRemoval BY <1>1, <1>4, CleanupDevices
  <1>5. CASE Environment
    BY <1>1, <1>5, BindSecureAreaDevices, DiskPulledDevices, CloseFilesDevices DEF Environment
  <1>6. ASSUME NEW t \in Thread, ThreadStep(t) PROVE Devices'
    BY <1>1, <1>6, UnmountChecksDevices, UnmountDetachesDevices, UnmountDestroysDmDevices,
       UnmountDestroysLoopDevices, UnmountUnlistsDevices, NextContainerDevices,
       LastContainerDevices
    DEF ThreadStep
  <1>7. CASE UNCHANGED vars BY <1>1, <1>7, StutterDevices
  <1> QED BY <1>2, <1>3, <1>4, <1>5, <1>6, <1>7 DEF Next

(* The three invariants together.                                           *)
LEMMA Inductive ==
  ASSUME ListAssumption, ReleaseAssumption
  PROVE  Spec => [](Shapes /\ Lists /\ Devices)
  <1>1. Init => Shapes /\ Lists /\ Devices
    BY ContainerAssumption, ShapesInit, ListsInit, DevicesInit
  <1>2. Shapes /\ Lists /\ Devices /\ [Next]_vars => (Shapes /\ Lists /\ Devices)'
    BY ContainerAssumption, ShapesNext, ListsNext, DevicesNext
  <1> QED BY <1>1, <1>2, PTL DEF Spec

(* No error path leaves a loop or device mapper device behind: with no      *)
(* operation under way each belongs to a container that is listed, if what  *)
(* is not in use can be let go of, and the two calls that leave the device  *)
(* they fail on do not fail.                                                *)
THEOREM NothingLeaks ==
  ASSUME ListAssumption, ReleaseAssumption, LoopAssumption, DmAssumption
  PROVE  Spec => []NoLeak
  <1>1. Shapes /\ Lists /\ Devices => NoLeak
    <2> SUFFICES ASSUME Shapes, Lists, Devices, Quiescent, disturbed = {}
                 PROVE  /\ \A k \in Loop : loops[k].bound =>
                             Contains(mActiveContainers, loops[k].name)
                        /\ \A id \in Ids : dms[id] # NoDevice => Contains(mActiveContainers, id)
      BY DEF NoLeak
    <2>1. \A t \in Thread : pc[t] = "idle" BY DEF Quiescent
    <2>2. Hardware /\ Fits("idle", NoCall) /\ DeviceFits("idle", NoCall) BY <2>1, IdleDevices
    <2>3. \A id \in Ids : ~Released(id) => Contains(mActiveContainers, id)
      BY <2>2, IdleReleased, IdleMeans
    <2>4. \A k \in Loop : loops[k].bound => loops[k].name \in Ids /\ ~Released(loops[k].name)
      BY <2>2 DEF Hardware, LoopsFit, LoopAssumption, Released, Bears
    <2>5. \A id \in Ids : dms[id] # NoDevice => ~Released(id)
      BY DEF Released, Absent, DmAssumption
    <2> QED BY <2>3, <2>4, <2>5
  <1> QED BY <1>1, Inductive, PTL

(* What is mounted for an ASEC is the image file of that ASEC, which is not *)
(* deleted or renamed while it is mounted, whichever call of an operation   *)
(* fails, if lookups and what lets go of devices do not.                    *)
THEOREM OwnImages ==
  ASSUME ListAssumption, ReleaseAssumption
  PROVE  Spec => []MountsOwnImage
  <1>1. Shapes /\ Lists /\ Devices => MountsOwnImage
    <2> SUFFICES ASSUME Shapes, Lists, Devices, disturbed = {},
                        NEW id \in AsecIds, NEW i \in DOMAIN mounts[id]
                 PROVE  \E d \in Directory : loops[mounts[id][i].loop].file = file[id][d]
      BY DEF MountsOwnImage
    <2>1. id \in Ids /\ id \notin ObbIds BY ContainerAssumption DEF ContainerAssumption, Ids
    <2>2. i \in 1..Len(mounts[id]) BY <2>1, MountPlaces
    <2>3. loops[mounts[id][i].loop].file = Own(id)
      BY <2>1, <2>2, SomeDevices DEF Hardware, MountsFit, MountFits
    <2> QED BY <2>1, <2>3 DEF Own, Directory
  <1> QED BY <1>1, Inductive, PTL

(* No image file is behind two loop devices, if each gets its name, is      *)
(* found again by it and let go of when it is asked to be.                  *)
THEOREM OneLoop ==
  ASSUME ListAssumption, ReleaseAssumption, LoopAssumption
  PROVE  Spec => []OneLoopPerImage
  <1>1. Shapes /\ Lists /\ Devices => OneLoopPerImage
    <2> SUFFICES ASSUME Shapes, Lists, Devices, disturbed = {}, NEW j \in Loop, NEW k \in Loop,
                        loops[j].bound, loops[k].bound, loops[j].file = loops[k].file
                 PROVE  j = k
      BY DEF OneLoopPerImage
    <2>1. LoopsFit BY SomeDevices DEF Hardware
    <2>2. \E id1, id2 \in Ids : Bears(j, id1) /\ Bears(k, id2)
      BY <2>1 DEF LoopsFit, LoopAssumption, Bears
    <2> QED BY <2>1, <2>2 DEF LoopsFit
  <1> QED BY <1>1, Inductive, PTL

(* createAsec finds the device mapper name of a new container free, if      *)
(* every device mapper device gets its table and goes when it is not in use.*)
THEOREM FreshNames ==
  ASSUME ListAssumption, ReleaseAssumption, DmAssumption
  PROVE  Spec => []FreshDevices
  <1>1. Shapes /\ Lists /\ Devices => FreshDevices
    <2> SUFFICES ASSUME Shapes, Lists, Devices, disturbed = {}, pc["cmd"] = "dm"
                 PROVE  dms[call["cmd"].id] = NoDevice
      BY DEF FreshDevices
    <2>1. pc["cmd"] \in Making BY DEF Making
    <2>2. dms[call["cmd"].id] \in Absent BY <2>1, MakingDevices DEF DeviceFits
    <2> QED BY <2>2 DEF Absent, DmAssumption
  <1> QED BY <1>1, Inductive, PTL

(* Once the volume is unmounted no container from it is mounted, whichever  *)
(* call of an operation fails, if lookups, directories, /proc/mounts and    *)
(* what lets go of devices do not.                                          *)
THEOREM Cleaned ==
  ASSUME ListAssumption, ReleaseAssumption
  PROVE  Spec => []CleanedUp
  <1>1. Shapes /\ Lists /\ Devices => CleanedUp
    <2> SUFFICES ASSUME Shapes, Lists, Devices, disturbed = {}, secureArea = "unbound",
                        NEW id \in Ids, Mounted(id)
                 PROVE  id \in AsecIds /\ file[id]["int"] # None
      BY DEF CleanedUp
    <2>1. Listing /\ Hardware BY SomeDevices
    <2>2. id \in AsecIds BY <2>1 DEF Hardware, MountsFit, Ids
    <2> QED BY <2>1, <2>2 DEF Listing, Kept
  <1> QED BY <1>1, Inductive, PTL
=============================================================================
