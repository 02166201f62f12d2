--------------------------- MODULE AsecContainers ---------------------------
(***************************************************************************)
(* The containers of VolumeManager.cpp: ASECs (an application in an image  *)
(* file) and OBBs (an image file of an application), each mounted through  *)
(* a loop device (Loop.cpp) and, if it has a key, a device mapper device   *)
(* (Devmapper.cpp).                                                        *)
(*                                                                         *)
(* "cmd" is the CommandListener thread, which runs every command on        *)
(* containers.  "net" is the NetlinkHandler thread: a bad removal of the   *)
(* volume runs cleanupAsec on it, beside the command and without a lock.   *)
(* A step is one system call that changes something, with the code around  *)
(* it.  A container and its hash, which names the devices, are one id.     *)
(***************************************************************************)
EXTENDS Integers, Sequences, FiniteSets, SequencesExt

CONSTANTS
  AsecIds, ObbIds,  \* ids of ASECs; OBBs, by the name of their file
  Images,           \* image files ASECs may have, as inodes
  None,             \* no image file
  LOOP_MAX,         \* 4096: loop devices
  Filesystems,      \* fstype arguments of createAsec in use
  Failing,          \* calls that may fail
  OpenFiles,        \* a container may be in use when it is unmounted
  LostLookups,      \* lookups on a disk that is gone may fail
  LazyClear,        \* LOOP_CLR_FD of a device in use waits, as since Linux 3.7
  MaxActive         \* bound on the length of mActiveContainers

Ids == AsecIds \cup ObbIds
Thread == {"cmd", "net"}
Calls == {"opendir", "mounts", "image", "loop", "loopstatus", "lookup", "loopclear", "info",
          "dm", "dmtable", "dmremove", "format", "mount", "unmountVol"}

ASSUME ContainerAssumption ==
  /\ IsFiniteSet(Ids) /\ AsecIds \cap ObbIds = {}
  /\ None \notin Images \cup Ids /\ Images \cap ObbIds = {}
  /\ LOOP_MAX \in Nat \ {0}
  /\ Filesystems \subseteq {"none", "fat", "ext4"}
  /\ Failing \subseteq Calls
  /\ {OpenFiles, LostLookups, LazyClear} \subseteq BOOLEAN
  /\ MaxActive \in Nat

VARIABLES
  file,               \* image of each ASEC in each directory, or None
  content,            \* what an image holds
  secureArea,         \* SEC_ASECDIR_EXT: "unbound", "bound", or "gone" with its disk
  loops,              \* loop devices
  dms,                \* loop under the device mapper device of each id
  mounts,             \* what is mounted on the mountpoint of each id
  held,               \* file systems detached while files were open
  mActiveContainers,  \* VolumeManager: ids of the containers listed as mounted
  pc,                 \* where each thread is
  call,               \* the operation of each thread with its local variables
  disturbed           \* history: "overlap" of a cleanup and a command, "open" files at an unmount

fileVars   == <<file, content, secureArea>>
deviceVars == <<loops, dms, mounts, held>>
threadVars == <<pc, call>>
vars == <<fileVars, deviceVars, mActiveContainers, threadVars, disturbed>>

Directory == {"int", "ext"}   \* SEC_ASECDIR_INT, SEC_ASECDIR_EXT

Loop     == 0..(LOOP_MAX - 1)
FreeLoop == [bound |-> FALSE, name |-> None, file |-> None, clearing |-> FALSE]
NoDevice == -1    \* no dm device of that name
NoTable  == -2    \* DM_DEV_CREATE went through, DM_TABLE_LOAD did not

NoCall == [op |-> "none", id |-> None, dir |-> "int", key |-> FALSE, fs |-> "none",
           loop |-> 0, todo |-> <<>>, freed |-> {}]
Goto(t, l) == pc' = [pc EXCEPT ![t] = l]
NoteLoop(k) == call' = [call EXCEPT !["cmd"].loop = k]
Return(t) == Goto(t, "idle") /\ call' = [call EXCEPT ![t] = NoCall]
MayFail(c) == c \in Failing

-----------------------------------------------------------------------------
(* Files.                                                                   *)

\* The directories that hold the file.  A disk that is gone may still answer
\* from the cache.
Stored(id) ==
  IF file[id]["int"] # None THEN {"int"}
  ELSE IF file[id]["ext"] = None \/ secureArea = "unbound" THEN {"nowhere"}
  ELSE IF secureArea = "gone" /\ LostLookups THEN {"ext", "nowhere"} ELSE {"ext"}

\* findAsec: the internal directory first.  One that cannot be opened counts
\* as one that has the file: isAsecInDirectory returns -1 as a bool.
Found(id) ==
  Stored(id) \cup (IF MayFail("opendir") THEN {"int"} ELSE {})
             \cup (IF MayFail("opendir") /\ file[id]["int"] = None THEN {"ext"} ELSE {})

\* Nothing lasts that is written to a disk that is gone, and the framework
\* creates no external container while the volume is not mounted.
Writable(dir) == dir = "int" \/ secureArea = "bound"

\* The image file an operation opens: an OBB, on the volume, is its own image.
ImageOf(id, dir) ==
  IF dir = "ext" /\ secureArea = "unbound" THEN None
  ELSE IF id \in ObbIds THEN id ELSE file[id][dir]
Location(id) == IF id \in ObbIds THEN {"ext"} ELSE Found(id) \ {"nowhere"}

InFile(img) == \E id \in AsecIds, d \in Directory : file[id][d] = img
Mounted(id) == mounts[id] # <<>>

\* isMountpointMounted returns false, which it does without /proc/mounts as well.
SeemsFree(id) == ~Mounted(id) \/ MayFail("mounts")

-----------------------------------------------------------------------------
(* Loop and Devmapper.  A device is in use while something is mounted on it *)
(* or was detached with files open, or while a dm device lies over it.      *)

DmInUse(id, m, h) ==
  \/ \E i \in DOMAIN m[id] : m[id][i].dm
  \/ \E x \in h : x.id = id /\ x.dm
LoopInUse(k, d, m, h) ==
  \/ \E id \in Ids : d[id] = k
  \/ \E id \in Ids : \E i \in DOMAIN m[id] : m[id][i].loop = k
  \/ \E x \in h : x.loop = k

\* The kernel lets go of the devices that wait for LOOP_CLR_FD.
Settled(l, d, m, h) ==
  [k \in Loop |-> IF l[k].clearing /\ ~LoopInUse(k, d, m, h) THEN FreeLoop ELSE l[k]]

\* Loop::lookupActive: the first device that bears the name.
Active(id) == {k \in Loop : /\ loops[k].bound /\ loops[k].name = id
                            /\ \A j \in 0..(k - 1) : ~(loops[j].bound /\ loops[j].name = id)}
FirstFree  == {k \in Loop : ~loops[k].bound /\ \A j \in 0..(k - 1) : loops[j].bound}

\* Loop::destroyByDevice, of which nobody asks whether it has succeeded.
Cleared(k) ==
  IF ~loops[k].bound THEN loops
  ELSE IF ~LoopInUse(k, dms, mounts, held) THEN [loops EXCEPT ![k] = FreeLoop]
  ELSE IF LazyClear THEN [loops EXCEPT ![k].clearing = TRUE] ELSE loops
Clear(k) == loops' = Cleared(k) \/ (MayFail("loopclear") /\ UNCHANGED loops)

\* Mutated: the index of the loop device is advanced before it is noted.
LoopCreateNotesNext(img, ok, failed) ==
  \/ \E k \in FirstFree :
       /\ loops' = [loops EXCEPT ![k] = [bound |-> TRUE, name |-> call["cmd"].id,
                                         file |-> img, clearing |-> FALSE]]
       /\ NoteLoop(k + 1) /\ Goto("cmd", ok)
  \/ FirstFree = {} /\ failed /\ UNCHANGED loops

\* Loop::create of the command; after LOOP_SET_FD a failure leaves the device bound.
LoopCreate(img, ok, failed) ==
  \/ \E k \in FirstFree :
       /\ img # None
       /\ loops' = [loops EXCEPT ![k] = [bound |-> TRUE, name |-> call["cmd"].id,
                                         file |-> img, clearing |-> FALSE]]
       /\ NoteLoop(k) /\ Goto("cmd", ok)
  \/ \E k \in FirstFree :
       /\ img # None /\ MayFail("loopstatus")
       /\ loops' = [loops EXCEPT ![k] = [bound |-> TRUE, name |-> None,
                                         file |-> img, clearing |-> FALSE]]
       /\ failed
  \/ (FirstFree = {} \/ img = None \/ MayFail("loop")) /\ failed /\ UNCHANGED loops

\* Devmapper::destroy, alike: DM_DEV_REMOVE fails while the device is open.
DmDestroyed(id) == IF DmInUse(id, mounts, held) THEN dms ELSE [dms EXCEPT ![id] = NoDevice]
DestroyDm(id) == dms' = DmDestroyed(id) \/ (MayFail("dmremove") /\ UNCHANGED dms)

-----------------------------------------------------------------------------
(* createAsec, mountAsec and mountObb.                                      *)

Begin(c, l) ==
  /\ pc["cmd"] = "idle"
  /\ call' = [call EXCEPT !["cmd"] = c]
  /\ Goto("cmd", l)
  /\ disturbed' = IF pc["net"] = "idle" THEN disturbed ELSE disturbed \cup {"overlap"}

\* Loop::createImageFile, where no ASEC of the id is found and no such file is.
ImageCreated(id, dir) ==
  /\ "nowhere" \in Found(id) /\ file[id][dir] = None /\ Writable(dir)
  /\ \E img \in Images :
       /\ ~InFile(img) /\ \A k \in Loop : loops[k].file # img
       /\ file' = [file EXCEPT ![id][dir] = img]
       /\ content' = [content EXCEPT ![img] = [fs |-> "blank", key |-> FALSE]]
  /\ UNCHANGED secureArea

StartCreate ==
  /\ Len(mActiveContainers) < MaxActive
  /\ \E id \in AsecIds, dir \in Directory, key \in BOOLEAN, fs \in Filesystems :
       /\ ImageCreated(id, dir)
       /\ Begin([NoCall EXCEPT !.op = "create", !.id = id, !.dir = dir, !.key = key, !.fs = fs],
                "loop")
  /\ UNCHANGED <<deviceVars, mActiveContainers>>

\* The file is there, but too short, and stays.
CreateImageFails ==
  /\ pc["cmd"] = "idle" /\ MayFail("image")
  /\ \E id \in AsecIds, dir \in Directory : ImageCreated(id, dir)
  /\ UNCHANGED <<deviceVars, mActiveContainers, threadVars, disturbed>>

\* Mutated: it is not checked that the container is not mounted yet.
StartMountAgain ==
  /\ Len(mActiveContainers) < MaxActive
  /\ \E id \in Ids, key \in BOOLEAN : \E dir \in Location(id) :
       Begin([NoCall EXCEPT !.op = "mount", !.id = id, !.dir = dir, !.key = key], "loop")
  /\ UNCHANGED <<fileVars, deviceVars, mActiveContainers>>

StartMount ==
  /\ Len(mActiveContainers) < MaxActive
  /\ \E id \in Ids, key \in BOOLEAN : \E dir \in Location(id) :
       /\ SeemsFree(id)
       /\ Begin([NoCall EXCEPT !.op = "mount", !.id = id, !.dir = dir, !.key = key], "loop")
  /\ UNCHANGED <<fileVars, deviceVars, mActiveContainers>>

\* A new loop device, or for a mount the active one if the lookup finds it.
GetLoop ==
  /\ pc["cmd"] = "loop"
  /\ LET c == call["cmd"]
         after == IF c.op = "mount" THEN "info" ELSE IF c.key THEN "dm" ELSE "format"
     IN \/ /\ c.op = "mount" /\ \E k \in Active(c.id) : NoteLoop(k)
           /\ Goto("cmd", after) /\ UNCHANGED loops
        \/ /\ c.op = "create" \/ Active(c.id) = {} \/ MayFail("lookup")
           /\ LoopCreate(ImageOf(c.id, c.dir), after,
                         IF c.op = "create" THEN Goto("cmd", "down_file") /\ UNCHANGED call
                                            ELSE Return("cmd"))
  /\ UNCHANGED <<fileVars, dms, mounts, held, mActiveContainers, disturbed>>

\* Loop::lookupInfo, and the check of the superblock, which an OBB has not.
Readable(k) ==
  loops[k].bound /\ (loops[k].file \in Images => content[loops[k].file].fs # "blank")

ReadSuperblock ==
  /\ pc["cmd"] = "info"
  /\ LET c == call["cmd"]
     IN \/ /\ Readable(c.loop)
           /\ Goto("cmd", IF c.key THEN "dm" ELSE "mount")
           /\ UNCHANGED <<call, loops>>
        \/ /\ MayFail("info") \/ ~Readable(c.loop)
           /\ Clear(c.loop) /\ Return("cmd")
  /\ UNCHANGED <<fileVars, dms, mounts, held, mActiveContainers, disturbed>>

\* Devmapper::create, or for a mount the active device.  DM_DEV_CREATE refuses
\* a name that is taken, DM_TABLE_LOAD a loop device without a file.
GetDm ==
  /\ pc["cmd"] = "dm"
  /\ LET c == call["cmd"]
         after == IF c.op = "create" THEN "format" ELSE "mount"
     IN \/ c.op = "mount" /\ dms[c.id] # NoDevice /\ Goto("cmd", after) /\ UNCHANGED dms
        \/ /\ dms[c.id] = NoDevice /\ loops[c.loop].bound
           /\ dms' = [dms EXCEPT ![c.id] = c.loop] /\ Goto("cmd", after)
        \/ /\ dms[c.id] = NoDevice /\ (MayFail("dmtable") \/ ~loops[c.loop].bound)
           /\ dms' = [dms EXCEPT ![c.id] = NoTable] /\ Goto("cmd", "down_loop")
        \/ /\ (dms[c.id] # NoDevice /\ c.op = "create") \/ MayFail("dm")
           /\ Goto("cmd", "down_loop") /\ UNCHANGED dms
  /\ UNCHANGED <<fileVars, loops, mounts, held, mActiveContainers, call, disturbed>>

\* createAsec writes the superblock and formats the device.
Format ==
  /\ pc["cmd"] = "format"
  /\ LET c == call["cmd"]
     IN \/ /\ loops[c.loop].bound
           /\ content' = [content EXCEPT ![loops[c.loop].file] = [fs |-> c.fs, key |-> c.key]]
           /\ Goto("cmd", IF c.fs = "none" THEN "push" ELSE "mount")
        \/ /\ MayFail("format") \/ ~loops[c.loop].bound
           /\ Goto("cmd", "down_dm") /\ UNCHANGED content
  /\ UNCHANGED <<file, secureArea, deviceVars, mActiveContainers, call, disturbed>>

\* The device an operation mounts can be mounted: there is a filesystem, and
\* the key is the one it was made with.  Of an OBB nothing is known.
Mountable(c, k) ==
  /\ k \in Loop /\ loops[k].bound
  /\ loops[k].file \in Images => /\ content[loops[k].file].fs \in {"fat", "ext4"}
                                 /\ content[loops[k].file].key = c.key

MountDevice ==
  /\ pc["cmd"] = "mount"
  /\ LET c == call["cmd"]
         k == IF c.key THEN dms[c.id] ELSE c.loop
     IN \/ /\ Mountable(c, k)
           /\ mounts' = [mounts EXCEPT ![c.id] =
                           Append(@, [loop |-> k, dm |-> c.key, ro |-> c.op = "mount"])]
           /\ Goto("cmd", "push")
        \/ /\ MayFail("mount") \/ ~Mountable(c, k)
           /\ Goto("cmd", "down_dm") /\ UNCHANGED mounts
  /\ UNCHANGED <<fileVars, loops, dms, held, mActiveContainers, call, disturbed>>

ListContainer ==
  /\ pc["cmd"] = "push"
  /\ mActiveContainers' = Append(mActiveContainers, call["cmd"].id)
  /\ Return("cmd")
  /\ UNCHANGED <<fileVars, deviceVars, disturbed>>

\* Mutated: cleanupDm is set by createAsec only.
TakeDownDmOfCreate ==
  /\ pc["cmd"] = "down_dm"
  /\ IF call["cmd"].key /\ call["cmd"].op = "create" THEN DestroyDm(call["cmd"].id)
                                                     ELSE UNCHANGED dms
  /\ loops' = Settled(loops, dms', mounts, held)
  /\ Goto("cmd", "down_loop")
  /\ UNCHANGED <<fileVars, mounts, held, mActiveContainers, call, disturbed>>

\* The way back after an error: device mapper, loop, and the file of a create.
TakeDownDm ==
  /\ pc["cmd"] = "down_dm"
  /\ IF call["cmd"].key THEN DestroyDm(call["cmd"].id) ELSE UNCHANGED dms
  /\ loops' = Settled(loops, dms', mounts, held)
  /\ Goto("cmd", "down_loop")
  /\ UNCHANGED <<fileVars, mounts, held, mActiveContainers, call, disturbed>>

\* Mutated: an error of a mount leaves the loop device to the next mount.
TakeDownLoopOfCreate ==
  /\ pc["cmd"] = "down_loop"
  /\ IF call["cmd"].op = "create"
     THEN Clear(call["cmd"].loop) /\ Goto("cmd", "down_file") /\ UNCHANGED call
     ELSE Return("cmd") /\ UNCHANGED loops
  /\ UNCHANGED <<fileVars, dms, mounts, held, mActiveContainers, disturbed>>

TakeDownLoop ==
  /\ pc["cmd"] = "down_loop"
  /\ Clear(call["cmd"].loop)
  /\ IF call["cmd"].op = "create" THEN Goto("cmd", "down_file") /\ UNCHANGED call
                                  ELSE Return("cmd")
  /\ UNCHANGED <<fileVars, dms, mounts, held, mActiveContainers, disturbed>>

\* unlink, by the path the operation has built: it may lead nowhere by now.
Unlinked(id, dir) == IF Writable(dir) THEN [file EXCEPT ![id][dir] = None] ELSE file

TakeDownFile ==
  /\ pc["cmd"] = "down_file"
  /\ file' = Unlinked(call["cmd"].id, call["cmd"].dir)
  /\ Return("cmd")
  /\ UNCHANGED <<content, secureArea, deviceVars, mActiveContainers, disturbed>>

-----------------------------------------------------------------------------
(* unmountAsec, unmountObb and unmountLoopImage, by either thread t.  They  *)
(* are commands, and steps of destroyAsec, cleanupAsec and                  *)
(* unmountAllAsecsInDir.                                                    *)

StartUnmount ==
  /\ \E id \in Ids : Begin([NoCall EXCEPT !.op = "unmount", !.id = id], "um_check")
  /\ UNCHANGED <<fileVars, deviceVars, mActiveContainers>>

\* What follows the unmount, with the calls c.
AfterUnmount(t, ok, c) ==
  \/ /\ c[t].op \in {"cleanup", "unmountAll"}
     /\ Goto(t, "next") /\ call' = c
  \/ /\ c[t].op = "destroy" /\ ok
     /\ Goto(t, "unlink") /\ call' = c
  \/ /\ c[t].op = "unmount" \/ (c[t].op = "destroy" /\ ~ok)
     /\ Goto(t, "idle") /\ call' = [c EXCEPT ![t] = NoCall]

UnmountChecks(t) ==
  /\ pc[t] = "um_check"
  /\ LET id == call[t].id
     IN \/ /\ Location(id) # {} /\ Mounted(id)
           /\ Goto(t, "um_detach") /\ UNCHANGED call
        \/ /\ \/ id \in AsecIds /\ "nowhere" \in Found(id)
              \/ SeemsFree(id)
           /\ AfterUnmount(t, FALSE, call)
  /\ UNCHANGED <<fileVars, deviceVars, mActiveContainers, disturbed>>

\* umount2 with MNT_DETACH does not wait for open files, and EINVAL (nothing
\* is mounted any more) counts as success: the retries are never needed.
UnmountDetaches(t) ==
  /\ pc[t] = "um_detach"
  /\ LET id == call[t].id
     IN IF Mounted(id)
        THEN LET top == Last(mounts[id])
             IN /\ mounts' = [mounts EXCEPT ![id] = Front(@)]
                /\ \/ UNCHANGED held
                   \/ OpenFiles /\ held' = held \cup {[id |-> id, loop |-> top.loop, dm |-> top.dm]}
        ELSE UNCHANGED <<mounts, held>>
  /\ disturbed' = IF held' = held THEN disturbed ELSE disturbed \cup {"open"}
  /\ loops' = Settled(loops, dms, mounts', held')
  /\ Goto(t, "um_dm")
  /\ UNCHANGED <<fileVars, dms, mActiveContainers, call>>

\* Mutated: no Devmapper::destroy.
UnmountKeepsDm(t) ==
  /\ pc[t] = "um_dm" /\ Goto(t, "um_loop")
  /\ UNCHANGED <<fileVars, deviceVars, mActiveContainers, call, disturbed>>

UnmountDestroysDm(t) ==
  /\ pc[t] = "um_dm"
  /\ DestroyDm(call[t].id)
  /\ loops' = Settled(loops, dms', mounts, held)
  /\ Goto(t, "um_loop")
  /\ UNCHANGED <<fileVars, mounts, held, mActiveContainers, call, disturbed>>

UnmountDestroysLoop(t) ==
  /\ pc[t] = "um_loop"
  /\ \/ \E k \in Active(call[t].id) : Clear(k)
     \/ (Active(call[t].id) = {} \/ MayFail("lookup")) /\ UNCHANGED loops
  /\ Goto(t, "um_erase")
  /\ UNCHANGED <<fileVars, dms, mounts, held, mActiveContainers, call, disturbed>>

\* The entry of the id is freed, also if a cleanup of the other thread has yet
\* to use it.
Other(t) == CHOOSE u \in Thread : u # t
EntryFreed(t, id) ==
  IF call[Other(t)].op = "cleanup" /\ Contains(call[Other(t)].todo, id)
  THEN [call EXCEPT ![Other(t)].freed = @ \cup {id}] ELSE call

UnmountUnlists(t) ==
  /\ pc[t] = "um_erase"
  /\ mActiveContainers' = RemoveFirst(mActiveContainers, call[t].id)
  /\ AfterUnmount(t, TRUE, IF Contains(mActiveContainers, call[t].id)
                           THEN EntryFreed(t, call[t].id) ELSE call)
  /\ UNCHANGED <<fileVars, deviceVars, disturbed>>

-----------------------------------------------------------------------------
(* cleanupAsec, on cmd for an unmount of the volume and on net for a bad    *)
(* removal, and unmountAllAsecsInDir.                                       *)

\* The elements of s that are in S, in their order.
Selected(s, S) ==
  LET sel[n \in 0..Len(s)] == IF n = 0 THEN <<>>
                              ELSE IF s[n] \in S THEN Append(sel[n - 1], s[n]) ELSE sel[n - 1]
  IN sel[Len(s)]

\* Mutated: the comparison with SEC_ASECDIR_EXT the wrong way round.
DependentInside(where) ==
  Selected(mActiveContainers, {id \in AsecIds : where[id] # "ext"})
    \o Selected(mActiveContainers, ObbIds)

\* What cleanupAsec lists: ASECs of the external directory or not found at
\* all, then the OBBs, which lie on the volume.
Dependent(where) ==
  Selected(mActiveContainers, {id \in AsecIds : where[id] # "int"})
    \o Selected(mActiveContainers, ObbIds)

Cleanup(t) ==
  \E where \in [AsecIds -> {"int", "ext", "nowhere"}] :
    /\ \A id \in AsecIds : where[id] \in Found(id)
    /\ call' = [call EXCEPT ![t] = [NoCall EXCEPT !.op = "cleanup", !.todo = Dependent(where)]]
    /\ Goto(t, "next")
    /\ disturbed' = IF pc[Other(t)] = "idle" THEN disturbed ELSE disturbed \cup {"overlap"}

StartUnmountVolume ==
  /\ pc["cmd"] = "idle" /\ secureArea # "unbound"
  /\ Cleanup("cmd")
  /\ UNCHANGED <<fileVars, deviceVars, mActiveContainers>>

BadRemoval ==
  /\ pc["net"] = "idle" /\ secureArea = "gone"
  /\ Cleanup("net")
  /\ UNCHANGED <<fileVars, deviceVars, mActiveContainers>>

\* vold_unmountAllAsecs: the files of SEC_ASECDIR_EXT, then of SEC_ASECDIR_INT.
FilesIn(dir) == {id \in AsecIds : ImageOf(id, dir) # None}

StartUnmountAll ==
  /\ \E ext \in SetToSeqs(FilesIn("ext")), int \in SetToSeqs(FilesIn("int")) :
       Begin([NoCall EXCEPT !.op = "unmountAll", !.todo = ext \o int], "next")
  /\ UNCHANGED <<fileVars, deviceVars, mActiveContainers>>

\* The next id is read from its entry.  If the entry has been freed, the id may
\* read as one that is not found.
NextContainer(t) ==
  /\ pc[t] = "next" /\ call[t].todo # <<>>
  /\ LET id == Head(call[t].todo)
         c  == [call EXCEPT ![t].todo = Tail(@), ![t].id = id]
     IN \/ call' = c /\ Goto(t, "um_check")
        \/ id \in call[t].freed /\ call' = c /\ UNCHANGED pc
  /\ UNCHANGED <<fileVars, deviceVars, mActiveContainers, disturbed>>

\* Volume::unmountVol follows a cleanup.
LastContainer(t) ==
  /\ pc[t] = "next" /\ call[t].todo = <<>>
  /\ \/ call[t].op = "cleanup" /\ secureArea' = "unbound"
     \/ (call[t].op = "unmountAll" \/ MayFail("unmountVol")) /\ UNCHANGED secureArea
  /\ Return(t)
  /\ UNCHANGED <<file, content, deviceVars, mActiveContainers, disturbed>>

-----------------------------------------------------------------------------
(* destroyAsec, renameAsec, finalizeAsec and fixupAsecPermissions.          *)

StartDestroy ==
  /\ \E id \in AsecIds : \E dir \in Location(id) :
       LET c == [NoCall EXCEPT !.op = "destroy", !.id = id, !.dir = dir]
       IN \/ Mounted(id) /\ Begin(c, "um_check")
          \/ SeemsFree(id) /\ Begin(c, "unlink")
  /\ UNCHANGED <<fileVars, deviceVars, mActiveContainers>>

DestroyUnlinks ==
  /\ pc["cmd"] = "unlink"
  /\ file' = Unlinked(call["cmd"].id, call["cmd"].dir)
  /\ Return("cmd")
  /\ UNCHANGED <<content, secureArea, deviceVars, mActiveContainers, disturbed>>

\* Mutated: only the new id is checked not to be mounted.
RenameMounted ==
  /\ pc["cmd"] = "idle"
  /\ \E id1, id2 \in AsecIds : \E dir \in Location(id1) :
       /\ SeemsFree(id2)
       /\ file[id2][dir] = None /\ Writable(dir)
       /\ file' = [file EXCEPT ![id2][dir] = file[id1][dir], ![id1][dir] = None]
  /\ UNCHANGED <<content, secureArea, deviceVars, mActiveContainers, threadVars, disturbed>>

Rename ==
  /\ pc["cmd"] = "idle"
  /\ \E id1, id2 \in AsecIds : \E dir \in Location(id1) :
       /\ SeemsFree(id1) /\ SeemsFree(id2)
       /\ file[id2][dir] = None /\ Writable(dir)
       /\ file' = [file EXCEPT ![id2][dir] = file[id1][dir], ![id1][dir] = None]
  /\ UNCHANGED <<content, secureArea, deviceVars, mActiveContainers, threadVars, disturbed>>

\* Of a mounted container, the topmost filesystem is mounted again as given.
Remounted(id, ro) ==
  IF Mounted(id) THEN [mounts EXCEPT ![id][Len(mounts[id])].ro = ro] ELSE mounts

\* Both look the loop device up and read its superblock first.
ReadsActive(id, k) ==
  /\ pc["cmd"] = "idle"
  /\ Location(id) # {} /\ k \in Active(id)

Finalize ==
  /\ \E id \in AsecIds, k \in Loop :
       /\ ReadsActive(id, k)
       /\ \/ mounts' = Remounted(id, TRUE) /\ UNCHANGED loops
          \/ MayFail("info") /\ Clear(k) /\ UNCHANGED mounts
  /\ UNCHANGED <<fileVars, dms, held, mActiveContainers, threadVars, disturbed>>

\* Only an ext4 container is remounted, first for writing.
StartFixup ==
  /\ \E id \in AsecIds, k \in Loop :
       /\ ReadsActive(id, k)
       /\ \/ /\ loops[k].file \in Images /\ content[loops[k].file].fs = "ext4" /\ Mounted(id)
             /\ mounts' = Remounted(id, FALSE)
             /\ Begin([NoCall EXCEPT !.op = "fixup", !.id = id], "seal")
             /\ UNCHANGED loops
          \/ /\ MayFail("info") /\ Clear(k)
             /\ UNCHANGED <<mounts, threadVars, disturbed>>
  /\ UNCHANGED <<fileVars, dms, held, mActiveContainers>>

\* The owners are set, and the container is made read-only again.
FixupSeals ==
  /\ pc["cmd"] = "seal"
  /\ \/ mounts' = Remounted(call["cmd"].id, TRUE)
     \/ MayFail("mount") /\ UNCHANGED mounts
  /\ Return("cmd")
  /\ UNCHANGED <<fileVars, loops, dms, held, mActiveContainers, disturbed>>

-----------------------------------------------------------------------------
(* The volume and the applications.                                         *)

\* mountAsecExternal, on whichever thread mounts the volume: the disk that was
\* there before, or another one without containers.
BindSecureArea ==
  /\ secureArea = "unbound" /\ \E t \in Thread : pc[t] = "idle"
  /\ secureArea' = "bound"
  /\ \/ UNCHANGED file
     \/ file' = [id \in AsecIds |-> [file[id] EXCEPT !["ext"] = None]]
  /\ UNCHANGED <<content, deviceVars, mActiveContainers, threadVars, disturbed>>

DiskPulled ==
  /\ secureArea = "bound"
  /\ secureArea' = "gone"
  /\ UNCHANGED <<file, content, deviceVars, mActiveContainers, threadVars, disturbed>>

\* The last open file of a detached filesystem is closed.
CloseFiles ==
  /\ \E x \in held : held' = held \ {x}
  /\ loops' = Settled(loops, dms, mounts, held')
  /\ UNCHANGED <<fileVars, dms, mounts, mActiveContainers, threadVars, disturbed>>

Init ==
  /\ file = [id \in AsecIds |-> [d \in Directory |-> None]]
  /\ content = [img \in Images |-> [fs |-> "blank", key |-> FALSE]]
  /\ secureArea = "unbound"
  /\ loops = [k \in Loop |-> FreeLoop]
  /\ dms = [id \in Ids |-> NoDevice]
  /\ mounts = [id \in Ids |-> <<>>]
  /\ held = {}
  /\ mActiveContainers = <<>>
  /\ pc = [t \in Thread |-> "idle"]
  /\ call = [t \in Thread |-> NoCall]
  /\ disturbed = {}

StartCommand ==
  \/ StartCreate \/ CreateImageFails \/ StartMount \/ StartUnmount \/ StartUnmountVolume
  \/ StartUnmountAll \/ StartDestroy \/ Rename \/ Finalize \/ StartFixup

CmdStep ==
  \/ GetLoop \/ ReadSuperblock \/ GetDm \/ Format \/ MountDevice \/ ListContainer
  \/ TakeDownDm \/ TakeDownLoop \/ TakeDownFile \/ DestroyUnlinks \/ FixupSeals

ThreadStep(t) ==
  \/ UnmountChecks(t) \/ UnmountDetaches(t) \/ UnmountDestroysDm(t)
  \/ UnmountDestroysLoop(t) \/ UnmountUnlists(t) \/ NextContainer(t) \/ LastContainer(t)

Environment == BindSecureArea \/ DiskPulled \/ CloseFiles

Next ==
  \/ StartCommand \/ CmdStep \/ BadRemoval \/ Environment
  \/ \E t \in Thread : ThreadStep(t)

Spec == Init /\ [][Next]_vars

-----------------------------------------------------------------------------
(* Properties.                                                              *)

(* The variables keep their types.                                          *)
TypeOK ==
  /\ file \in [AsecIds -> [Directory -> Images \cup {None}]]
  /\ content \in [Images -> [fs : {"blank", "none", "fat", "ext4"}, key : BOOLEAN]]
  /\ secureArea \in {"unbound", "bound", "gone"}
  /\ loops \in [Loop -> [bound : BOOLEAN, name : Ids \cup {None},
                         file : Images \cup ObbIds \cup {None}, clearing : BOOLEAN]]
  /\ dms \in [Ids -> Loop \cup {NoDevice, NoTable}]
  /\ mounts \in [Ids -> Seq([loop : Loop, dm : BOOLEAN, ro : BOOLEAN])]
  /\ held \subseteq [id : Ids, loop : Loop, dm : BOOLEAN]
  /\ mActiveContainers \in Seq(Ids)
  /\ \A t \in Thread : call[t].todo \in Seq(Ids) /\ call[t].loop \in Loop
  /\ disturbed \subseteq {"overlap", "open"}

Quiescent == pc = [t \in Thread |-> "idle"]

(* No error path leaves a device behind: with no operation under way, every *)
(* loop and device mapper device belongs to a container that is listed.     *)
NoLeak ==
  Quiescent /\ disturbed = {} =>
    /\ \A k \in Loop : loops[k].bound => Contains(mActiveContainers, loops[k].name)
    /\ \A id \in Ids : dms[id] # NoDevice => Contains(mActiveContainers, id)

(* mActiveContainers lists each mounted container once, and nothing else.   *)
ListedIsMounted ==
  Quiescent /\ "overlap" \notin disturbed =>
    /\ \A id \in Ids : Mounted(id) <=> Contains(mActiveContainers, id)
    /\ \A i, j \in DOMAIN mActiveContainers :
         mActiveContainers[i] = mActiveContainers[j] => i = j

(* What is mounted for an ASEC is the image file of that ASEC, and it is    *)
(* never deleted while it is mounted.                                       *)
MountsOwnImage ==
  disturbed = {} => \A id \in AsecIds : \A i \in DOMAIN mounts[id] :
    \E d \in Directory : loops[mounts[id][i].loop].file = file[id][d]

(* No image is behind two loop devices, which would cache it twice.         *)
OneLoopPerImage ==
  disturbed = {} => \A j, k \in Loop :
    loops[j].bound /\ loops[k].bound /\ loops[j].file = loops[k].file => j = k

(* "ASEC file currently exists - destroy it first!" (createAsec): once the  *)
(* file is gone createAsec finds the names of its devices free.             *)
FreshDevices ==
  disturbed = {} =>
    (pc["cmd"] = "dm" /\ call["cmd"].op = "create" => dms[call["cmd"].id] = NoDevice)

(* "Couldn't find ASEC; cleaning up" (cleanupAsec): once the volume is      *)
(* unmounted no container whose image it holds is mounted.                  *)
CleanedUp ==
  Quiescent /\ disturbed = {} /\ secureArea = "unbound" =>
    \A id \in Ids : Mounted(id) => id \in AsecIds /\ file[id]["int"] # None

(* "mActiveContainers is inconsistent!" (unmountLoopImage): the container   *)
(* that has been unmounted is in the list.                                  *)
ActiveIsConsistent ==
  \A t \in Thread : pc[t] = "um_erase" => Contains(mActiveContainers, call[t].id)
=============================================================================
